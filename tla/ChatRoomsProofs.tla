--------------------------- MODULE ChatRoomsProofs ---------------------------
(***************************************************************************)
(* Proofs about ChatRooms.  RoomInv says what a connection that has not    *)
(* joined leaves untouched, and that whoever is in the room of the map     *)
(* will still leave it; ReceiptInv that receipts are true from the moment  *)
(* they are made.                                                          *)
(***************************************************************************)
EXTENDS ChatRooms, SequenceTheorems, TLAPS

Outside == {"new", "accepted"}
Inside == {"joining"} \union Connected

\* A connection outside has made no room, so that the room it may make is new.
OutsideIsUnknown ==
  \A c \in Conn : pc[c] \in Outside =>
    /\ room # c /\ sub[c] = "none" /\ members[c] = Nobody
    /\ \A d \in Conn : joined[d] # c /\ target[d] # c

InsideHasJoined ==
  \A c \in Conn : pc[c] \in Inside \union Leaving => joined[c] # None

\* Whoever is in the room will leave it.
WillLeave(d, r) ==
  /\ joined[d] = r
  /\ \/ pc[d] \in Connected
     \/ pc[d] = "leaving" /\ target[d] = r

MembersWillLeave ==
  \A k \in Role, d \in Conn :
    room # None /\ members[room][k] = d => role[d] = k /\ WillLeave(d, room)

RoomInv ==
  /\ OutsideIsUnknown /\ InsideHasJoined /\ MembersWillLeave
  /\ OneLiveRoom /\ RoomHasHandler

\* The messages a receipt covers, once it is made.
Settled(messages) == \A i \in messages : store[i].is \in {"read", "deleted"}

ReceiptInv ==
  /\ \A c \in Conn : job[c] # None /\ job[c].kind = "receipt" => Settled(job[c].covers)
  /\ ReceiptCoversShown

-----------------------------------------------------------------------------
(* Types *)

\* What a client has been shown is in the store.
LEMMA KnownType ==
  ASSUME TypeOK, NEW c \in Conn
  PROVE  Known(c) \subseteq 1 .. Len(store)
<1>1. history[c] \subseteq 1 .. Len(store)
  BY DEF TypeOK
<1>2. ASSUME NEW k \in 1 .. Len(published)
      PROVE  published[k].covers \subseteq 1 .. Len(store)
  <2>1. published[k] \in Event
    BY <1>2 DEF TypeOK
  <2>2. QED
    BY <2>1 DEF Event
<1>3. QED
  BY <1>1, <1>2 DEF Known

\* UpdateMany changes no message but for its mark.
LEMMA MarkedType ==
  ASSUME NEW s \in Seq(Message), NEW R
  PROVE  /\ Marked(s, R) \in Seq(Message)
         /\ Len(Marked(s, R)) = Len(s)
         /\ \A i \in 1 .. Len(s) :
              /\ s[i].from \in R => Marked(s, R)[i].is \in {"read", "deleted"}
              /\ s[i].is \in {"read", "deleted"} => Marked(s, R)[i].is = s[i].is
<1>1. \A i \in 1 .. Len(s) : s[i] \in Message
  OBVIOUS
<1>2. Len(s) \in Nat
  OBVIOUS
<1> DEFINE f == [i \in 1 .. Len(s) |->
                   IF s[i].is = "unread" /\ s[i].from \in R THEN [s[i] EXCEPT !.is = "read"]
                                                            ELSE s[i]]
<1>3. Marked(s, R) = f
  BY DEF Marked
<1>4. \A i \in 1 .. Len(s) : f[i] \in Message
  BY <1>1 DEF Message
<1>5. f \in Seq(Message) /\ Len(f) = Len(s)
  BY <1>2, <1>4, IsASeq, LenProperties
<1>6. ASSUME NEW i \in 1 .. Len(s)
      PROVE  /\ s[i].from \in R => f[i].is \in {"read", "deleted"}
             /\ s[i].is \in {"read", "deleted"} => f[i].is = s[i].is
  BY <1>1, <1>6 DEF Message
<1>7. QED
  BY <1>3, <1>5, <1>6

\* The store only grows, and a message once read or deleted stays so.
StoreGrows ==
  /\ store' \in Seq(Message)
  /\ Len(store) <= Len(store') /\ Len(store') <= MaxMessages
  /\ \A i \in 1 .. Len(store) :
       store[i].is \in {"read", "deleted"} => store'[i].is \in {"read", "deleted"}

LEMMA StoreStep ==
  ASSUME TypeOK, [Next]_vars
  PROVE  StoreGrows
<1>1. store \in Seq(Message) /\ Len(store) \in Nat /\ Len(store) <= MaxMessages
  BY DEF TypeOK
<1>2. CASE UNCHANGED store
  BY <1>1, <1>2 DEF StoreGrows
<1>3. ASSUME NEW c \in Conn, Send(c)
      PROVE  StoreGrows
  <2>1. [from |-> role[c], is |-> "unread"] \in Message
    BY DEF TypeOK, Message
  <2>2. /\ store' \in Seq(Message) /\ Len(store') = Len(store) + 1
        /\ \A i \in 1 .. Len(store) : store'[i] = store[i]
    BY <1>1, <1>3, <2>1, AppendProperties DEF Send
  <2>3. QED
    BY <1>1, <1>3, <2>2, BoundsAssumption DEF Send, StoreGrows
<1>4. ASSUME NEW c \in Conn, MarkAllRead(c)
      PROVE  StoreGrows
  <2>1. store' = Marked(store, Role \ {role[c]})
    BY <1>4 DEF MarkAllRead
  <2>2. QED
    BY <1>1, <2>1, MarkedType DEF StoreGrows
<1>5. ASSUME NEW c \in Conn, SoftDelete(c)
      PROVE  StoreGrows
  <2>1. PICK i \in Known(c) : store' = [store EXCEPT ![i].is = "deleted"]
    BY <1>5 DEF SoftDelete
  <2>2. i \in 1 .. Len(store)
    BY KnownType
  <2>3. store[i] \in Message
    BY <1>1, <2>2
  <2>4. [store[i] EXCEPT !.is = "deleted"] \in Message
    BY <2>3 DEF Message
  <2>5. store' = [store EXCEPT ![i] = [store[i] EXCEPT !.is = "deleted"]]
    BY <2>1
  <2>6. /\ store' \in Seq(Message) /\ Len(store') = Len(store)
        /\ \A k \in 1 .. Len(store) :
             store'[k] = IF k = i THEN [store[i] EXCEPT !.is = "deleted"] ELSE store[k]
    BY <1>1, <2>2, <2>4, <2>5, ExceptSeq
  <2>7. [store[i] EXCEPT !.is = "deleted"].is = "deleted"
    BY <2>3 DEF Message
  <2>8. ASSUME NEW k \in 1 .. Len(store), store[k].is \in {"read", "deleted"}
        PROVE  store'[k].is \in {"read", "deleted"}
    <3>1. CASE k = i
      <4>1. store'[k] = [store[i] EXCEPT !.is = "deleted"]
        BY <2>6, <3>1
      <4>2. QED
        BY <4>1, <2>7
    <3>2. CASE k # i
      <4>1. store'[k] = store[k]
        BY <2>6, <3>2
      <4>2. QED
        BY <4>1, <2>8
    <3>3. QED
      BY <3>1, <3>2
  <2>9. QED
    BY <1>1, <2>6, <2>8 DEF StoreGrows
<1>6. QED
  BY <1>2, <1>3, <1>4, <1>5
  DEF Next, vars, handleNotification, Restart, Open, Join, join, Leave, leave, isEmpty,
      CloseRoom, GetMessages, WritesCollide, Publish, Lose, Subscribe, Unsubscribe, broadcast

\* Sequences over a larger set.
LEMMA SeqMonotone ==
  ASSUME NEW S, NEW T, S \subseteq T
  PROVE  Seq(S) \subseteq Seq(T)
<1> SUFFICES ASSUME NEW s \in Seq(S)
             PROVE  s \in Seq(T)
  OBVIOUS
<1>1. s \in [1 .. Len(s) -> S] /\ Len(s) \in Nat
  BY LenProperties
<1>2. s = [i \in 1 .. Len(s) |-> s[i]] /\ \A i \in 1 .. Len(s) : s[i] \in T
  BY <1>1
<1>3. QED
  BY <1>1, <1>2, IsASeq

\* So do the events.
PublishedGrows ==
  /\ published' \in Seq(Event') /\ Len(published) <= Len(published')
  /\ Seq(1 .. Len(published)) \subseteq Seq(1 .. Len(published'))

LEMMA EventsGrow ==
  ASSUME TypeOK, StoreGrows
  PROVE  /\ Event \subseteq Event' /\ Seq(Event) \subseteq Seq(Event')
         /\ SUBSET (1 .. Len(store)) \subseteq SUBSET (1 .. Len(store'))
<1>1. Len(store) \in Nat /\ Len(store') \in Nat /\ Len(store) <= Len(store')
  BY DEF TypeOK, StoreGrows
<1>2. SUBSET (1 .. Len(store)) \subseteq SUBSET (1 .. Len(store'))
  BY <1>1
<1>3. Event \subseteq Event'
  BY <1>2 DEF Event
<1>4. QED
  BY <1>2, <1>3, SeqMonotone

LEMMA PublishedStep ==
  ASSUME TypeOK, [Next]_vars
  PROVE  PublishedGrows
<1>1. StoreGrows
  BY StoreStep
<1>2. Seq(Event) \subseteq Seq(Event')
  BY <1>1, EventsGrow
<1>3. published \in Seq(Event) /\ Len(published) \in Nat
  BY DEF TypeOK
<1>4. CASE UNCHANGED published
  BY <1>2, <1>3, <1>4 DEF PublishedGrows
<1>5. ASSUME NEW c \in Conn, Publish(c)
      PROVE  PublishedGrows
  <2>1. job[c] \in Event /\ published' = Append(published, job[c])
    BY <1>5 DEF TypeOK, Publish
  <2>2. published' \in Seq(Event) /\ Len(published') = Len(published) + 1
    BY <1>3, <2>1, AppendProperties
  <2>3. 1 .. Len(published) \subseteq 1 .. Len(published')
    BY <1>3, <2>2
  <2>4. QED
    BY <1>2, <1>3, <2>2, <2>3, SeqMonotone DEF PublishedGrows
<1>6. QED
  BY <1>4, <1>5
  DEF Next, vars, handleNotification, Restart, Open, Join, join, Leave, leave, isEmpty,
      CloseRoom, GetMessages, WritesCollide, Send, MarkAllRead, SoftDelete, Lose,
      Subscribe, Unsubscribe, broadcast

\* The variables whose types do not depend on the store.
PlainTypes ==
  /\ participants \subseteq Role
  /\ room \in Conn \union {None} /\ cancelled \subseteq Conn
  /\ members \in [Conn -> [Role -> Conn \union {None}]]
  /\ sub \in [Conn -> {"none", "starting", "listening", "ended"}]
  /\ missed \in [Conn -> SUBSET Nat]
  /\ role \in [Conn -> Role]
  /\ pc \in [Conn -> {"new", "accepted", "joining", "gone"} \union Connected \union Leaving]
  /\ joined \in [Conn -> Conn \union {None}]
  /\ target \in [Conn -> Conn \union {None}]
  /\ lost \subseteq Conn
  /\ faults \in 0 .. MaxFaults
  /\ \A c \in Conn : pc[c] \in Leaving => target[c] # None

DataTypes ==
  /\ store \in Seq(Message) /\ Len(store) <= MaxMessages
  /\ published \in Seq(Event)
  /\ inbox \in [Conn -> Seq(1 .. Len(published))]
  /\ job \in [Conn -> Event \union {None}]
  /\ history \in [Conn -> SUBSET (1 .. Len(store))]
  /\ seen \in [Conn -> Seq(1 .. Len(published))]

LEMMA TypeParts == TypeOK <=> PlainTypes /\ DataTypes
  BY DEF TypeOK, PlainTypes, DataTypes

LEMMA PlainStep ==
  ASSUME TypeOK, [Next]_vars
  PROVE  PlainTypes'
<1>0. PlainTypes
  BY TypeParts
<1>1. CASE handleNotification \/ UNCHANGED vars
  BY <1>0, <1>1 DEF handleNotification, vars, PlainTypes, manager, feed, client
<1>2. ASSUME NEW c \in Conn, Open(c) \/ Join(c) \/ join(c)
      PROVE  PlainTypes'
  <2>1. CASE Open(c)
    BY <1>0, <2>1 DEF Open, Goto, PlainTypes, manager, feed, client, Leaving, Connected
  <2>2. CASE Join(c)
    <3>1. /\ room' \in Conn \union {None}
          /\ joined' \in [Conn -> Conn \union {None}]
          /\ sub' \in [Conn -> {"none", "starting", "listening", "ended"}]
      <4>1. CASE Make(c)
        BY <1>0, <4>1 DEF Make, PlainTypes
      <4>2. CASE /\ room \in Conn /\ joined' = [joined EXCEPT ![c] = room]
                 /\ UNCHANGED <<room, sub>>
        BY <1>0, <4>2 DEF PlainTypes
      <4>3. QED
        BY <1>0, <2>2, <4>1, <4>2 DEF Join, PlainTypes
    <3>2. pc' \in [Conn -> {"new", "accepted", "joining", "gone"} \union Connected \union Leaving]
          /\ \A d \in Conn : pc'[d] \in Leaving => pc[d] \in Leaving
      BY <1>0, <2>2 DEF Join, Goto, PlainTypes, Leaving, Connected
    <3>3. QED
      BY <1>0, <2>2, <3>1, <3>2 DEF Join, PlainTypes, client
  <2>3. CASE join(c)
    <3>1. members' \in [Conn -> [Role -> Conn \union {None}]]
      BY <1>0, <2>3 DEF join, PlainTypes
    <3>2. pc' \in [Conn -> {"new", "accepted", "joining", "gone"} \union Connected \union Leaving]
          /\ \A d \in Conn : pc'[d] \in Leaving => pc[d] \in Leaving
      BY <1>0, <2>3 DEF join, Goto, PlainTypes, Leaving, Connected
    <3>3. QED
      BY <1>0, <2>3, <3>1, <3>2 DEF join, PlainTypes, feed, client
  <2>4. QED
    BY <1>2, <2>1, <2>2, <2>3
<1>3. ASSUME NEW c \in Conn, Leave(c) \/ leave(c) \/ isEmpty(c) \/ CloseRoom(c)
      PROVE  PlainTypes'
  <2>1. CASE Leave(c)
    BY <1>0, <2>1 DEF Leave, Goto, PlainTypes, manager, feed, client, Leaving, Connected
  <2>2. CASE leave(c)
    BY <1>0, <2>2 DEF leave, Goto, PlainTypes, manager, feed, client, Leaving, Connected
  <2>3. CASE isEmpty(c)
    BY <1>0, <2>3 DEF isEmpty, Ends, Goto, PlainTypes, manager, feed, client, Leaving, Connected
  <2>4. CASE CloseRoom(c)
    BY <1>0, <2>4 DEF CloseRoom, Ends, Goto, PlainTypes, manager, feed, client, Leaving, Connected
  <2>5. QED
    BY <1>3, <2>1, <2>2, <2>3, <2>4
<1>4. ASSUME NEW c \in Conn, Send(c) \/ MarkAllRead(c) \/ SoftDelete(c)
      PROVE  PlainTypes'
  BY <1>0, <1>4
  DEF Send, MarkAllRead, SoftDelete, PlainTypes, manager, feed, client
<1>5. ASSUME NEW c \in Conn, Publish(c)
      PROVE  PlainTypes'
  <2>1. Len(published') \in Nat
    <3>1. published \in Seq(Event) /\ published' = Append(published, job[c]) /\ job[c] \in Event
      BY <1>5 DEF TypeOK, Publish
    <3>2. QED
      BY <3>1, AppendProperties, LenProperties
  <2>2. missed' \in [Conn -> SUBSET Nat]
    BY <1>0, <1>5, <2>1 DEF Publish, Deliver, PlainTypes
  <2>3. faults' \in 0 .. MaxFaults
    BY <1>0, <1>5, BoundsAssumption DEF Publish, Fault, PlainTypes
  <2>4. QED
    BY <1>0, <1>5, <2>2, <2>3 DEF Publish, PlainTypes, manager, client
<1>6. ASSUME NEW c \in Conn, GetMessages(c) \/ WritesCollide(c) \/ Lose(c)
      PROVE  PlainTypes'
  <2>1. CASE GetMessages(c)
    BY <1>0, <2>1, BoundsAssumption DEF GetMessages, Goto, Fault, PlainTypes, manager, feed, client, Leaving, Connected
  <2>2. CASE WritesCollide(c)
    BY <1>0, <2>2 DEF WritesCollide, Forget, Goto, PlainTypes, manager, feed, client, Leaving, Connected
  <2>3. CASE Lose(c)
    BY <1>0, <2>3 DEF Lose, Forget, PlainTypes, manager, feed, client, Leaving, Connected
  <2>4. QED
    BY <1>6, <2>1, <2>2, <2>3
<1>7. ASSUME NEW r \in Conn, Subscribe(r) \/ Unsubscribe(r) \/ broadcast(r)
      PROVE  PlainTypes'
  <2>1. CASE Subscribe(r)
    BY <1>0, <2>1 DEF Subscribe, PlainTypes, manager, feed, client, Leaving, Connected
  <2>2. CASE Unsubscribe(r)
    BY <1>0, <2>2 DEF Unsubscribe, PlainTypes, manager, feed, client, Leaving, Connected
  <2>3. CASE broadcast(r)
    BY <1>0, <2>3 DEF broadcast, PlainTypes, manager, feed, client, Leaving, Connected
  <2>4. QED
    BY <1>7, <2>1, <2>2, <2>3
<1>8. CASE Restart
  <2>1. members' \in [Conn -> [Role -> Conn \union {None}]]
    BY <1>8 DEF Restart, Nobody
  <2>2. pc' \in [Conn -> {"new", "gone"}]
    BY <1>8 DEF Restart
  <2>3. QED
    BY <1>0, <1>8, <2>1, <2>2, BoundsAssumption
    DEF Restart, Forget, Fault, PlainTypes, Leaving, Connected
<1>9. QED
  BY <1>1, <1>2, <1>3, <1>4, <1>5, <1>6, <1>7, <1>8 DEF Next

\* The event a command is about to publish covers messages of the store.
LEMMA JobType ==
  ASSUME TypeOK, [Next]_vars
  PROVE  job' \in [Conn -> Event' \union {None}]
<1>1. StoreGrows /\ Event \subseteq Event'
  BY StoreStep, EventsGrow
<1>2. job \in [Conn -> Event' \union {None}]
  BY <1>1 DEF TypeOK
<1>3. Len(store) \in Nat /\ Len(store') \in Nat /\ Len(store) <= Len(store')
  BY <1>1 DEF TypeOK, StoreGrows
<1>4. ASSUME NEW c \in Conn, NEW kind \in {"message", "receipt", "deleted"},
             NEW messages \in SUBSET (1 .. Len(store')), Does(c, kind, messages)
      PROVE  job' \in [Conn -> Event' \union {None}]
  <2>1. [kind |-> kind, covers |-> messages] \in Event'
    BY <1>4 DEF Event
  <2>2. QED
    BY <1>2, <1>4, <2>1 DEF Does
<1>5. ASSUME NEW c \in Conn, Send(c)
      PROVE  job' \in [Conn -> Event' \union {None}]
  <2>1. store' = Append(store, [from |-> role[c], is |-> "unread"])
        /\ Does(c, "message", {Len(store')})
    BY <1>5 DEF Send
  <2>2. Len(store') = Len(store) + 1
    BY <2>1, AppendProperties DEF TypeOK
  <2>3. {Len(store')} \in SUBSET (1 .. Len(store'))
    BY <1>3, <2>2
  <2>4. QED
    BY <1>4, <2>1, <2>3
<1>6. ASSUME NEW c \in Conn, MarkAllRead(c)
      PROVE  job' \in [Conn -> Event' \union {None}]
  <2>1. Others(c) \in SUBSET (1 .. Len(store'))
    BY <1>3, KnownType DEF Others
  <2>2. QED
    BY <1>4, <1>6, <2>1 DEF MarkAllRead
<1>7. ASSUME NEW c \in Conn, SoftDelete(c)
      PROVE  job' \in [Conn -> Event' \union {None}]
  <2>1. PICK i \in Known(c) : Does(c, "deleted", {i})
    BY <1>7 DEF SoftDelete
  <2>2. {i} \in SUBSET (1 .. Len(store'))
    BY <1>3, KnownType
  <2>3. QED
    BY <1>4, <2>1, <2>2
<1>8. ASSUME NEW c \in Conn, Publish(c)
      PROVE  job' \in [Conn -> Event' \union {None}]
  BY <1>2, <1>8 DEF Publish
<1>9. CASE Restart
  BY <1>9 DEF Restart
<1>10. QED
  BY <1>2, <1>5, <1>6, <1>7, <1>8, <1>9
  DEF Next, vars, handleNotification, Open, Join, join, Leave, leave, isEmpty, CloseRoom,
      GetMessages, WritesCollide, Lose, Subscribe, Unsubscribe, broadcast

\* Subscriptions and clients have events that were published.
LEMMA FeedType ==
  ASSUME TypeOK, [Next]_vars
  PROVE  /\ inbox' \in [Conn -> Seq(1 .. Len(published'))]
         /\ seen' \in [Conn -> Seq(1 .. Len(published'))]
<1> DEFINE Places == 1 .. Len(published')
<1>1. PublishedGrows
  BY PublishedStep
<1>2. inbox \in [Conn -> Seq(Places)] /\ seen \in [Conn -> Seq(Places)]
  BY <1>1 DEF TypeOK, PublishedGrows
<1>3. << >> \in Seq(Places)
  OBVIOUS
<1>4. ASSUME NEW C, Forget(C)
      PROVE  seen' \in [Conn -> Seq(Places)]
  BY <1>2, <1>3, <1>4 DEF Forget
<1>5. ASSUME NEW c \in Conn, Publish(c)
      PROVE  inbox' \in [Conn -> Seq(Places)] /\ UNCHANGED seen
  <2>1. published \in Seq(Event) /\ published' = Append(published, job[c]) /\ job[c] \in Event
    BY <1>5 DEF TypeOK, Publish
  <2>2. Len(published') \in Places
    BY <2>1, AppendProperties, LenProperties
  <2>3. \A r \in Conn : Append(inbox[r], Len(published')) \in Seq(Places)
    BY <1>2, <2>2, AppendProperties
  <2>4. PICK S \in SUBSET Listening : Deliver(S)
    BY <1>5 DEF Publish
  <2>5. inbox' \in [Conn -> Seq(Places)]
    BY <1>2, <2>3, <2>4 DEF Deliver
  <2>6. QED
    BY <1>5, <2>5 DEF Publish, client
<1>6. ASSUME NEW r \in Conn, broadcast(r)
      PROVE  inbox' \in [Conn -> Seq(Places)] /\ seen' \in [Conn -> Seq(Places)]
  <2>1. inbox[r] \in Seq(Places) /\ inbox[r] # << >>
    BY <1>2, <1>6 DEF broadcast, Received
  <2>2. Tail(inbox[r]) \in Seq(Places) /\ Head(inbox[r]) \in Places
    BY <2>1, HeadTailProperties
  <2>3. \A c \in Conn : Append(seen[c], Head(inbox[r])) \in Seq(Places)
    BY <1>2, <2>2, AppendProperties
  <2>4. QED
    BY <1>2, <1>6, <2>2, <2>3 DEF broadcast, Hears
<1>7. ASSUME NEW r \in Conn, Unsubscribe(r)
      PROVE  inbox' \in [Conn -> Seq(Places)] /\ UNCHANGED seen
  BY <1>2, <1>3, <1>7 DEF Unsubscribe, client
<1>8. CASE Restart
  BY <1>3, <1>4, <1>8 DEF Restart
<1>9. ASSUME NEW c \in Conn, WritesCollide(c) \/ Lose(c)
      PROVE  inbox' \in [Conn -> Seq(Places)] /\ seen' \in [Conn -> Seq(Places)]
  BY <1>2, <1>4, <1>9 DEF WritesCollide, Lose, feed
<1>10. QED
  BY <1>2, <1>5, <1>6, <1>7, <1>8, <1>9
  DEF Next, vars, handleNotification, Open, Join, join, Leave, leave, isEmpty, CloseRoom,
      GetMessages, Send, MarkAllRead, SoftDelete, Subscribe, feed, client

LEMMA HistoryType ==
  ASSUME TypeOK, [Next]_vars
  PROVE  history' \in [Conn -> SUBSET (1 .. Len(store'))]
<1>1. StoreGrows
  BY StoreStep
<1>2. history \in [Conn -> SUBSET (1 .. Len(store'))]
  BY <1>1, EventsGrow DEF TypeOK
<1>3. ASSUME NEW C, Forget(C)
      PROVE  history' \in [Conn -> SUBSET (1 .. Len(store'))]
  BY <1>2, <1>3 DEF Forget
<1>4. ASSUME NEW c \in Conn, GetMessages(c)
      PROVE  history' \in [Conn -> SUBSET (1 .. Len(store'))]
  BY <1>2, <1>4 DEF GetMessages
<1>5. CASE Restart
  BY <1>3, <1>5 DEF Restart
<1>6. ASSUME NEW c \in Conn, WritesCollide(c) \/ Lose(c)
      PROVE  history' \in [Conn -> SUBSET (1 .. Len(store'))]
  BY <1>3, <1>6 DEF WritesCollide, Lose
<1>7. QED
  BY <1>2, <1>4, <1>5, <1>6
  DEF Next, vars, handleNotification, Open, Join, join, Leave, leave, isEmpty, CloseRoom,
      Send, MarkAllRead, SoftDelete, Publish, Subscribe, Unsubscribe, broadcast, client

LEMMA TypeStep ==
  ASSUME TypeOK, [Next]_vars
  PROVE  TypeOK'
<1>1. /\ store' \in Seq(Message) /\ Len(store') <= MaxMessages
      /\ published' \in Seq(Event')
  BY StoreStep, PublishedStep DEF StoreGrows, PublishedGrows
<1>2. DataTypes'
  BY <1>1, JobType, FeedType, HistoryType DEF DataTypes, Message
<1>3. QED
  BY <1>2, PlainStep, TypeParts, PTL

\* Every variable keeps its type.
THEOREM TypeCorrect == Spec => []TypeOK
<1>1. Init => TypeOK
  <2> SUFFICES ASSUME Init
               PROVE  TypeOK
    OBVIOUS
  <2>1. store = << >> /\ published = << >> /\ Len(store) = 0
    BY DEF Init
  <2>2. store \in Seq(Message) /\ published \in Seq(Event) /\ << >> \in Seq(1 .. Len(published))
    BY <2>1
  <2>3. members \in [Conn -> [Role -> Conn \union {None}]]
    BY DEF Init, Nobody
  <2>4. QED
    BY <2>1, <2>2, <2>3, BoundsAssumption DEF Init, TypeOK, Leaving
<1>2. TypeOK /\ [Next]_vars => TypeOK'
  BY TypeStep
<1>3. QED
  BY <1>1, <1>2, PTL DEF Spec

-----------------------------------------------------------------------------
(* Rooms *)

Rooms == <<room, cancelled, members, sub, pc, joined, target, role>>

LEMMA RoomUnchanged ==
  ASSUME RoomInv, UNCHANGED Rooms
  PROVE  RoomInv'
  BY DEF Rooms, RoomInv, OutsideIsUnknown, InsideHasJoined, MembersWillLeave, WillLeave,
         OneLiveRoom, Live, RoomHasHandler

\* A handler that neither joins nor leaves.
LEMMA RoomKept ==
  ASSUME TypeOK, RoomInv, UNCHANGED <<room, cancelled, members, sub, joined, target, role>>,
         NEW c \in Conn, NEW place, Goto(c, place),
         \/ pc[c] = "new" /\ place = "accepted"
         \/ pc[c] \in Connected /\ place \in Connected
  PROVE  RoomInv'
<1>1. pc' = [pc EXCEPT ![c] = place] /\ pc \in [Conn -> {"new", "accepted", "joining", "gone"} \union Connected \union Leaving]
  BY DEF Goto, TypeOK
<1>2. \A d \in Conn : pc'[d] \in Outside => pc[d] \in Outside
  BY <1>1 DEF Outside, Connected
<1>3. \A d \in Conn : /\ pc'[d] \in Inside \union Leaving => pc[d] \in Inside \union Leaving
                      /\ pc[d] \in Connected => pc'[d] \in Connected
                      /\ pc[d] \in Inside => pc'[d] \in Inside
                      /\ pc[d] \in Leaving => pc'[d] = pc[d]
  BY <1>1 DEF Inside, Connected, Leaving
<1>4. OutsideIsUnknown' /\ InsideHasJoined'
  BY <1>2, <1>3 DEF RoomInv, OutsideIsUnknown, InsideHasJoined
<1>5. MembersWillLeave'
  <2>1. ASSUME NEW k \in Role, NEW d \in Conn, room # None, members[room][k] = d
        PROVE  role[d] = k /\ WillLeave(d, room)'
    <3>1. role[d] = k /\ WillLeave(d, room)
      BY <2>1 DEF RoomInv, MembersWillLeave
    <3>2. QED
      BY <1>3, <3>1 DEF WillLeave, Leaving
  <2>2. QED
    BY <2>1 DEF MembersWillLeave
<1>6. OneLiveRoom'
  BY DEF RoomInv, OneLiveRoom, Live
<1>7. RoomHasHandler'
  BY <1>3 DEF RoomInv, RoomHasHandler, Inside
<1>8. QED
  BY <1>4, <1>5, <1>6, <1>7 DEF RoomInv

LEMMA RoomJoin ==
  ASSUME TypeOK, RoomInv, NEW c \in Conn, Join(c)
  PROVE  RoomInv'
<1>0. /\ UNCHANGED <<cancelled, members, target, role>>
      /\ pc' = [pc EXCEPT ![c] = "joining"] /\ pc[c] = "accepted"
      /\ joined \in [Conn -> Conn \union {None}] /\ sub \in [Conn -> {"none", "starting", "listening", "ended"}]
      /\ members \in [Conn -> [Role -> Conn \union {None}]]
      /\ pc \in [Conn -> {"new", "accepted", "joining", "gone"} \union Connected \union Leaving]
      /\ room \in Conn \union {None}
  BY DEF Join, Goto, TypeOK
<1>1. room' \in Conn /\ joined' = [joined EXCEPT ![c] = room']
      /\ \/ room = None /\ room' = c /\ sub' = [sub EXCEPT ![c] = "starting"]
         \/ room # None /\ UNCHANGED <<room, sub>>
  BY <1>0 DEF Join, Make
<1>2. \A d \in Conn : /\ d # c => pc'[d] = pc[d] /\ joined'[d] = joined[d] /\ sub'[d] = sub[d]
                      /\ joined'[c] = room' /\ pc'[c] = "joining"
  BY <1>0, <1>1
<1>3. /\ room # c /\ members[c] = Nobody /\ \A d \in Conn : joined[d] # c /\ target[d] # c
  BY <1>0 DEF RoomInv, OutsideIsUnknown, Outside
<1>4. OutsideIsUnknown'
  <2>1. ASSUME NEW d \in Conn, pc'[d] \in Outside
        PROVE  /\ room' # d /\ sub'[d] = "none" /\ members[d] = Nobody
               /\ \A e \in Conn : joined'[e] # d /\ target[e] # d
    <3>1. d # c
      BY <1>2, <2>1 DEF Outside
    <3>2. /\ room # d /\ sub[d] = "none" /\ members[d] = Nobody
          /\ \A e \in Conn : joined[e] # d /\ target[e] # d
      BY <1>2, <2>1, <3>1 DEF RoomInv, OutsideIsUnknown
    <3>3. QED
      BY <1>1, <1>2, <3>1, <3>2
  <2>2. QED
    BY <1>0, <2>1 DEF OutsideIsUnknown
<1>5. InsideHasJoined'
  BY <1>0, <1>1, <1>2, NoneAssumption DEF RoomInv, InsideHasJoined
<1>6. MembersWillLeave'
  <2>1. ASSUME NEW k \in Role, NEW d \in Conn, members[room'][k] = d
        PROVE  role[d] = k /\ WillLeave(d, room)'
    <3>1. room # None /\ room' = room
      BY <1>1, <1>3, <2>1, NoneAssumption DEF Nobody
    <3>2. role[d] = k /\ WillLeave(d, room)
      BY <1>0, <2>1, <3>1 DEF RoomInv, MembersWillLeave
    <3>3. d # c
      BY <1>0, <3>2 DEF WillLeave, Connected
    <3>4. QED
      BY <1>0, <1>2, <3>1, <3>2, <3>3 DEF WillLeave
  <2>2. QED
    BY <1>0, <2>1 DEF MembersWillLeave
<1>7. OneLiveRoom'
  BY <1>0, <1>1, NoneAssumption DEF RoomInv, OneLiveRoom, Live
<1>8. RoomHasHandler'
  BY <1>1, <1>2 DEF RoomHasHandler
<1>9. QED
  BY <1>4, <1>5, <1>6, <1>7, <1>8 DEF RoomInv

LEMMA RoomMember ==
  ASSUME TypeOK, RoomInv, NEW c \in Conn, join(c)
  PROVE  RoomInv'
<1>0. /\ UNCHANGED <<room, cancelled, sub, joined, target, role>>
      /\ pc' = [pc EXCEPT ![c] = "greeting"] /\ pc[c] = "joining"
      /\ members' = [members EXCEPT ![joined[c]][role[c]] = c]
      /\ joined \in [Conn -> Conn \union {None}] /\ role \in [Conn -> Role]
      /\ members \in [Conn -> [Role -> Conn \union {None}]]
      /\ pc \in [Conn -> {"new", "accepted", "joining", "gone"} \union Connected \union Leaving]
      /\ room \in Conn \union {None}
  BY DEF join, Goto, TypeOK, feed
<1>1. \A d \in Conn : (d # c => pc'[d] = pc[d]) /\ pc'[c] = "greeting"
  BY <1>0
<1>2. joined[c] \in Conn
  BY <1>0 DEF RoomInv, InsideHasJoined, Inside
<1>3. OutsideIsUnknown'
  <2>1. ASSUME NEW d \in Conn, pc'[d] \in Outside
        PROVE  members'[d] = Nobody /\ pc[d] \in Outside
    <3>1. d # c /\ pc[d] \in Outside
      BY <1>1, <2>1 DEF Outside
    <3>2. joined[c] # d /\ members[d] = Nobody
      BY <3>1 DEF RoomInv, OutsideIsUnknown
    <3>3. QED
      BY <1>0, <3>1, <3>2
  <2>2. QED
    BY <1>0, <2>1 DEF RoomInv, OutsideIsUnknown
<1>4. InsideHasJoined'
  BY <1>0, <1>1 DEF RoomInv, InsideHasJoined, Inside
<1>5. MembersWillLeave'
  <2>1. ASSUME NEW k \in Role, NEW d \in Conn, room # None, members'[room][k] = d
        PROVE  role[d] = k /\ WillLeave(d, room)'
    <3>1. CASE joined[c] = room /\ k = role[c]
      <4>1. d = c
        BY <1>0, <1>2, <2>1, <3>1
      <4>2. QED
        BY <1>0, <1>1, <3>1, <4>1 DEF WillLeave, Connected
    <3>2. CASE ~ (joined[c] = room /\ k = role[c])
      <4>1. members'[room][k] = members[room][k]
        BY <1>0, <1>2, <2>1, <3>2
      <4>2. role[d] = k /\ WillLeave(d, room)
        BY <1>0, <2>1, <4>1 DEF RoomInv, MembersWillLeave
      <4>3. d # c
        BY <1>0, <4>2 DEF WillLeave, Connected
      <4>4. QED
        BY <1>0, <1>1, <4>1, <4>2, <4>3 DEF WillLeave
    <3>3. QED
      BY <3>1, <3>2
  <2>2. QED
    BY <1>0, <2>1 DEF MembersWillLeave
<1>6. OneLiveRoom'
  BY <1>0 DEF RoomInv, OneLiveRoom, Live
<1>7. RoomHasHandler'
  BY <1>0, <1>1 DEF RoomInv, RoomHasHandler, Inside, Connected, Leaving
<1>8. QED
  BY <1>3, <1>4, <1>5, <1>6, <1>7 DEF RoomInv

LEMMA RoomLeave ==
  ASSUME TypeOK, RoomInv, NEW c \in Conn, Leave(c)
  PROVE  RoomInv'
<1>0. /\ UNCHANGED <<room, cancelled, members, sub, joined, role>>
      /\ pc[c] = "open" /\ target' = [target EXCEPT ![c] = room]
      /\ pc' = [pc EXCEPT ![c] = IF room = None THEN "gone" ELSE "leaving"]
      /\ target \in [Conn -> Conn \union {None}]
      /\ pc \in [Conn -> {"new", "accepted", "joining", "gone"} \union Connected \union Leaving]
      /\ room \in Conn \union {None}
  BY DEF Leave, Goto, TypeOK, manager, feed
<1>1. \A d \in Conn : /\ d # c => pc'[d] = pc[d] /\ target'[d] = target[d]
                      /\ target'[c] = room
                      /\ pc'[c] = IF room = None THEN "gone" ELSE "leaving"
  BY <1>0
<1>2. OutsideIsUnknown'
  BY <1>0, <1>1 DEF RoomInv, OutsideIsUnknown, Outside
<1>3. InsideHasJoined'
  BY <1>0, <1>1 DEF RoomInv, InsideHasJoined, Inside, Connected, Leaving
<1>4. MembersWillLeave'
  BY <1>0, <1>1 DEF RoomInv, MembersWillLeave, WillLeave, Connected
<1>5. OneLiveRoom'
  BY <1>0 DEF RoomInv, OneLiveRoom, Live
<1>6. RoomHasHandler'
  BY <1>0, <1>1 DEF RoomInv, RoomHasHandler, Connected, Leaving
<1>7. QED
  BY <1>2, <1>3, <1>4, <1>5, <1>6 DEF RoomInv

LEMMA RoomRemoved ==
  ASSUME TypeOK, RoomInv, NEW c \in Conn, leave(c)
  PROVE  RoomInv'
<1>0. /\ UNCHANGED <<room, cancelled, sub, joined, target, role>>
      /\ pc[c] = "leaving" /\ pc' = [pc EXCEPT ![c] = "left"]
      /\ members' = [members EXCEPT ![target[c]][role[c]] = None]
      /\ target[c] \in Conn /\ role \in [Conn -> Role] /\ room \in Conn \union {None}
      /\ members \in [Conn -> [Role -> Conn \union {None}]]
      /\ pc \in [Conn -> {"new", "accepted", "joining", "gone"} \union Connected \union Leaving]
  BY DEF leave, Goto, TypeOK, feed, Leaving
<1>1. \A d \in Conn : (d # c => pc'[d] = pc[d]) /\ pc'[c] = "left"
  BY <1>0
<1>2. OutsideIsUnknown'
  <2>1. ASSUME NEW d \in Conn, pc'[d] \in Outside
        PROVE  members'[d] = Nobody /\ pc[d] \in Outside
    <3>1. pc[d] \in Outside
      BY <1>1, <2>1 DEF Outside
    <3>2. target[c] # d /\ members[d] = Nobody
      BY <3>1 DEF RoomInv, OutsideIsUnknown
    <3>3. QED
      BY <1>0, <3>1, <3>2
  <2>2. QED
    BY <1>0, <2>1 DEF RoomInv, OutsideIsUnknown
<1>3. InsideHasJoined'
  BY <1>0, <1>1 DEF RoomInv, InsideHasJoined, Inside, Connected, Leaving
<1>4. MembersWillLeave'
  <2>1. ASSUME NEW k \in Role, NEW d \in Conn, room # None, members'[room][k] = d
        PROVE  role[d] = k /\ WillLeave(d, room)'
    <3>1. members[room][k] = d /\ ~ (target[c] = room /\ k = role[c])
      <4>1. members'[room][k] = IF target[c] = room /\ k = role[c] THEN None ELSE members[room][k]
        BY <1>0, <2>1
      <4>2. QED
        BY <2>1, <4>1, NoneAssumption
    <3>2. role[d] = k /\ WillLeave(d, room)
      BY <2>1, <3>1 DEF RoomInv, MembersWillLeave
    <3>3. d # c
      BY <1>0, <3>1, <3>2 DEF WillLeave, Connected
    <3>4. QED
      BY <1>0, <1>1, <3>2, <3>3 DEF WillLeave
  <2>2. QED
    BY <1>0, <2>1 DEF MembersWillLeave
<1>5. OneLiveRoom'
  BY <1>0 DEF RoomInv, OneLiveRoom, Live
<1>6. RoomHasHandler'
  BY <1>0, <1>1 DEF RoomInv, RoomHasHandler, Inside, Connected, Leaving
<1>7. QED
  BY <1>2, <1>3, <1>4, <1>5, <1>6 DEF RoomInv

LEMMA RoomFound ==
  ASSUME TypeOK, RoomInv, NEW c \in Conn, isEmpty(c)
  PROVE  RoomInv'
<1>0. /\ UNCHANGED <<room, cancelled, members, sub, joined, role>> /\ pc[c] = "left"
      /\ \/ members[target[c]] = Nobody /\ pc' = [pc EXCEPT ![c] = "emptied"] /\ UNCHANGED target
         \/ /\ members[target[c]] # Nobody /\ pc' = [pc EXCEPT ![c] = "gone"]
            /\ target' = [target EXCEPT ![c] = None]
      /\ target \in [Conn -> Conn \union {None}] /\ target[c] \in Conn
      /\ members \in [Conn -> [Role -> Conn \union {None}]]
      /\ pc \in [Conn -> {"new", "accepted", "joining", "gone"} \union Connected \union Leaving]
      /\ room \in Conn \union {None}
  BY DEF isEmpty, Ends, Goto, TypeOK, manager, feed, Leaving
<1>1. \A d \in Conn : /\ d # c => pc'[d] = pc[d] /\ target'[d] = target[d]
                      /\ pc'[c] \in {"emptied", "gone"}
                      /\ pc'[c] = "emptied" => target'[c] = target[c]
                      /\ target'[c] \in {target[c], None}
  BY <1>0
<1>2. OutsideIsUnknown'
  BY <1>0, <1>1, NoneAssumption DEF RoomInv, OutsideIsUnknown, Outside
<1>3. InsideHasJoined'
  BY <1>0, <1>1 DEF RoomInv, InsideHasJoined, Inside, Connected, Leaving
<1>4. MembersWillLeave'
  BY <1>0, <1>1 DEF RoomInv, MembersWillLeave, WillLeave, Connected
<1>5. OneLiveRoom'
  BY <1>0 DEF RoomInv, OneLiveRoom, Live
<1>6. RoomHasHandler'
  <2>1. CASE room = None \/ target[c] # room \/ pc'[c] = "emptied"
    BY <1>0, <1>1, <2>1 DEF RoomInv, RoomHasHandler, Inside, Connected, Leaving
  <2>2. CASE room # None /\ target[c] = room /\ members[room] # Nobody
    <3>1. members[room] \in [Role -> Conn \union {None}]
      BY <1>0, <2>2
    <3>2. PICK k \in Role : members[room][k] # None
      BY <2>2, <3>1 DEF Nobody
    <3>3. PICK d \in Conn : WillLeave(d, room)
      BY <2>2, <3>1, <3>2 DEF RoomInv, MembersWillLeave
    <3>4. d # c
      BY <1>0, <3>3 DEF WillLeave, Connected
    <3>5. QED
      BY <1>0, <1>1, <3>3, <3>4 DEF WillLeave, RoomHasHandler, Leaving
  <2>3. QED
    BY <1>0, <2>1, <2>2
<1>7. QED
  BY <1>2, <1>3, <1>4, <1>5, <1>6 DEF RoomInv

LEMMA RoomClosed ==
  ASSUME TypeOK, RoomInv, NEW c \in Conn, CloseRoom(c)
  PROVE  RoomInv'
<1>0. /\ UNCHANGED <<members, sub, joined, role>> /\ pc[c] = "emptied"
      /\ room' = None /\ cancelled' = cancelled \union ({room} \ {None})
      /\ pc' = [pc EXCEPT ![c] = "gone"] /\ target' = [target EXCEPT ![c] = None]
      /\ target \in [Conn -> Conn \union {None}]
      /\ pc \in [Conn -> {"new", "accepted", "joining", "gone"} \union Connected \union Leaving]
      /\ room \in Conn \union {None}
  BY DEF CloseRoom, Ends, Goto, TypeOK, feed
<1>1. \A d \in Conn : /\ d # c => pc'[d] = pc[d] /\ target'[d] = target[d]
                      /\ pc'[c] = "gone" /\ target'[c] = None
  BY <1>0
<1>2. OutsideIsUnknown'
  BY <1>0, <1>1, NoneAssumption DEF RoomInv, OutsideIsUnknown, Outside
<1>3. InsideHasJoined'
  BY <1>0, <1>1 DEF RoomInv, InsideHasJoined, Inside, Connected, Leaving
<1>4. MembersWillLeave' /\ RoomHasHandler'
  BY <1>0 DEF MembersWillLeave, RoomHasHandler
<1>5. OneLiveRoom'
  BY <1>0, NoneAssumption DEF RoomInv, OneLiveRoom, Live
<1>6. QED
  BY <1>2, <1>3, <1>4, <1>5 DEF RoomInv

\* A broadcast only takes members away.
LEMMA RoomBroadcast ==
  ASSUME TypeOK, RoomInv, NEW r \in Conn, broadcast(r)
  PROVE  RoomInv'
<1>0. /\ UNCHANGED <<room, cancelled, sub, pc, joined, target, role>> /\ sub[r] # "none"
      /\ members \in [Conn -> [Role -> Conn \union {None}]]
      /\ room \in Conn \union {None}
  BY DEF broadcast, Received, TypeOK
<1>1. PICK F \in SUBSET Failing(r) :
        members' = [members EXCEPT ![r] = [k \in Role |-> IF k \in F THEN None ELSE members[r][k]]]
  BY DEF broadcast
<1>2. /\ \A d \in Conn : d # r => members'[d] = members[d]
      /\ \A d \in Conn, k \in Role : members'[d][k] \in {members[d][k], None}
  BY <1>0, <1>1
<1>3. OutsideIsUnknown'
  BY <1>0, <1>2 DEF RoomInv, OutsideIsUnknown
<1>4. MembersWillLeave'
  BY <1>0, <1>2, NoneAssumption DEF RoomInv, MembersWillLeave, WillLeave
<1>5. QED
  BY <1>0, <1>3, <1>4
  DEF RoomInv, InsideHasJoined, OneLiveRoom, Live, RoomHasHandler

\* Making or ending a subscription of another room changes nothing.
LEMMA RoomSubscription ==
  ASSUME TypeOK, RoomInv, NEW r \in Conn, Subscribe(r) \/ Unsubscribe(r)
  PROVE  RoomInv'
<1>0. /\ UNCHANGED <<room, cancelled, members, pc, joined, target, role>>
      /\ sub[r] # "none"
      /\ \A d \in Conn : d # r => sub'[d] = sub[d]
      /\ sub'[r] \in {"starting", "listening"} => sub[r] \in {"starting", "listening"}
  BY DEF Subscribe, Unsubscribe, TypeOK, manager
<1>1. OutsideIsUnknown'
  BY <1>0 DEF RoomInv, OutsideIsUnknown
<1>2. OneLiveRoom'
  BY <1>0 DEF RoomInv, OneLiveRoom, Live
<1>3. QED
  BY <1>0, <1>1, <1>2 DEF RoomInv, InsideHasJoined, MembersWillLeave, WillLeave, RoomHasHandler

LEMMA RoomRestart ==
  ASSUME TypeOK, RoomInv, Restart
  PROVE  RoomInv'
<1>1. /\ room' = None /\ \A c \in Conn : /\ sub'[c] = "none" /\ members'[c] = Nobody
                                        /\ joined'[c] = None /\ target'[c] = None
                                        /\ pc'[c] \in {"new", "gone"}
  BY DEF Restart
<1>2. QED
  BY <1>1, NoneAssumption
  DEF RoomInv, OutsideIsUnknown, InsideHasJoined, MembersWillLeave, OneLiveRoom, Live,
      RoomHasHandler, Inside, Connected, Leaving

LEMMA RoomStep ==
  ASSUME TypeOK, RoomInv, [Next]_vars
  PROVE  RoomInv'
<1>1. ASSUME NEW c \in Conn, Open(c)
      PROVE  RoomInv'
  BY <1>1, RoomKept DEF Open, manager, feed
<1>2. ASSUME NEW c \in Conn, GetMessages(c) \/ WritesCollide(c)
      PROVE  RoomInv'
  <2>1. /\ UNCHANGED <<room, cancelled, members, sub, joined, target, role>>
        /\ pc[c] \in Connected /\ Goto(c, "open")
    BY <1>2 DEF GetMessages, WritesCollide, manager, feed, Connected
  <2>2. QED
    BY <2>1, RoomKept DEF Connected
<1>3. QED
  BY <1>1, <1>2, RoomJoin, RoomMember, RoomLeave, RoomRemoved, RoomFound, RoomClosed,
     RoomBroadcast, RoomSubscription, RoomRestart, RoomUnchanged
  DEF Next, Rooms, vars, handleNotification, Send, MarkAllRead, SoftDelete, Publish, Lose,
      manager, feed

LEMMA RoomsCorrect == Spec => []RoomInv
<1>1. Init => RoomInv
  <2> SUFFICES ASSUME Init
               PROVE  RoomInv
    OBVIOUS
  <2>1. /\ room = None /\ \A c \in Conn : /\ sub[c] = "none" /\ members[c] = Nobody /\ pc[c] = "new"
                                         /\ joined[c] = None /\ target[c] = None
    BY DEF Init
  <2>2. QED
    BY <2>1, NoneAssumption
    DEF RoomInv, OutsideIsUnknown, InsideHasJoined, MembersWillLeave, OneLiveRoom, Live,
        RoomHasHandler, Inside, Connected, Leaving
<1>2. TypeOK /\ RoomInv /\ [Next]_vars => RoomInv'
  BY RoomStep
<1>3. QED
  BY <1>1, <1>2, TypeCorrect, PTL DEF Spec

\* Of a trip's subscriptions all but that of the room in the map are cancelled,
\* however handlers join and leave.
THEOREM NeverTwoRooms == Spec => []OneLiveRoom
<1>1. RoomInv => OneLiveRoom
  BY DEF RoomInv
<1>2. QED
  BY <1>1, RoomsCorrect, PTL

\* A room in the map has a handler that will still leave it: none is left
\* behind by a reconnect that replaces a member.
THEOREM EveryRoomIsLeft == Spec => []RoomHasHandler
<1>1. RoomInv => RoomHasHandler
  BY DEF RoomInv
<1>2. QED
  BY <1>1, RoomsCorrect, PTL

-----------------------------------------------------------------------------
(* Receipts *)

LEMMA ReceiptStep ==
  ASSUME TypeOK, ReceiptInv, [Next]_vars
  PROVE  ReceiptInv'
<1> DEFINE Then(messages) == \A i \in messages : store'[i].is \in {"read", "deleted"}
           Owed == \A c \in Conn : job'[c] # None /\ job'[c].kind = "receipt" => Then(job'[c].covers)
           Given == \A k \in 1 .. Len(published') :
                      published'[k].kind = "receipt" => Then(published'[k].covers)
<1>0. /\ job \in [Conn -> Event \union {None}]
      /\ published \in Seq(Event) /\ Len(published) \in Nat
      /\ store \in Seq(Message) /\ Len(store) \in Nat
  BY DEF TypeOK
<1>1. ASSUME NEW e \in Event, Settled(e.covers)
      PROVE  Then(e.covers)
  <2>1. e.covers \subseteq 1 .. Len(store)
    BY <1>1 DEF Event
  <2>2. QED
    BY <1>1, <2>1, StoreStep DEF Settled, StoreGrows
<1>2. \A c \in Conn : job[c] # None /\ job[c].kind = "receipt" => Then(job[c].covers)
  BY <1>0, <1>1 DEF ReceiptInv
<1>3. \A k \in 1 .. Len(published) : published[k].kind = "receipt" => Then(published[k].covers)
  <2>1. ASSUME NEW k \in 1 .. Len(published), published[k].kind = "receipt"
        PROVE  Then(published[k].covers)
    <3>1. published[k] \in Event /\ Settled(published[k].covers)
      BY <1>0, <2>1 DEF ReceiptInv, ReceiptCoversShown, Settled
    <3>2. QED
      BY <1>1, <3>1
  <2>2. QED
    BY <2>1
<1>4. Owed
  <2>1. ASSUME NEW c \in Conn, NEW kind \in {"message", "deleted"}, NEW messages,
               Does(c, kind, messages)
        PROVE  Owed
    BY <1>0, <1>2, <2>1 DEF Does
  <2>2. ASSUME NEW c \in Conn, MarkAllRead(c)
        PROVE  Owed
    <3>1. /\ store' = Marked(store, Role \ {role[c]})
          /\ job' = [job EXCEPT ![c] = [kind |-> "receipt", covers |-> Others(c)]]
      BY <2>2 DEF MarkAllRead, Does
    <3>2. ASSUME NEW i \in Others(c)
          PROVE  i \in 1 .. Len(store) /\ store[i].from \in Role \ {role[c]}
      <4>1. i \in 1 .. Len(store) /\ store[i].from # role[c]
        BY <3>2, KnownType DEF Others
      <4>2. store[i] \in Message
        BY <1>0, <4>1
      <4>3. QED
        BY <4>1, <4>2 DEF Message
    <3>3. Then(Others(c))
      BY <1>0, <3>1, <3>2, MarkedType
    <3>4. QED
      BY <1>0, <1>2, <3>1, <3>3
  <2>3. ASSUME NEW c \in Conn, Send(c) \/ SoftDelete(c)
        PROVE  Owed
    BY <2>1, <2>3 DEF Send, SoftDelete
  <2>4. ASSUME NEW c \in Conn, Publish(c)
        PROVE  Owed
    BY <1>0, <1>2, <2>4 DEF Publish
  <2>5. CASE Restart
    BY <2>5 DEF Restart
  <2>6. QED
    BY <1>2, <2>2, <2>3, <2>4, <2>5
    DEF Next, vars, handleNotification, Open, Join, join, Leave, leave, isEmpty, CloseRoom,
        GetMessages, WritesCollide, Lose, Subscribe, Unsubscribe, broadcast
<1>5. Given
  <2>1. ASSUME NEW c \in Conn, Publish(c)
        PROVE  Given
    <3>1. job[c] \in Event /\ published' = Append(published, job[c])
      BY <1>0, <2>1 DEF Publish
    <3>2. job[c].kind = "receipt" => Then(job[c].covers)
      BY <1>2, <2>1 DEF Publish
    <3>3. /\ Len(published') = Len(published) + 1 /\ published'[Len(published) + 1] = job[c]
          /\ \A k \in 1 .. Len(published) : published'[k] = published[k]
      BY <1>0, <3>1, AppendProperties
    <3>4. QED
      BY <1>0, <1>3, <3>2, <3>3
  <2>2. QED
    BY <1>3, <2>1
    DEF Next, vars, handleNotification, Restart, Open, Join, join, Leave, leave, isEmpty,
        CloseRoom, GetMessages, WritesCollide, Send, MarkAllRead, SoftDelete, Lose,
        Subscribe, Unsubscribe, broadcast
<1>6. QED
  BY <1>4, <1>5 DEF ReceiptInv, ReceiptCoversShown, Settled

\* A receipt is true of all the reader had been shown when the messages were
\* marked, and stays true: marks are made before the event, and never undone.
THEOREM ReceiptsAreTrue == Spec => []ReceiptCoversShown
<1>1. Init => ReceiptInv
  BY DEF Init, ReceiptInv, ReceiptCoversShown
<1>2. TypeOK /\ ReceiptInv /\ [Next]_vars => ReceiptInv'
  BY ReceiptStep
<1>3. ReceiptInv => ReceiptCoversShown
  BY DEF ReceiptInv
<1>4. QED
  BY <1>1, <1>2, <1>3, TypeCorrect, PTL DEF Spec

-----------------------------------------------------------------------------
(* Members *)

LEMMA MemberStep ==
  ASSUME TypeOK, RoomInv, MemberUnlessReplaced, [Next]_vars
  PROVE  MemberUnlessReplaced'
<1> DEFINE Second(c) == \E d \in Conn \ {c} : role[d] = role[c] /\ joined[d] # None
           Then(c) == \/ members'[joined'[c]][role'[c]] = c
                       \/ \E d \in Conn \ {c} : role'[d] = role'[c] /\ joined'[d] # None
<1>0. /\ members \in [Conn -> [Role -> Conn \union {None}]]
      /\ role \in [Conn -> Role] /\ joined \in [Conn -> Conn \union {None}]
      /\ room \in Conn \union {None}
      /\ pc \in [Conn -> {"new", "accepted", "joining", "gone"} \union Connected \union Leaving]
  BY DEF TypeOK
<1> SUFFICES ASSUME NEW c \in Conn, pc'[c] \in Connected, c \notin lost'
             PROVE  Then(c)
  BY DEF MemberUnlessReplaced
<1>1. ASSUME pc[c] \in Connected, c \notin lost
      PROVE  joined[c] \in Conn /\ (members[joined[c]][role[c]] = c \/ Second(c))
  BY <1>0, <1>1 DEF MemberUnlessReplaced, RoomInv, InsideHasJoined, Inside
<1>2. CASE UNCHANGED <<members, role, joined, pc, lost>>
  BY <1>1, <1>2
<1>3. ASSUME NEW d \in Conn, Open(d)
      PROVE  Then(c)
  <2>1. UNCHANGED <<members, role, joined, lost>> /\ pc[c] = pc'[c]
    BY <1>0, <1>3 DEF Open, Goto, Connected, manager, client
  <2>2. QED
    BY <1>1, <2>1
<1>4. ASSUME NEW d \in Conn, Join(d)
      PROVE  Then(c)
  <2>1. /\ UNCHANGED <<members, role, lost>> /\ c # d /\ pc[c] = pc'[c]
        /\ joined' = [joined EXCEPT ![d] = joined'[d]] /\ joined'[d] # None
    BY <1>0, <1>4, NoneAssumption DEF Join, Make, Goto, Connected, client
  <2>2. QED
    BY <1>0, <1>1, <2>1
<1>5. ASSUME NEW d \in Conn, join(d)
      PROVE  Then(c)
  <2>1. /\ UNCHANGED <<role, joined, lost>> /\ pc[d] = "joining"
        /\ pc' = [pc EXCEPT ![d] = "greeting"]
        /\ members' = [members EXCEPT ![joined[d]][role[d]] = d]
    BY <1>5 DEF join, Goto, client
  <2>2. joined[d] \in Conn
    BY <1>0, <2>1 DEF RoomInv, InsideHasJoined, Inside
  <2>3. CASE d = c
    BY <1>0, <2>1, <2>2, <2>3
  <2>4. CASE d # c /\ role[d] = role[c]
    BY <1>0, <2>1, <2>2, <2>4, NoneAssumption
  <2>5. CASE d # c /\ role[d] # role[c]
    <3>1. pc[c] = pc'[c] /\ members'[joined[c]][role[c]] = members[joined[c]][role[c]]
      BY <1>0, <1>1, <2>1, <2>2, <2>5
    <3>2. QED
      BY <1>1, <2>1, <3>1
  <2>6. QED
    BY <2>3, <2>4, <2>5
<1>6. ASSUME NEW d \in Conn, Leave(d) \/ isEmpty(d) \/ CloseRoom(d)
      PROVE  Then(c)
  <2>1. UNCHANGED <<members, role, joined, lost>> /\ pc[c] = pc'[c]
    BY <1>0, <1>6 DEF Leave, isEmpty, CloseRoom, Ends, Goto, Connected, manager, client
  <2>2. QED
    BY <1>1, <2>1
<1>7. ASSUME NEW d \in Conn, leave(d)
      PROVE  Then(c)
  <2>1. /\ UNCHANGED <<role, joined, lost>> /\ pc[d] = "leaving" /\ c # d /\ pc[c] = pc'[c]
        /\ members' = [members EXCEPT ![target[d]][role[d]] = None]
    BY <1>0, <1>7 DEF leave, Goto, Connected, client
  <2>2. joined[d] # None
    BY <2>1 DEF RoomInv, InsideHasJoined, Leaving
  <2>3. CASE role[d] = role[c]
    BY <2>1, <2>2, <2>3
  <2>4. CASE role[d] # role[c]
    <3>1. members'[joined[c]][role[c]] = members[joined[c]][role[c]]
      BY <1>0, <1>1, <2>1, <2>4
    <3>2. QED
      BY <1>1, <2>1, <3>1
  <2>5. QED
    BY <2>3, <2>4
<1>8. ASSUME NEW d \in Conn, GetMessages(d) \/ WritesCollide(d) \/ Lose(d)
      PROVE  Then(c)
  <2>1. UNCHANGED <<members, role, joined>> /\ c \notin lost /\ pc[c] \in Connected
    BY <1>0, <1>8 DEF GetMessages, WritesCollide, Lose, Forget, Goto, Connected, manager
  <2>2. QED
    BY <1>1, <2>1
<1>9. ASSUME NEW r \in Conn, broadcast(r)
      PROVE  Then(c)
  <2>1. UNCHANGED <<role, joined, pc, lost>>
    BY <1>9 DEF broadcast
  <2>2. PICK F \in SUBSET Failing(r) :
          members' = [members EXCEPT ![r] = [k \in Role |-> IF k \in F THEN None ELSE members[r][k]]]
    BY <1>9 DEF broadcast
  <2>3. ASSUME members[joined[c]][role[c]] = c
        PROVE  members'[joined[c]][role[c]] = c
    <3>1. joined[c] = r => role[c] \notin F
      BY <2>1, <2>3 DEF Failing
    <3>2. QED
      BY <1>0, <1>1, <2>1, <2>2, <2>3, <3>1
  <2>4. QED
    BY <1>1, <2>1, <2>3
<1>10. CASE Restart
  BY <1>10 DEF Restart, Connected
<1>11. QED
  BY <1>2, <1>3, <1>4, <1>5, <1>6, <1>7, <1>8, <1>9, <1>10
  DEF Next, vars, handleNotification, Send, MarkAllRead, SoftDelete, Publish, Subscribe,
      Unsubscribe, manager, client

\* A participant stays a member of the room joined until a second connection
\* of the same role has joined.
THEOREM MembersStay == Spec => []MemberUnlessReplaced
<1>1. Init => MemberUnlessReplaced
  BY DEF Init, MemberUnlessReplaced, Connected
<1>2. TypeOK /\ RoomInv /\ MemberUnlessReplaced /\ [Next]_vars => MemberUnlessReplaced'
  BY MemberStep
<1>3. QED
  BY <1>1, <1>2, TypeCorrect, RoomsCorrect, PTL DEF Spec

-----------------------------------------------------------------------------
(* What a client is sent *)

Early == {"new", "accepted", "joining"}

\* A member has joined the room it is a member of; nothing is sent before.
MembersHaveJoined ==
  \A r \in Conn, k \in Role, c \in Conn :
    members[r][k] = c => k = role[c] /\ joined[c] = r /\ pc[c] \notin Early

EarlyIsUnsent == \A c \in Conn : pc[c] \in Early \/ c \in lost => seen[c] = << >>

Waits(e, r) == (\E k \in 1 .. Len(inbox[r]) : inbox[r][k] = e) \/ e \in missed[r]

\* A subscription receives in order, and what it does not receive is noted.
InboxInOrder ==
  \A r \in Conn :
    /\ sub[r] # "listening" => inbox[r] = << >>
    /\ \A j, k \in 1 .. Len(inbox[r]) : j < k => inbox[r][j] < inbox[r][k]
    /\ \A k \in 1 .. Len(inbox[r]) : \A e \in inbox[r][k] .. Len(published) : Waits(e, r)

\* What a client has been sent came before what waits for its room.
SentBefore ==
  \A c \in Conn : \A i \in 1 .. Len(seen[c]) :
    /\ joined[c] # None /\ sub[joined[c]] \in {"listening", "ended"}
    /\ \A k \in 1 .. Len(inbox[joined[c]]) : seen[c][i] < inbox[joined[c]][k]

FeedInv == MembersHaveJoined /\ EarlyIsUnsent /\ InboxInOrder /\ SentBefore /\ LiveInOrder

\* Members may leave, clients be forgotten, and handlers go on.
LEMMA FeedKept ==
  ASSUME TypeOK, FeedInv, UNCHANGED <<role, joined, published, feed>>,
         \A r \in Conn, k \in Role : members'[r][k] \in {members[r][k], None},
         \A c \in Conn : pc'[c] \in Early <=> pc[c] \in Early,
         \A c \in Conn : seen'[c] \in {seen[c], << >>} /\ (c \in lost' => seen'[c] = << >>)
  PROVE  FeedInv'
<1>1. /\ UNCHANGED <<role, joined, published, sub, inbox, missed>>
      /\ role \in [Conn -> Role] /\ joined \in [Conn -> Conn \union {None}]
  BY DEF feed, TypeOK
<1>2. MembersHaveJoined'
  BY <1>1, NoneAssumption DEF FeedInv, MembersHaveJoined
<1>3. EarlyIsUnsent'
  BY DEF FeedInv, EarlyIsUnsent
<1>4. InboxInOrder'
  BY <1>1 DEF FeedInv, InboxInOrder, Waits
<1>5. SentBefore'
  <2> SUFFICES ASSUME NEW c \in Conn, NEW i \in 1 .. Len(seen'[c])
               PROVE  /\ joined[c] # None /\ sub[joined[c]] \in {"listening", "ended"}
                      /\ \A k \in 1 .. Len(inbox[joined[c]]) : seen'[c][i] < inbox[joined[c]][k]
    BY <1>1 DEF SentBefore
  <2>1. seen'[c] = seen[c]
    OBVIOUS
  <2> QED
    BY <2>1 DEF FeedInv, SentBefore
<1>6. LiveInOrder'
  <2> SUFFICES ASSUME NEW c \in Conn, NEW i \in 1 .. Len(seen'[c])
               PROVE  /\ \A k \in 1 .. i - 1 : seen'[c][k] < seen'[c][i]
                      /\ members'[joined[c]][role[c]] = c /\ sub[joined[c]] = "listening" =>
                           \A e \in seen'[c][i] .. Len(published) :
                             \/ \E k \in 1 .. Len(seen'[c]) : seen'[c][k] = e
                             \/ Waits(e, joined[c])
    BY <1>1 DEF LiveInOrder, Waits
  <2>1. seen'[c] = seen[c]
    OBVIOUS
  <2>2. joined[c] \in Conn
    BY <1>1, <2>1 DEF FeedInv, SentBefore
  <2>3. members'[joined[c]][role[c]] = c => members[joined[c]][role[c]] = c
    BY <1>1, <2>2, NoneAssumption
  <2> QED
    BY <2>1, <2>3 DEF FeedInv, LiveInOrder, Waits
<1> QED
  BY <1>2, <1>3, <1>4, <1>5, <1>6 DEF FeedInv

LEMMA FeedJoin ==
  ASSUME TypeOK, RoomInv, FeedInv, NEW c \in Conn, Join(c)
  PROVE  FeedInv'
<1>0. /\ UNCHANGED <<members, inbox, missed, role, lost, seen, published>>
      /\ pc[c] = "accepted" /\ pc' = [pc EXCEPT ![c] = "joining"]
      /\ joined' = [joined EXCEPT ![c] = joined'[c]]
      /\ pc \in [Conn -> {"new", "accepted", "joining", "gone"} \union Connected \union Leaving]
      /\ joined \in [Conn -> Conn \union {None}] /\ joined' \in [Conn -> Conn \union {None}]
      /\ sub \in [Conn -> {"none", "starting", "listening", "ended"}]
      /\ room \in Conn \union {None}
      /\ seen[c] = << >>
  <2>1. /\ pc \in [Conn -> {"new", "accepted", "joining", "gone"} \union Connected \union Leaving]
        /\ joined \in [Conn -> Conn \union {None}] /\ room \in Conn \union {None}
        /\ sub \in [Conn -> {"none", "starting", "listening", "ended"}]
    BY DEF TypeOK
  <2>2. /\ UNCHANGED <<members, inbox, missed, role, lost, seen, published>>
        /\ pc[c] = "accepted" /\ pc' = [pc EXCEPT ![c] = "joining"]
    BY DEF Join, Goto, client
  <2>3. \E r \in Conn : joined' = [joined EXCEPT ![c] = r]
    BY <2>1 DEF Join, Make
  <2>4. seen[c] = << >>
    BY <2>2 DEF FeedInv, EarlyIsUnsent, Early
  <2> QED
    BY <2>1, <2>2, <2>3, <2>4
<1>1. /\ \A r \in Conn : r # c => sub'[r] = sub[r]
      /\ sub'[c] = sub[c] \/ (sub[c] = "none" /\ sub'[c] = "starting")
  BY <1>0 DEF Join, Make, RoomInv, OutsideIsUnknown, Outside
<1>2. \A d \in Conn : seen[d] # << >> => d # c /\ joined'[d] = joined[d]
  BY <1>0
<1>3. MembersHaveJoined'
  <2>1. \A r \in Conn, k \in Role : members[r][k] # c
    BY <1>0 DEF FeedInv, MembersHaveJoined, Early
  <2> QED
    BY <1>0, <2>1 DEF FeedInv, MembersHaveJoined, Early
<1>4. EarlyIsUnsent'
  BY <1>0 DEF FeedInv, EarlyIsUnsent, Early
<1>5. InboxInOrder'
  BY <1>0, <1>1 DEF FeedInv, InboxInOrder, Waits
<1>6. SentBefore'
  <2> SUFFICES ASSUME NEW d \in Conn, NEW i \in 1 .. Len(seen[d])
               PROVE  /\ joined'[d] # None /\ sub'[joined'[d]] \in {"listening", "ended"}
                      /\ \A k \in 1 .. Len(inbox[joined'[d]]) : seen[d][i] < inbox[joined'[d]][k]
    BY <1>0 DEF SentBefore
  <2>1. d # c /\ joined'[d] = joined[d]
    BY <1>0
  <2>2. /\ joined[d] \in Conn /\ sub[joined[d]] \in {"listening", "ended"}
        /\ \A k \in 1 .. Len(inbox[joined[d]]) : seen[d][i] < inbox[joined[d]][k]
    BY <1>0 DEF FeedInv, SentBefore
  <2>3. sub'[joined[d]] = sub[joined[d]]
    BY <1>1, <2>2
  <2> QED
    BY <2>1, <2>2, <2>3, NoneAssumption
<1>7. LiveInOrder'
  <2> SUFFICES ASSUME NEW d \in Conn, NEW i \in 1 .. Len(seen[d])
               PROVE  /\ \A k \in 1 .. i - 1 : seen[d][k] < seen[d][i]
                      /\ members[joined'[d]][role[d]] = d /\ sub'[joined'[d]] = "listening" =>
                           \A e \in seen[d][i] .. Len(published) :
                             \/ \E k \in 1 .. Len(seen[d]) : seen[d][k] = e
                             \/ Waits(e, joined'[d])
    BY <1>0 DEF LiveInOrder, Waits
  <2>1. d # c /\ joined'[d] = joined[d]
    BY <1>0
  <2>2. joined[d] \in Conn /\ sub[joined[d]] \in {"listening", "ended"}
    BY <1>0 DEF FeedInv, SentBefore
  <2>3. sub'[joined[d]] = sub[joined[d]]
    BY <1>1, <2>2
  <2> QED
    BY <2>1, <2>3 DEF FeedInv, LiveInOrder, Waits
<1> QED
  BY <1>3, <1>4, <1>5, <1>6, <1>7 DEF FeedInv

LEMMA FeedMember ==
  ASSUME TypeOK, RoomInv, FeedInv, NEW c \in Conn, join(c)
  PROVE  FeedInv'
<1>0. /\ UNCHANGED <<role, joined, published, sub, inbox, missed, lost, seen>>
      /\ pc[c] = "joining" /\ pc' = [pc EXCEPT ![c] = "greeting"]
      /\ members' = [members EXCEPT ![joined[c]][role[c]] = c]
      /\ joined[c] \in Conn /\ role[c] \in Role
      /\ members \in [Conn -> [Role -> Conn \union {None}]]
      /\ pc \in [Conn -> {"new", "accepted", "joining", "gone"} \union Connected \union Leaving]
      /\ seen[c] = << >>
  BY DEF join, Goto, feed, client, TypeOK, RoomInv, InsideHasJoined, Inside, FeedInv,
         EarlyIsUnsent, Early
<1>1. \A r \in Conn, k \in Role :
        /\ r = joined[c] /\ k = role[c] => members'[r][k] = c
        /\ r # joined[c] \/ k # role[c] => members'[r][k] = members[r][k]
  BY <1>0
<1>2. MembersHaveJoined'
  BY <1>0, <1>1 DEF FeedInv, MembersHaveJoined, Early
<1>3. EarlyIsUnsent'
  BY <1>0 DEF FeedInv, EarlyIsUnsent, Early
<1>4. InboxInOrder' /\ SentBefore'
  BY <1>0 DEF FeedInv, InboxInOrder, Waits, SentBefore
<1>5. LiveInOrder'
  <2> SUFFICES ASSUME NEW d \in Conn, NEW i \in 1 .. Len(seen[d])
               PROVE  /\ \A k \in 1 .. i - 1 : seen[d][k] < seen[d][i]
                      /\ members'[joined[d]][role[d]] = d /\ sub[joined[d]] = "listening" =>
                           \A e \in seen[d][i] .. Len(published) :
                             \/ \E k \in 1 .. Len(seen[d]) : seen[d][k] = e
                             \/ Waits(e, joined[d])
    BY <1>0 DEF LiveInOrder, Waits
  <2>1. d # c
    BY <1>0
  <2>2. joined[d] \in Conn /\ role[d] \in Role
    BY DEF FeedInv, SentBefore, TypeOK
  <2>3. members'[joined[d]][role[d]] = d => members[joined[d]][role[d]] = d
    BY <1>1, <2>1, <2>2
  <2> QED
    BY <2>3 DEF FeedInv, LiveInOrder, Waits
<1> QED
  BY <1>2, <1>3, <1>4, <1>5 DEF FeedInv

\* A subscription that begins has sent nothing; one that ends owes nothing.
LEMMA FeedSubscription ==
  ASSUME TypeOK, FeedInv, NEW r \in Conn, Subscribe(r) \/ Unsubscribe(r)
  PROVE  FeedInv'
<1>0. /\ UNCHANGED <<members, missed, role, pc, joined, lost, seen, published>>
      /\ joined \in [Conn -> Conn \union {None}]
      /\ inbox \in [Conn -> Seq(1 .. Len(published))]
      /\ \A d \in Conn : d # r => sub'[d] = sub[d] /\ inbox'[d] = inbox[d]
      /\ \/ sub[r] = "starting" /\ sub'[r] = "listening" /\ inbox'[r] = inbox[r]
         \/ sub'[r] = "ended" /\ inbox'[r] = << >>
  BY DEF Subscribe, Unsubscribe, manager, client, TypeOK
<1>1. MembersHaveJoined' /\ EarlyIsUnsent'
  BY <1>0 DEF FeedInv, MembersHaveJoined, EarlyIsUnsent
<1>2. InboxInOrder'
  <2> SUFFICES ASSUME NEW d \in Conn
               PROVE  /\ sub'[d] # "listening" => inbox'[d] = << >>
                      /\ \A j, k \in 1 .. Len(inbox'[d]) : j < k => inbox'[d][j] < inbox'[d][k]
                      /\ \A k \in 1 .. Len(inbox'[d]) :
                           \A e \in inbox'[d][k] .. Len(published) : Waits(e, d)'
    BY <1>0 DEF InboxInOrder
  <2>1. CASE inbox'[d] = << >>
    BY <2>1
  <2>2. CASE d # r
    <3>1. UNCHANGED <<missed, published>> /\ sub'[d] = sub[d] /\ inbox'[d] = inbox[d]
      BY <1>0, <2>2
    <3>2. \A e : Waits(e, d) => Waits(e, d)'
      BY <3>1 DEF Waits
    <3> QED
      BY <3>1, <3>2 DEF FeedInv, InboxInOrder
  <2>3. CASE d = r /\ sub[r] = "starting" /\ inbox'[r] = inbox[r]
    BY <2>1, <2>3 DEF FeedInv, InboxInOrder
  <2> QED
    BY <1>0, <2>1, <2>2, <2>3
<1>3. SentBefore' /\ LiveInOrder'
  <2> SUFFICES ASSUME NEW d \in Conn, NEW i \in 1 .. Len(seen[d])
               PROVE  /\ joined[d] # None /\ sub'[joined[d]] \in {"listening", "ended"}
                      /\ \A k \in 1 .. Len(inbox'[joined[d]]) : seen[d][i] < inbox'[joined[d]][k]
                      /\ \A k \in 1 .. i - 1 : seen[d][k] < seen[d][i]
                      /\ members[joined[d]][role[d]] = d /\ sub'[joined[d]] = "listening" =>
                           \A e \in seen[d][i] .. Len(published) :
                             \/ \E k \in 1 .. Len(seen[d]) : seen[d][k] = e
                             \/ Waits(e, joined[d])'
    <3>1. UNCHANGED <<members, role, joined, seen, published>>
      BY <1>0
    <3> QED
      BY <3>1 DEF SentBefore, LiveInOrder, Waits
  <2>1. /\ joined[d] \in Conn /\ sub[joined[d]] \in {"listening", "ended"}
        /\ \A k \in 1 .. Len(inbox[joined[d]]) : seen[d][i] < inbox[joined[d]][k]
    BY <1>0 DEF FeedInv, SentBefore
  <2>2. \A k \in 1 .. i - 1 : seen[d][k] < seen[d][i]
    BY DEF FeedInv, LiveInOrder
  <2>3. CASE joined[d] # r \/ sub'[r] # "ended"
    <3>1. inbox'[joined[d]] = inbox[joined[d]] /\ sub'[joined[d]] = sub[joined[d]]
      BY <1>0, <2>1, <2>3
    <3>2. members[joined[d]][role[d]] = d /\ sub[joined[d]] = "listening" =>
            \A e \in seen[d][i] .. Len(published) :
              (\E k \in 1 .. Len(seen[d]) : seen[d][k] = e) \/ Waits(e, joined[d])
      BY DEF FeedInv, LiveInOrder, Waits
    <3> QED
      BY <1>0, <2>1, <2>2, <3>1, <3>2, NoneAssumption DEF Waits
  <2>4. CASE joined[d] = r /\ sub'[r] = "ended"
    <3>1. inbox'[joined[d]] = << >>
      BY <1>0, <2>1, <2>4
    <3> QED
      BY <2>1, <2>2, <2>4, <3>1, NoneAssumption
  <2> QED
    BY <2>3, <2>4
<1> QED
  BY <1>1, <1>2, <1>3 DEF FeedInv

\* A broadcast hands the first event that waits to the members.
LEMMA FeedBroadcast ==
  ASSUME TypeOK, FeedInv, NEW r \in Conn, broadcast(r)
  PROVE  FeedInv'
<1> DEFINE e0 == Head(inbox[r])
           Sent == Reached(r)
<1>0. /\ UNCHANGED <<sub, missed, role, pc, joined, lost, published>>
      /\ sub[r] = "listening" /\ inbox[r] # << >>
      /\ inbox' = [inbox EXCEPT ![r] = Tail(inbox[r])]
      /\ seen' = [c \in Conn |-> IF c \in Sent THEN Append(seen[c], e0) ELSE seen[c]]
  BY DEF broadcast, Received, Hears
<1>1. /\ inbox \in [Conn -> Seq(1 .. Len(published))] /\ Len(published) \in Nat
      /\ seen \in [Conn -> Seq(1 .. Len(published))]
      /\ members \in [Conn -> [Role -> Conn \union {None}]]
      /\ role \in [Conn -> Role] /\ joined \in [Conn -> Conn \union {None}]
  BY DEF TypeOK
<1>2. /\ inbox[r] \in Seq(1 .. Len(published)) /\ Len(inbox[r]) \in Nat \ {0}
      /\ e0 = inbox[r][1] /\ e0 \in 1 .. Len(published)
      /\ Len(inbox'[r]) = Len(inbox[r]) - 1
      /\ \A k \in 1 .. Len(inbox'[r]) : inbox'[r][k] = inbox[r][k + 1] /\ k + 1 \in 1 .. Len(inbox[r])
      /\ \A k \in 1 .. Len(inbox[r]) : inbox[r][k] \in Nat
      /\ \A d \in Conn : d # r => inbox'[d] = inbox[d]
  BY <1>0, <1>1
<1>3. \A e : (\E k \in 1 .. Len(inbox[r]) : inbox[r][k] = e) =>
             e = e0 \/ \E k \in 1 .. Len(inbox'[r]) : inbox'[r][k] = e
  <2> SUFFICES ASSUME NEW k \in 1 .. Len(inbox[r]), k # 1
               PROVE  \E j \in 1 .. Len(inbox'[r]) : inbox'[r][j] = inbox[r][k]
    BY <1>2
  <2>1. k - 1 \in 1 .. Len(inbox'[r])
    BY <1>2
  <2>2. inbox'[r][k - 1] = inbox[r][(k - 1) + 1] /\ (k - 1) + 1 = k
    BY <1>2, <2>1
  <2> QED
    BY <2>1, <2>2
<1>4. \A c \in Conn, k \in Role : members'[c][k] \in {members[c][k], None}
  <2>1. PICK F \in SUBSET Failing(r) :
          members' = [members EXCEPT ![r] = [k \in Role |-> IF k \in F THEN None ELSE members[r][k]]]
    BY DEF broadcast
  <2> QED
    BY <1>1, <2>1
<1>5. \A c \in Sent : c \in Conn /\ joined[c] = r /\ c \notin lost /\ pc[c] \notin Early
  <2> SUFFICES ASSUME NEW c \in Sent
               PROVE  c \in Conn /\ joined[c] = r /\ c \notin lost /\ pc[c] \notin Early
    OBVIOUS
  <2>1. c \notin lost /\ \E k \in Role : c = members[r][k] /\ c # None
    BY DEF Reached
  <2>2. c \in Conn
    BY <1>1, <2>1
  <2> QED
    BY <2>1, <2>2 DEF FeedInv, MembersHaveJoined
<1>6. \A c \in Conn : c \notin Sent => seen'[c] = seen[c]
  BY <1>0
<1>7. \A c \in Sent : /\ Len(seen'[c]) = Len(seen[c]) + 1 /\ Len(seen[c]) \in Nat
                       /\ seen'[c][Len(seen[c]) + 1] = e0
                       /\ \A i \in 1 .. Len(seen[c]) : seen'[c][i] = seen[c][i]
  BY <1>0, <1>1, <1>2, <1>5
<1>8. MembersHaveJoined'
  BY <1>0, <1>4, NoneAssumption DEF FeedInv, MembersHaveJoined
<1>9. EarlyIsUnsent'
  BY <1>0, <1>5, <1>6 DEF FeedInv, EarlyIsUnsent
<1>10. InboxInOrder'
  <2>1. \A j, k \in 1 .. Len(inbox'[r]) : j < k => inbox'[r][j] < inbox'[r][k]
    <3> SUFFICES ASSUME NEW j \in 1 .. Len(inbox'[r]), NEW k \in 1 .. Len(inbox'[r]), j < k
                 PROVE  inbox[r][j + 1] < inbox[r][k + 1]
      BY <1>2
    <3> QED
      BY <1>2 DEF FeedInv, InboxInOrder
  <2>2. \A k \in 1 .. Len(inbox'[r]) : \A e \in inbox'[r][k] .. Len(published) : Waits(e, r)'
    <3> SUFFICES ASSUME NEW k \in 1 .. Len(inbox'[r]),
                        NEW e \in inbox[r][k + 1] .. Len(published)
                 PROVE  \/ \E j \in 1 .. Len(inbox'[r]) : inbox'[r][j] = e
                        \/ e \in missed[r]
      BY <1>0, <1>2 DEF Waits
    <3>1. Waits(e, r)
      BY <1>2 DEF FeedInv, InboxInOrder
    <3>2. e0 < inbox[r][k + 1]
      BY <1>2 DEF FeedInv, InboxInOrder
    <3>3. e # e0
      BY <1>2, <3>2
    <3> QED
      BY <1>3, <3>1, <3>3 DEF Waits
  <2>3. ASSUME NEW d \in Conn, d # r
        PROVE  /\ sub[d] # "listening" => inbox'[d] = << >>
               /\ \A j, k \in 1 .. Len(inbox'[d]) : j < k => inbox'[d][j] < inbox'[d][k]
               /\ \A k \in 1 .. Len(inbox'[d]) :
                    \A e \in inbox'[d][k] .. Len(published) : Waits(e, d)'
    BY <1>0, <1>2, <2>3 DEF FeedInv, InboxInOrder, Waits
  <2> QED
    BY <1>0, <2>1, <2>2, <2>3 DEF InboxInOrder
<1>11. ASSUME NEW c \in Conn, NEW i \in 1 .. Len(seen[c])
       PROVE  /\ joined[c] \in Conn /\ sub[joined[c]] \in {"listening", "ended"}
              /\ \A k \in 1 .. Len(inbox'[joined[c]]) : seen[c][i] < inbox'[joined[c]][k]
              /\ joined[c] = r => seen[c][i] < e0
  <2>1. /\ joined[c] \in Conn /\ sub[joined[c]] \in {"listening", "ended"}
        /\ \A k \in 1 .. Len(inbox[joined[c]]) : seen[c][i] < inbox[joined[c]][k]
    BY <1>1 DEF FeedInv, SentBefore
  <2>2. ASSUME joined[c] = r
        PROVE  /\ seen[c][i] < e0
               /\ \A k \in 1 .. Len(inbox'[r]) : seen[c][i] < inbox'[r][k]
    <3>1. \A k \in 1 .. Len(inbox[r]) : seen[c][i] < inbox[r][k]
      BY <2>1, <2>2
    <3>2. 1 \in 1 .. Len(inbox[r])
      BY <1>2
    <3> QED
      BY <1>2, <3>1, <3>2
  <2>3. joined[c] # r => inbox'[joined[c]] = inbox[joined[c]]
    BY <1>2, <2>1
  <2> QED
    BY <2>1, <2>2, <2>3
<1>12. SentBefore'
  <2> SUFFICES ASSUME NEW c \in Conn, NEW i \in 1 .. Len(seen'[c])
               PROVE  /\ joined[c] # None /\ sub[joined[c]] \in {"listening", "ended"}
                      /\ \A k \in 1 .. Len(inbox'[joined[c]]) : seen'[c][i] < inbox'[joined[c]][k]
    BY <1>0 DEF SentBefore
  <2>1. CASE i \in 1 .. Len(seen[c]) /\ seen'[c][i] = seen[c][i]
    BY <1>11, <2>1, NoneAssumption
  <2>2. CASE c \in Sent /\ i = Len(seen[c]) + 1
    <3>1. joined[c] = r /\ seen'[c][i] = e0
      BY <1>5, <1>7, <2>2
    <3>2. ASSUME NEW k \in 1 .. Len(inbox'[r])
          PROVE  e0 < inbox'[r][k]
      <4>0. Len(inbox[r]) \in Nat \ {0} /\ k + 1 \in 1 .. Len(inbox[r])
        BY <1>2
      <4>1. k \in Nat \ {0}
        OBVIOUS
      <4>2. inbox[r][1] < inbox[r][k + 1]
        <5>1. 1 \in 1 .. Len(inbox[r]) /\ 1 < k + 1
          BY <4>0, <4>1
        <5> QED
          BY <4>0, <5>1 DEF FeedInv, InboxInOrder
      <4> QED
        BY <1>2, <4>2
    <3> QED
      BY <1>0, <3>1, <3>2, NoneAssumption
  <2> QED
    BY <1>6, <1>7, <2>1, <2>2
<1>13. LiveInOrder'
  <2> DEFINE Told(e, c) == \E k \in 1 .. Len(seen'[c]) : seen'[c][k] = e
             Left(e, d) == \/ \E k \in 1 .. Len(inbox'[d]) : inbox'[d][k] = e
                           \/ e \in missed[d]
  <2> SUFFICES ASSUME NEW c \in Conn, NEW i \in 1 .. Len(seen'[c])
               PROVE  /\ \A k \in 1 .. i - 1 : seen'[c][k] < seen'[c][i]
                      /\ members'[joined[c]][role[c]] = c /\ sub[joined[c]] = "listening" =>
                           \A e \in seen'[c][i] .. Len(published) : Told(e, c) \/ Left(e, joined[c])
    <3>1. UNCHANGED <<sub, missed, role, joined, published>>
      BY <1>0
    <3> QED
      BY <3>1 DEF LiveInOrder
  <2>1. CASE c \notin Sent \/ i \in 1 .. Len(seen[c])
    <3>1. i \in 1 .. Len(seen[c]) /\ seen'[c][i] = seen[c][i]
      BY <1>6, <1>7, <2>1
    <3>2. \A k \in 1 .. i - 1 : seen'[c][k] = seen[c][k]
      BY <1>6, <1>7, <3>1
    <3>3. \A k \in 1 .. i - 1 : seen'[c][k] < seen'[c][i]
      BY <3>1, <3>2 DEF FeedInv, LiveInOrder
    <3>4. ASSUME members'[joined[c]][role[c]] = c, sub[joined[c]] = "listening",
                 NEW e \in seen[c][i] .. Len(published)
          PROVE  Told(e, c) \/ Left(e, joined[c])
      <4>1. joined[c] \in Conn /\ members[joined[c]][role[c]] = c
        BY <1>1, <1>4, <1>11, <3>1, <3>4, NoneAssumption
      <4>2. (\E k \in 1 .. Len(seen[c]) : seen[c][k] = e) \/ Waits(e, joined[c])
        BY <3>1, <3>4, <4>1 DEF FeedInv, LiveInOrder, Waits
      <4>3. CASE \E k \in 1 .. Len(seen[c]) : seen[c][k] = e
        BY <1>6, <1>7, <4>3
      <4>4. CASE Waits(e, joined[c]) /\ joined[c] # r
        BY <1>2, <4>1, <4>4 DEF Waits
      <4>5. CASE Waits(e, r) /\ joined[c] = r
        <5>1. c \notin lost
          <6>1. seen[c] # << >>
            BY <3>1
          <6> QED
            BY <6>1 DEF FeedInv, EarlyIsUnsent
        <5>2. c \in Sent
          BY <1>1, <4>1, <4>5, <5>1, NoneAssumption DEF Reached
        <5>3. Told(e0, c)
          <6>1. Len(seen[c]) + 1 \in 1 .. Len(seen'[c])
            BY <1>7, <5>2
          <6> QED
            BY <1>7, <5>2, <6>1
        <5> QED
          BY <1>3, <4>5, <5>3 DEF Waits
      <4> QED
        BY <4>2, <4>3, <4>4, <4>5
    <3> QED
      BY <3>1, <3>3, <3>4
  <2>2. CASE c \in Sent /\ i = Len(seen[c]) + 1
    <3>1. joined[c] = r /\ seen'[c][i] = e0
      BY <1>5, <1>7, <2>2
    <3>2. \A k \in 1 .. i - 1 : seen'[c][k] < e0
      BY <1>7, <1>11, <2>2, <3>1
    <3>3. ASSUME NEW e \in e0 .. Len(published)
          PROVE  Told(e, c) \/ Left(e, r)
      <4>1. Waits(e, r)
        BY <1>2 DEF FeedInv, InboxInOrder
      <4>2. e = e0 => Told(e, c)
        BY <3>1
      <4> QED
        BY <1>3, <4>1, <4>2 DEF Waits
    <3> QED
      BY <3>1, <3>2, <3>3
  <2> QED
    BY <1>7, <2>1, <2>2
<1> QED
  BY <1>8, <1>9, <1>10, <1>12, <1>13 DEF FeedInv

\* What is published is received, or noted as missed, by whoever listens.
LEMMA FeedPublish ==
  ASSUME TypeOK, FeedInv, NEW c \in Conn, Publish(c)
  PROVE  FeedInv'
<1> DEFINE n == Len(published) + 1
           Then(e, r) == \/ \E k \in 1 .. Len(inbox'[r]) : inbox'[r][k] = e
                         \/ e \in missed'[r]
<1>0. /\ UNCHANGED <<members, sub, role, pc, joined, lost, seen>>
      /\ Len(published) \in Nat /\ Len(published') = n
      /\ inbox \in [Conn -> Seq(1 .. Len(published))]
      /\ joined \in [Conn -> Conn \union {None}]
      /\ seen \in [Conn -> Seq(1 .. Len(published))]
  <2>1. published' = Append(published, job[c]) /\ job[c] \in Event
    BY DEF Publish, TypeOK
  <2>2. published \in Seq(Event)
    BY DEF TypeOK
  <2>3. Len(published) \in Nat /\ Len(published') = n
    BY <2>1, <2>2, AppendProperties
  <2> QED
    BY <2>3 DEF Publish, manager, client, TypeOK
<1>1. PICK S \in SUBSET Listening : Deliver(S)
  BY DEF Publish
<1>2. ASSUME NEW r \in Conn, r \notin S
      PROVE  /\ inbox'[r] = inbox[r] /\ missed[r] \subseteq missed'[r]
             /\ sub[r] = "listening" => n \in missed'[r]
  BY <1>0, <1>1, <1>2 DEF Deliver, Listening
<1>3. ASSUME NEW r \in S
      PROVE  /\ r \in Conn /\ sub[r] = "listening" /\ missed'[r] = missed[r]
             /\ Len(inbox[r]) \in Nat /\ Len(inbox'[r]) = Len(inbox[r]) + 1
             /\ inbox'[r][Len(inbox[r]) + 1] = n
             /\ \A k \in 1 .. Len(inbox[r]) : inbox'[r][k] = inbox[r][k]
  <2>1. r \in Conn /\ sub[r] = "listening"
    BY <1>1 DEF Listening
  <2>2. inbox'[r] = Append(inbox[r], n) /\ missed'[r] = missed[r]
    BY <1>0, <1>1, <2>1 DEF Deliver
  <2>3. inbox[r] \in Seq(1 .. Len(published))
    BY <1>0, <2>1
  <2> QED
    BY <2>1, <2>2, <2>3
<1>4. ASSUME NEW r \in Conn
      PROVE  /\ \A k \in 1 .. Len(inbox[r]) : inbox[r][k] \in 1 .. Len(published)
             /\ \A e : Waits(e, r) => Then(e, r)
             /\ sub[r] = "listening" => Then(n, r)
  <2>0. \A k \in 1 .. Len(inbox[r]) : inbox[r][k] \in 1 .. Len(published)
    BY <1>0
  <2>1. CASE r \in S
    <3>1. 1 .. Len(inbox[r]) \subseteq 1 .. Len(inbox'[r]) /\ Len(inbox[r]) + 1 \in 1 .. Len(inbox'[r])
      BY <1>3, <2>1
    <3> QED
      BY <1>3, <2>0, <2>1, <3>1 DEF Waits
  <2>2. CASE r \notin S
    BY <1>2, <2>0, <2>2 DEF Waits
  <2> QED
    BY <2>1, <2>2
<1>5. MembersHaveJoined' /\ EarlyIsUnsent'
  BY <1>0 DEF FeedInv, MembersHaveJoined, EarlyIsUnsent
<1>6. InboxInOrder'
  <2> SUFFICES ASSUME NEW r \in Conn
               PROVE  /\ sub[r] # "listening" => inbox'[r] = << >>
                      /\ \A j, k \in 1 .. Len(inbox'[r]) : j < k => inbox'[r][j] < inbox'[r][k]
                      /\ \A k \in 1 .. Len(inbox'[r]) :
                           \A e \in inbox'[r][k] .. n : Then(e, r)
    BY <1>0 DEF InboxInOrder, Waits
  <2>1. /\ sub[r] # "listening" => inbox[r] = << >>
        /\ \A j, k \in 1 .. Len(inbox[r]) : j < k => inbox[r][j] < inbox[r][k]
        /\ \A k \in 1 .. Len(inbox[r]) : \A e \in inbox[r][k] .. Len(published) : Waits(e, r)
    BY DEF FeedInv, InboxInOrder
  <2>2. ASSUME NEW k \in 1 .. Len(inbox[r]), NEW e \in inbox[r][k] .. n
        PROVE  Then(e, r)
    <3>1. e \in inbox[r][k] .. Len(published) \/ e = n
      BY <1>0, <1>4
    <3>2. sub[r] = "listening"
      BY <2>1
    <3> QED
      BY <1>4, <2>1, <3>1, <3>2
  <2>3. CASE r \notin S
    BY <1>2, <2>1, <2>2, <2>3
  <2>4. CASE r \in S
    <3>1. sub[r] = "listening"
      BY <1>3, <2>4
    <3>2. ASSUME NEW k \in 1 .. Len(inbox'[r])
          PROVE  \/ k \in 1 .. Len(inbox[r]) /\ inbox'[r][k] = inbox[r][k]
                 \/ k = Len(inbox[r]) + 1 /\ inbox'[r][k] = n
      BY <1>3, <2>4
    <3>3. \A j, k \in 1 .. Len(inbox'[r]) : j < k => inbox'[r][j] < inbox'[r][k]
      <4> SUFFICES ASSUME NEW j \in 1 .. Len(inbox'[r]), NEW k \in 1 .. Len(inbox'[r]), j < k
                   PROVE  inbox'[r][j] < inbox'[r][k]
        OBVIOUS
      <4>1. j \in 1 .. Len(inbox[r]) /\ inbox'[r][j] = inbox[r][j]
        BY <1>3, <2>4, <3>2
      <4>2. inbox[r][j] \in 1 .. Len(published)
        BY <1>4, <4>1
      <4>3. CASE k \in 1 .. Len(inbox[r]) /\ inbox'[r][k] = inbox[r][k]
        BY <2>1, <4>1, <4>3
      <4>4. CASE inbox'[r][k] = n
        BY <1>0, <4>1, <4>2, <4>4
      <4> QED
        BY <3>2, <4>3, <4>4
    <3>4. ASSUME NEW k \in 1 .. Len(inbox'[r]), NEW e \in inbox'[r][k] .. n
          PROVE  Then(e, r)
      <4>1. CASE k = Len(inbox[r]) + 1 /\ inbox'[r][k] = n
        <5>1. e = n
          BY <1>0, <4>1
        <5> QED
          BY <1>4, <3>1, <5>1
      <4> QED
        BY <2>2, <3>2, <4>1
    <3> QED
      BY <3>1, <3>3, <3>4
  <2> QED
    BY <2>3, <2>4
<1>7. SentBefore' /\ LiveInOrder'
  <2> DEFINE Told(e, d) == \E k \in 1 .. Len(seen[d]) : seen[d][k] = e
  <2> SUFFICES ASSUME NEW d \in Conn, NEW i \in 1 .. Len(seen[d])
               PROVE  /\ joined[d] # None /\ sub[joined[d]] \in {"listening", "ended"}
                      /\ \A k \in 1 .. Len(inbox'[joined[d]]) : seen[d][i] < inbox'[joined[d]][k]
                      /\ \A k \in 1 .. i - 1 : seen[d][k] < seen[d][i]
                      /\ members[joined[d]][role[d]] = d /\ sub[joined[d]] = "listening" =>
                           \A e \in seen[d][i] .. n : Told(e, d) \/ Then(e, joined[d])
    <3>1. UNCHANGED <<members, sub, role, joined, seen>> /\ Len(published') = n
      BY <1>0
    <3> QED
      BY <3>1 DEF SentBefore, LiveInOrder, Waits
  <2>1. /\ joined[d] \in Conn /\ joined[d] # None /\ sub[joined[d]] \in {"listening", "ended"}
        /\ \A k \in 1 .. Len(inbox[joined[d]]) : seen[d][i] < inbox[joined[d]][k]
        /\ seen[d][i] \in 1 .. Len(published)
    BY <1>0 DEF FeedInv, SentBefore
  <2>2. /\ \A k \in 1 .. i - 1 : seen[d][k] < seen[d][i]
        /\ members[joined[d]][role[d]] = d /\ sub[joined[d]] = "listening" =>
              \A e \in seen[d][i] .. Len(published) : Told(e, d) \/ Waits(e, joined[d])
    BY DEF FeedInv, LiveInOrder, Waits
  <2>3. \A k \in 1 .. Len(inbox'[joined[d]]) : seen[d][i] < inbox'[joined[d]][k]
    <3>1. CASE joined[d] \in S
      <4> SUFFICES ASSUME NEW k \in 1 .. Len(inbox'[joined[d]])
                   PROVE  seen[d][i] < inbox'[joined[d]][k]
        OBVIOUS
      <4>1. \/ k \in 1 .. Len(inbox[joined[d]]) /\ inbox'[joined[d]][k] = inbox[joined[d]][k]
            \/ inbox'[joined[d]][k] = n
        <5>1. /\ Len(inbox[joined[d]]) \in Nat
              /\ Len(inbox'[joined[d]]) = Len(inbox[joined[d]]) + 1
              /\ inbox'[joined[d]][Len(inbox[joined[d]]) + 1] = n
              /\ \A j \in 1 .. Len(inbox[joined[d]]) : inbox'[joined[d]][j] = inbox[joined[d]][j]
          BY <1>3, <3>1
        <5>2. k \in 1 .. Len(inbox[joined[d]]) \/ k = Len(inbox[joined[d]]) + 1
          <6> HIDE DEF n
          <6> QED
            BY <5>1
        <5> QED
          BY <5>1, <5>2
      <4>2. seen[d][i] < n
        BY <1>0, <2>1
      <4> QED
        BY <2>1, <4>1, <4>2
    <3>2. CASE joined[d] \notin S
      BY <1>2, <2>1, <3>2
    <3> QED
      BY <3>1, <3>2
  <2>4. ASSUME members[joined[d]][role[d]] = d, sub[joined[d]] = "listening",
               NEW e \in seen[d][i] .. n
        PROVE  Told(e, d) \/ Then(e, joined[d])
    <3>1. e \in seen[d][i] .. Len(published) \/ e = n
      BY <1>0, <2>1
    <3>2. \A x : Waits(x, joined[d]) => Then(x, joined[d])
      BY <1>4, <2>1
    <3>3. Then(n, joined[d])
      BY <1>4, <2>1, <2>4
    <3> QED
      BY <2>2, <2>4, <3>1, <3>2, <3>3
  <2> QED
    BY <2>1, <2>2, <2>3, <2>4
<1> QED
  BY <1>5, <1>6, <1>7 DEF FeedInv

LEMMA FeedRestart ==
  ASSUME TypeOK, FeedInv, Restart
  PROVE  FeedInv'
<1>1. \A c \in Conn : /\ seen'[c] = << >> /\ inbox'[c] = << >>
                       /\ \A k \in Role : members'[c][k] = None
  BY DEF Restart, Forget, Nobody, FeedInv, EarlyIsUnsent, Early
<1> QED
  BY <1>1, NoneAssumption
  DEF FeedInv, MembersHaveJoined, EarlyIsUnsent, InboxInOrder, SentBefore, LiveInOrder

LEMMA FeedStep ==
  ASSUME TypeOK, RoomInv, FeedInv, [Next]_vars
  PROVE  FeedInv'
<1> DEFINE Places == {"new", "accepted", "joining", "gone"} \union Connected \union Leaving
<1>0. pc \in [Conn -> Places] /\ members \in [Conn -> [Role -> Conn \union {None}]]
  BY DEF TypeOK
<1>1. ASSUME UNCHANGED <<role, joined, published, feed, members, lost, seen>>,
             \A c \in Conn : pc'[c] \in Early <=> pc[c] \in Early
      PROVE  FeedInv'
  <2>1. \A c \in Conn : seen'[c] \in {seen[c], << >>} /\ (c \in lost' => seen'[c] = << >>)
    BY <1>1 DEF FeedInv, EarlyIsUnsent
  <2> QED
    BY <1>1, <2>1, FeedKept
<1>2. ASSUME NEW c \in Conn,
             Open(c) \/ Leave(c) \/ isEmpty(c) \/ CloseRoom(c) \/ GetMessages(c)
      PROVE  FeedInv'
  <2>1. /\ UNCHANGED <<role, joined, published, feed, members, lost, seen>>
        /\ \E place \in Places : pc' = [pc EXCEPT ![c] = place] /\ (place \in Early <=> pc[c] \in Early)
    BY <1>2 DEF Open, Leave, isEmpty, CloseRoom, GetMessages, Goto, Ends, manager, client, Early,
                Connected, Leaving
  <2> QED
    BY <1>0, <1>1, <2>1
<1>3. ASSUME NEW c \in Conn, WritesCollide(c) \/ Lose(c)
      PROVE  FeedInv'
  <2>1. /\ UNCHANGED <<role, joined, published, feed, members>> /\ Forget({c})
        /\ \E place \in Places : pc' = [pc EXCEPT ![c] = place] /\ (place \in Early <=> pc[c] \in Early)
    BY <1>0, <1>3 DEF WritesCollide, Lose, Goto, manager, Early, Connected, Leaving
  <2>2. \A d \in Conn : seen'[d] \in {seen[d], << >>} /\ (d \in lost' => seen'[d] = << >>)
    BY <2>1 DEF Forget, FeedInv, EarlyIsUnsent
  <2>3. \A d \in Conn : pc'[d] \in Early <=> pc[d] \in Early
    BY <1>0, <2>1
  <2> QED
    BY <2>1, <2>2, <2>3, FeedKept
<1>4. ASSUME NEW c \in Conn, leave(c)
      PROVE  FeedInv'
  <2>1. /\ UNCHANGED <<role, joined, published, feed, lost, seen>>
        /\ pc[c] = "leaving" /\ pc' = [pc EXCEPT ![c] = "left"]
        /\ members' = [members EXCEPT ![target[c]][role[c]] = None]
    BY <1>4 DEF leave, Goto, client
  <2>2. \A r \in Conn, k \in Role : members'[r][k] \in {members[r][k], None}
    BY <1>0, <2>1
  <2>3. \A d \in Conn : pc'[d] \in Early <=> pc[d] \in Early
    BY <1>0, <2>1 DEF Early
  <2>4. \A d \in Conn : seen'[d] \in {seen[d], << >>} /\ (d \in lost' => seen'[d] = << >>)
    BY <2>1 DEF FeedInv, EarlyIsUnsent
  <2> QED
    BY <2>1, <2>2, <2>3, <2>4, FeedKept
<1>5. ASSUME NEW c \in Conn, Send(c) \/ MarkAllRead(c) \/ SoftDelete(c)
      PROVE  FeedInv'
  BY <1>1, <1>5 DEF Send, MarkAllRead, SoftDelete, manager, client
<1>6. CASE handleNotification
  BY <1>1, <1>6 DEF handleNotification, manager, client
<1>7. CASE UNCHANGED vars
  BY <1>1, <1>7 DEF vars, manager, client
<1> QED
  BY <1>2, <1>3, <1>4, <1>5, <1>6, <1>7, FeedJoin, FeedMember, FeedSubscription,
     FeedBroadcast, FeedPublish, FeedRestart
  DEF Next

\* Whatever handlers, subscriptions and reconnects do, a client is sent what was
\* published in that order, once, and without gaps but for what Redis lost
\* (subscribeRoom and Room.broadcast).
THEOREM ClientsAreSentInOrder == Spec => []LiveInOrder
<1>1. Init => FeedInv
  <2> SUFFICES ASSUME Init
               PROVE  FeedInv
    OBVIOUS
  <2>1. \A c \in Conn : /\ seen[c] = << >> /\ inbox[c] = << >>
                         /\ \A k \in Role : members[c][k] = None
    BY DEF Init, Nobody
  <2> QED
    BY <2>1, NoneAssumption
    DEF FeedInv, MembersHaveJoined, EarlyIsUnsent, InboxInOrder, SentBefore, LiveInOrder
<1>2. TypeOK /\ RoomInv /\ FeedInv /\ [Next]_vars => FeedInv'
  BY FeedStep
<1>3. FeedInv => LiveInOrder
  BY DEF FeedInv
<1> QED
  BY <1>1, <1>2, <1>3, TypeCorrect, RoomsCorrect, PTL DEF Spec
===============================================================================

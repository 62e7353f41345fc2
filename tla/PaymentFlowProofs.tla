-------------------------- MODULE PaymentFlowProofs --------------------------
(***************************************************************************)
(* Proofs about PaymentFlow, for any trips, sessions, prices, faults and   *)
(* numbers of retry topics and concurrent webhook calls.                   *)
(***************************************************************************)
EXTENDS PaymentFlow, TLAPS

\* A session is saved and published only after Stripe has made it.
JobHasSession == \A w \in Level : job[w].pc \in {"save", "publish"} => job[w].session \in Session

Shape == TypeOK /\ JobHasSession

-----------------------------------------------------------------------------
(* Money *)

\* Both shares are whole cents, at most the price together and at most one
\* cent short of it: 20 and 80 percent, each rounded down.
LEMMA SharesOfAPrice ==
  ASSUME NEW amount \in Nat
  PROVE  /\ Fee(amount) \in Nat /\ Payout(amount) \in Nat
         /\ Fee(amount) + Payout(amount) \in {amount - 1, amount}
BY SMT DEF Fee, Payout

\* Marking a row keeps it a payment for the same session.
LEMMA BookedIsAPayment ==
  ASSUME NEW p \in Payment
  PROVE  /\ Booked(p) \in Payment
         /\ Booked(p).session = p.session
         /\ Booked(p).status = "success"
         /\ Booked(p).amount = p.amount
         /\ Booked(p).fee = Fee(p.amount) /\ Booked(p).payout = Payout(p.amount)
<1>1. p.amount \in Nat
  BY AmountAssumption DEF Payment
<1>2. Fee(p.amount) \in Nat /\ Payout(p.amount) \in Nat
  BY <1>1, SharesOfAPrice
<1> QED
  BY <1>2 DEF Booked, Payment

-----------------------------------------------------------------------------
(* Types *)

\* What a busy consumer works on.
LEMMA BusyJob ==
  ASSUME TypeOK, NEW w \in Level, job[w].pc \in {"create", "save", "publish", "commit"}
  PROVE  /\ job[w].request \in Request
         /\ job[w].session \in Session \union {None}
         /\ job[w] \in [pc : {"create", "save", "publish", "commit"}, request : Request,
                        session : Session \union {None}]
BY DEF TypeOK, Job, Idle

\* A failed request goes to a topic that exists.
LEMMA NextTry ==
  ASSUME NEW m \in Request, m.tries < MaxTries
  PROVE  [m EXCEPT !.tries = @ + 1] \in Request
<1>1. m.tries \in 0 .. MaxTries
  BY DEF Request, Level
<1>2. m.tries + 1 \in Level
  BY <1>1, BoundsAssumption DEF Level
<1> QED
  BY <1>2 DEF Request

\* Where a consumer has got to.
LEMMA GoesTo ==
  ASSUME TypeOK, NEW w \in Level, NEW pc, NEW m, NEW s, Goes(w, pc, m, s)
  PROVE  /\ job'[w].pc = pc /\ job'[w].request = m /\ job'[w].session = s
         /\ \A v \in Level : v # w => job'[v] = job[v]
<1>1. job'[w] = [pc |-> pc, request |-> m, session |-> s]
  BY DEF Goes, TypeOK
<1>2. \A v \in Level : v # w => job'[v] = job[v]
  BY DEF Goes, TypeOK
<1> QED
  BY <1>1, <1>2

\* A consumer that goes on keeps the types.
LEMMA GoesKeeps ==
  ASSUME Shape, NEW w \in Level, NEW pc \in {"create", "save", "publish", "commit"},
         NEW m \in Request, NEW s \in Session \union {None},
         pc \in {"save", "publish"} => s \in Session, Goes(w, pc, m, s)
  PROVE  job' \in [Level -> Job] /\ JobHasSession'
<1>1. [pc |-> pc, request |-> m, session |-> s] \in Job
  BY DEF Job
<1>2. job' \in [Level -> Job]
  BY <1>1 DEF Goes, Shape, TypeOK
<1>3. JobHasSession'
  BY GoesTo DEF JobHasSession, Shape
<1> QED
  BY <1>2, <1>3

LEMMA FailsKeeps ==
  ASSUME Shape, NEW w \in Level, job[w].pc \in {"create", "save", "publish"}, Fails(w)
  PROVE  job' \in [Level -> Job] /\ JobHasSession' /\ requests' \subseteq Request
<1>1. job[w].request \in Request
  BY BusyJob DEF Shape
<1>2. requests \subseteq Request
  BY DEF Shape, TypeOK
<1>3. requests' \subseteq Request
  BY <1>1, <1>2, NextTry DEF Fails
<1>4. Goes(w, "commit", job[w].request, None)
  BY DEF Fails
<1> QED
  BY <1>1, <1>3, <1>4, GoesKeeps

LEMMA ShapeInit == Init => Shape
<1> SUFFICES ASSUME Init PROVE Shape
  OBVIOUS
<1>1. Idle \in Job /\ Idle.pc = "idle"
  BY DEF Job, Idle
<1> QED
  BY <1>1 DEF Init, Shape, TypeOK, JobHasSession

\* Each step keeps the types and gives a session to whoever saves one.
LEMMA ShapeStep == Shape /\ [Next]_vars => Shape'
<1> SUFFICES ASSUME Shape, [Next]_vars PROVE Shape'
  OBVIOUS
<1> USE DEF Shape
<1>1. ASSUME NEW w \in Level, NEW m \in requests, handleCreateSession(w, m) PROVE Shape'
  <2>1. requests' \subseteq Request /\ m \in Request
    BY <1>1 DEF handleCreateSession, TypeOK
  <2>2. job' \in [Level -> Job] /\ JobHasSession'
    BY <1>1, <2>1, GoesKeeps DEF handleCreateSession
  <2> QED
    BY <1>1, <2>1, <2>2 DEF handleCreateSession, TypeOK, stripe, gateway
<1>2. ASSUME NEW w \in Level, CreatePaymentSession(w) PROVE Shape'
  <2>1. PICK s \in Session :
          /\ Charges(s, job[w].request)
          /\ \/ Goes(w, "save", job[w].request, s) /\ UNCHANGED requests
             \/ Fails(w)
    BY <1>2 DEF CreatePaymentSession
  <2>2. job[w].request \in Request
    BY <1>2, BusyJob DEF CreatePaymentSession
  <2>3. session' \in [Session -> Price \union {None}]
    BY <2>1, <2>2 DEF Charges, Request, Price, TypeOK
  <2>4. job' \in [Level -> Job] /\ JobHasSession' /\ requests' \subseteq Request
    <3>1. CASE Goes(w, "save", job[w].request, s) /\ UNCHANGED requests
      BY <2>2, <3>1, GoesKeeps DEF TypeOK
    <3>2. CASE Fails(w)
      BY <1>2, <3>2, FailsKeeps DEF CreatePaymentSession
    <3> QED
      BY <2>1, <3>1, <3>2
  <2> QED
    BY <1>2, <2>3, <2>4 DEF CreatePaymentSession, TypeOK, gateway
<1>3. ASSUME NEW w \in Level, CreateFails(w) PROVE Shape'
  <2>1. job' \in [Level -> Job] /\ JobHasSession' /\ requests' \subseteq Request
    BY <1>3, FailsKeeps DEF CreateFails
  <2> QED
    BY <1>3, <2>1 DEF CreateFails, TypeOK, stripe, gateway
<1>4. ASSUME NEW w \in Level, Save(w) PROVE Shape'
  <2> DEFINE row == [trip |-> job[w].request.trip, amount |-> job[w].request.amount,
                     session |-> job[w].session, status |-> "pending", fee |-> 0, payout |-> 0]
  <2>1. /\ job[w].request \in Request
        /\ job[w] \in [pc : {"create", "save", "publish", "commit"}, request : Request,
                       session : Session \union {None}]
    BY <1>4, BusyJob DEF Save
  <2>2. job[w].session \in Session
    BY <1>4 DEF Save, JobHasSession
  <2>3. row \in Payment
    BY <2>1, <2>2 DEF Payment, Request
  <2>4. payments' \subseteq Payment
    BY <1>4, <2>3 DEF Save, TypeOK
  <2>5. job' \in [Level -> Job] /\ JobHasSession'
    BY <1>4, <2>1, <2>2, GoesKeeps DEF Save
  <2> QED
    BY <1>4, <2>4, <2>5 DEF Save, TypeOK, stripe, gateway
<1>5. ASSUME NEW w \in Level, PublishSession(w) PROVE Shape'
  <2>1. job[w].request \in Request /\ job[w].session \in Session
    BY <1>5, BusyJob DEF PublishSession, JobHasSession
  <2>2. job' \in [Level -> Job] /\ JobHasSession' /\ requests' \subseteq Request
    <3>1. CASE Succeeds(w)
      BY <3>1, <2>1, GoesKeeps DEF Succeeds, TypeOK
    <3>2. CASE Fails(w)
      BY <1>5, <3>2, FailsKeeps DEF PublishSession
    <3> QED
      BY <1>5, <3>1, <3>2 DEF PublishSession
  <2> QED
    BY <1>5, <2>1, <2>2 DEF PublishSession, TypeOK, gateway
<1>15. ASSUME NEW w \in Level, Commit(w) PROVE Shape'
  <2>1. job[w].request \in Request
    BY <1>15, BusyJob DEF Commit
  <2>2. Idle \in Job /\ Idle.pc = "idle"
    BY DEF Job, Idle
  <2>3. requests' \subseteq Request
    BY <1>15, <2>1 DEF Commit, TypeOK
  <2>4. \A v \in Level : job'[v] = IF v = w THEN Idle ELSE job[v]
    BY <1>15 DEF Commit, TypeOK
  <2>5. job' \in [Level -> Job] /\ JobHasSession'
    BY <1>15, <2>2, <2>4 DEF Commit, TypeOK, JobHasSession
  <2> QED
    BY <1>15, <2>3, <2>5 DEF Commit, TypeOK, stripe, gateway
<1>6. CASE Crash
  <2>1. \A w \in Level : job[w] # Idle => job[w].request \in Request
    BY DEF TypeOK, Job
  <2>2. Idle \in Job /\ Idle.pc = "idle"
    BY DEF Job, Idle
  <2>3. requests' \subseteq Request
    BY <1>6, <2>1 DEF Crash, TypeOK
  <2>4. job' \in [Level -> Job] /\ JobHasSession'
    BY <1>6, <2>2 DEF Crash, JobHasSession
  <2> QED
    BY <1>6, <2>3, <2>4 DEF Crash, TypeOK, stripe, gateway
<1>7. ASSUME NEW s \in Session, handleSuccess(s) PROVE Shape'
  <2>1. payments' \subseteq Payment
    BY <1>7, BookedIsAPayment DEF handleSuccess, MarkSuccess, TypeOK
  <2> QED
    BY <1>7, <2>1 DEF handleSuccess, TypeOK, JobHasSession, stripe, gateway
<1>8. ASSUME NEW h \in Delivery, NEW s \in Session, Receive(h, s) PROVE Shape'
  BY <1>8 DEF Receive, TypeOK, JobHasSession, service, stripe
<1>9. ASSUME NEW h \in Delivery, PublishSuccess(h) PROVE Shape'
  BY <1>9 DEF PublishSuccess, TypeOK, JobHasSession, service, stripe
<1>10. CASE GatewayStops
  BY <1>10 DEF GatewayStops, TypeOK, JobHasSession, service, stripe
<1>11. ASSUME NEW s \in Session, Expire(s) PROVE Shape'
  BY <1>11 DEF Expire, TypeOK, JobHasSession, service, stripe
<1>12. ASSUME NEW t \in Trip, NEW a \in Amount, Ask(t, a) PROVE Shape'
  <2>1. 0 \in Level
    BY BoundsAssumption DEF Level
  <2>2. requests' \subseteq Request
    BY <1>12, <2>1 DEF Ask, Request, TypeOK
  <2> QED
    BY <1>12, <2>2 DEF Ask, TypeOK, JobHasSession, stripe, gateway
<1>13. ASSUME NEW s \in Session, Pay(s) PROVE Shape'
  BY <1>13 DEF Pay, TypeOK, JobHasSession, service
<1>14. CASE UNCHANGED vars
  BY <1>14 DEF vars, service, stripe, gateway, TypeOK, JobHasSession
<1> QED
  BY <1>1, <1>2, <1>3, <1>4, <1>5, <1>6, <1>7, <1>8, <1>9, <1>10, <1>11, <1>12, <1>13, <1>14, <1>15
     DEF Next, Working, Serving

\* The variables keep their types (every handler of PaymentFlow).
THEOREM TypeCorrect == Spec => []TypeOK
<1>1. Spec => []Shape
  BY ShapeInit, ShapeStep, PTL DEF Spec
<1>2. Shape => TypeOK
  BY DEF Shape
<1> QED
  BY <1>1, <1>2, PTL

-----------------------------------------------------------------------------
(* Marked payments *)

\* The gateway hears only of sessions the rider has paid, and so do those who
\* read its messages; a marked payment is of a paid session and is shared out.
OnlyOfPaid ==
  /\ unacked \subseteq paid
  /\ published \subseteq paid
  /\ successes \subseteq paid
  /\ \A h \in Delivery : hook[h] # None => hook[h] \in paid
  /\ \A p \in payments : p.status = "success" =>
       p.session \in paid /\ p.fee = Fee(p.amount) /\ p.payout = Payout(p.amount)

LEMMA OnlyOfPaidInit == Init => OnlyOfPaid
BY DEF Init, OnlyOfPaid

LEMMA OnlyOfPaidStep == Shape /\ OnlyOfPaid /\ [Next]_vars => OnlyOfPaid'
<1> SUFFICES ASSUME Shape, OnlyOfPaid, [Next]_vars PROVE OnlyOfPaid'
  OBVIOUS
<1>1. ASSUME NEW w \in Level, NEW m \in requests, handleCreateSession(w, m) PROVE OnlyOfPaid'
  BY <1>1 DEF handleCreateSession, OnlyOfPaid, stripe, gateway
<1>2. ASSUME NEW w \in Level, CreatePaymentSession(w) PROVE OnlyOfPaid'
  BY <1>2 DEF CreatePaymentSession, OnlyOfPaid, gateway
<1>3. ASSUME NEW w \in Level, CreateFails(w) PROVE OnlyOfPaid'
  BY <1>3 DEF CreateFails, OnlyOfPaid, stripe, gateway
<1>4. ASSUME NEW w \in Level, Save(w) PROVE OnlyOfPaid'
  <2>1. \A p \in payments' : p \in payments \/ p.status = "pending"
    BY <1>4 DEF Save
  <2> QED
    BY <1>4, <2>1 DEF Save, OnlyOfPaid, stripe, gateway
<1>5. ASSUME NEW w \in Level, PublishSession(w) PROVE OnlyOfPaid'
  BY <1>5 DEF PublishSession, OnlyOfPaid, gateway
<1>6. CASE Crash
  BY <1>6 DEF Crash, OnlyOfPaid, stripe, gateway
<1>15. ASSUME NEW w \in Level, Commit(w) PROVE OnlyOfPaid'
  BY <1>15 DEF Commit, OnlyOfPaid, stripe, gateway
<1>7. ASSUME NEW s \in Session, handleSuccess(s) PROVE OnlyOfPaid'
  <2>1. s \in paid
    BY <1>7 DEF handleSuccess, OnlyOfPaid
  <2>2. ASSUME MarkSuccess(s), NEW p \in payments', p.status = "success"
        PROVE  p.session \in paid /\ p.fee = Fee(p.amount) /\ p.payout = Payout(p.amount)
    <3>1. PICK q \in payments : p = IF q.session = s THEN Booked(q) ELSE q
      BY <2>2 DEF MarkSuccess
    <3>2. q \in Payment
      BY DEF Shape, TypeOK
    <3> QED
      BY <2>1, <2>2, <3>1, <3>2, BookedIsAPayment DEF OnlyOfPaid
  <2> QED
    BY <1>7, <2>2 DEF handleSuccess, OnlyOfPaid, stripe, gateway
<1>8. ASSUME NEW h \in Delivery, NEW s \in Session, Receive(h, s) PROVE OnlyOfPaid'
  BY <1>8 DEF Receive, OnlyOfPaid, Shape, TypeOK, service, stripe
<1>9. ASSUME NEW h \in Delivery, PublishSuccess(h) PROVE OnlyOfPaid'
  BY <1>9 DEF PublishSuccess, OnlyOfPaid, Shape, TypeOK, service, stripe
<1>10. CASE GatewayStops
  BY <1>10 DEF GatewayStops, OnlyOfPaid, service, stripe
<1>11. ASSUME NEW s \in Session, Expire(s) PROVE OnlyOfPaid'
  BY <1>11 DEF Expire, OnlyOfPaid, service, stripe
<1>12. ASSUME NEW t \in Trip, NEW a \in Amount, Ask(t, a) PROVE OnlyOfPaid'
  BY <1>12 DEF Ask, OnlyOfPaid, stripe, gateway
<1>13. ASSUME NEW s \in Session, Pay(s) PROVE OnlyOfPaid'
  BY <1>13 DEF Pay, OnlyOfPaid, service
<1>14. CASE UNCHANGED vars
  BY <1>14 DEF vars, service, stripe, gateway, OnlyOfPaid
<1> QED
  BY <1>1, <1>2, <1>3, <1>4, <1>5, <1>6, <1>7, <1>8, <1>9, <1>10, <1>11, <1>12, <1>13, <1>14, <1>15
     DEF Next, Working, Serving

LEMMA Marked == Spec => [](Shape /\ OnlyOfPaid)
<1>1. Spec => []Shape
  BY ShapeInit, ShapeStep, PTL DEF Spec
<1>2. Init => OnlyOfPaid
  BY OnlyOfPaidInit
<1> QED
  BY <1>1, <1>2, OnlyOfPaidStep, PTL DEF Spec

\* A payment marked as paid is of a session the rider has paid, under any
\* faults (handleStripeWebhook, handleSuccess, MarkSuccess).
THEOREM OnlyPaidIsMarked == Spec => []SuccessMeansPaid
<1>1. OnlyOfPaid => SuccessMeansPaid
  BY DEF OnlyOfPaid, SuccessMeansPaid
<1> QED
  BY <1>1, Marked, PTL

\* The shares of a marked payment are covered by its price, whatever the price
\* (MarkSuccess).
THEOREM SharesCovered == Spec => []SharesAreCovered
<1>1. Shape /\ OnlyOfPaid => SharesAreCovered
  <2> SUFFICES ASSUME Shape, OnlyOfPaid, NEW p \in payments, p.status = "success"
               PROVE  p.fee + p.payout \in {p.amount - 1, p.amount}
    BY DEF SharesAreCovered
  <2>1. p.amount \in Nat
    BY AmountAssumption DEF Shape, TypeOK, Payment
  <2> QED
    BY <2>1, SharesOfAPrice DEF OnlyOfPaid
<1> QED
  BY <1>1, Marked, PTL

-----------------------------------------------------------------------------
(* Paid sessions are booked *)

\* Consumers that have a session have one each, and tell nobody of it before
\* they have saved it.
Apart ==
  \A w \in Level : job[w].pc \in {"save", "publish"} =>
    /\ session[job[w].session] # None
    /\ job[w].pc = "save" => job[w].session \notin told
    /\ \A v \in Level \ {w} :
         job[v].pc \in {"save", "publish"} => job[v].session # job[w].session

OnlyMadeAreTold == paid \subseteq told /\ \A s \in told : session[s] # None

BookInv == Apart /\ OnlyMadeAreTold /\ PaidIsBooked

\* Jobs may end and sessions be made as long as nothing is told or marked.
LEMMA BookKept ==
  ASSUME Shape, BookInv, UNCHANGED <<payments, told, paid, published, successes, dead>>,
         \A s \in Session : session[s] # None => session'[s] # None,
         \A w \in Level : job'[w] = job[w] \/ job'[w].pc \in {"idle", "create", "commit"}
  PROVE  BookInv'
<1>1. Apart'
  BY DEF BookInv, Apart, Shape, JobHasSession
<1>2. OnlyMadeAreTold' /\ PaidIsBooked'
  BY DEF BookInv, OnlyMadeAreTold, PaidIsBooked, Shape, TypeOK
<1> QED
  BY <1>1, <1>2 DEF BookInv

LEMMA BookStep ==
  ASSUME Shape, OnlyOfPaid, BookInv, [Next]_vars
  PROVE  BookInv'
<1>0. /\ job \in [Level -> Job] /\ session \in [Session -> Price \union {None}]
      /\ payments \subseteq Payment /\ told \subseteq Session /\ published \subseteq told
      /\ None \notin Price
  BY NoneAssumption DEF Shape, TypeOK, OnlyOfPaid, BookInv, OnlyMadeAreTold, Price
<1>1. ASSUME NEW w \in Level, NEW m \in requests, handleCreateSession(w, m) PROVE BookInv'
  <2>1. \A v \in Level : job'[v] = job[v] \/ job'[v].pc \in {"idle", "create", "commit"}
    BY <1>1, GoesTo DEF handleCreateSession, Shape
  <2> QED
    BY <1>1, <2>1, BookKept DEF handleCreateSession, stripe, gateway
<1>2. ASSUME NEW w \in Level, CreatePaymentSession(w) PROVE BookInv'
  <2>1. PICK s \in Session :
          /\ session[s] = None /\ Charges(s, job[w].request)
          /\ Goes(w, "save", job[w].request, s) \/ Fails(w)
    BY <1>2 DEF CreatePaymentSession
  <2>2. job[w].request \in Request
    BY <1>2, BusyJob DEF CreatePaymentSession, Shape
  <2>3. [trip |-> job[w].request.trip, amount |-> job[w].request.amount] \in Price
    BY <2>2 DEF Request, Price
  <2>4. /\ session'[s] # None
        /\ \A r \in Session : r # s => session'[r] = session[r]
    BY <1>0, <2>1, <2>3 DEF Charges
  <2>5. UNCHANGED <<payments, told, paid, published, successes, dead>>
    BY <1>2 DEF CreatePaymentSession, gateway
  <2>6. CASE Fails(w)
    <3>1. \A v \in Level : job'[v] = job[v] \/ job'[v].pc = "commit"
      BY <2>6, GoesTo DEF Fails, Shape
    <3> QED
      BY <2>4, <2>5, <3>1, BookKept
  <2>7. CASE Goes(w, "save", job[w].request, s)
    <3>3. /\ job'[w].pc = "save" /\ job'[w].session = s
          /\ \A v \in Level : v # w => job'[v] = job[v]
      BY <2>7, GoesTo DEF Shape
    <3>4. s \notin told /\ \A v \in Level : job[v].pc \in {"save", "publish"} => job[v].session # s
      BY <2>1 DEF BookInv, Apart, OnlyMadeAreTold
    <3>5. Apart'
      <4> SUFFICES ASSUME NEW v \in Level, job'[v].pc \in {"save", "publish"}
                   PROVE  /\ session'[job'[v].session] # None
                          /\ job'[v].pc = "save" => job'[v].session \notin told
                          /\ \A u \in Level \ {v} :
                               job'[u].pc \in {"save", "publish"} => job'[u].session # job'[v].session
        BY <2>5 DEF Apart
      <4>1. CASE v = w
        BY <2>4, <3>3, <3>4, <4>1
      <4>2. CASE v # w
        <5>1. job'[v] = job[v] /\ job[v].session \in Session /\ job[v].session # s
          BY <3>3, <3>4, <4>2 DEF Shape, JobHasSession
        <5> QED
          BY <2>4, <3>3, <4>2, <5>1 DEF BookInv, Apart
      <4> QED
        BY <4>1, <4>2
    <3>6. OnlyMadeAreTold' /\ PaidIsBooked'
      BY <1>0, <2>4, <2>5 DEF BookInv, OnlyMadeAreTold, PaidIsBooked
    <3> QED
      BY <3>5, <3>6 DEF BookInv
  <2> QED
    BY <2>1, <2>6, <2>7
<1>3. ASSUME NEW w \in Level, CreateFails(w) PROVE BookInv'
  <2>1. \A v \in Level : job'[v] = job[v] \/ job'[v].pc = "commit"
    BY <1>3, GoesTo DEF CreateFails, Fails, Shape
  <2> QED
    BY <1>3, <2>1, BookKept DEF CreateFails, stripe, gateway
<1>4. ASSUME NEW w \in Level, Save(w) PROVE BookInv'
  <2>3. /\ job'[w].pc = "publish" /\ job'[w].session = job[w].session
        /\ \A v \in Level : v # w => job'[v] = job[v]
    BY <1>4, GoesTo DEF Save, Shape
  <2>4. UNCHANGED <<session, told, paid, published, successes, dead>>
        /\ job[w].pc = "save"
    BY <1>4 DEF Save, stripe, gateway
  <2>5. \A p \in payments' : p \in payments \/ p.session = job[w].session
    BY <1>4 DEF Save
  <2>6. Apart'
    BY <2>3, <2>4 DEF BookInv, Apart
  <2>7. job[w].session \notin published
    BY <1>0, <2>4 DEF BookInv, Apart
  <2>8. OnlyMadeAreTold' /\ PaidIsBooked'
    BY <2>4, <2>5, <2>7 DEF BookInv, OnlyMadeAreTold, PaidIsBooked
  <2> QED
    BY <2>6, <2>8 DEF BookInv
<1>5. ASSUME NEW w \in Level, PublishSession(w) PROVE BookInv'
  <2>1. /\ UNCHANGED <<payments, session, paid, published, successes, dead>>
        /\ job[w].pc = "publish" /\ Goes(w, "commit", job[w].request, None)
        /\ told' \in {told, told \union {job[w].session}}
    BY <1>5 DEF PublishSession, Succeeds, Fails, gateway
  <2>2. \A v \in Level : job'[v].pc \in {"save", "publish"} => v # w /\ job'[v] = job[v]
    BY <2>1, GoesTo DEF Shape
  <2>3. Apart'
    BY <2>1, <2>2 DEF BookInv, Apart
  <2>4. OnlyMadeAreTold' /\ PaidIsBooked'
    BY <2>1 DEF BookInv, Apart, OnlyMadeAreTold, PaidIsBooked
  <2> QED
    BY <2>3, <2>4 DEF BookInv
<1>6. CASE Crash
  BY <1>6, BookKept DEF Crash, Idle, stripe, gateway
<1>15. ASSUME NEW w \in Level, Commit(w) PROVE BookInv'
  <2>1. \A v \in Level : job'[v] = job[v] \/ job'[v].pc = "idle"
    BY <1>0, <1>15 DEF Commit, Idle
  <2> QED
    BY <1>15, <2>1, BookKept DEF Commit, stripe, gateway
<1>7. ASSUME NEW s \in Session, handleSuccess(s) PROVE BookInv'
  <2>1. UNCHANGED <<job, session, told, paid, published>>
    BY <1>7 DEF handleSuccess, stripe, gateway
  <2>2. Apart' /\ OnlyMadeAreTold'
    BY <2>1 DEF BookInv, Apart, OnlyMadeAreTold
  <2>3. CASE MarkSuccess(s) /\ dead' = dead
    <3> SUFFICES ASSUME NEW r \in published \ (successes' \union dead), NEW p \in payments',
                        p.session = r
                 PROVE  p.status = "success"
      BY <2>1, <2>2, <2>3 DEF PaidIsBooked, BookInv
    <3>1. PICK q \in payments : p = IF q.session = s THEN Booked(q) ELSE q
      BY <2>3 DEF MarkSuccess
    <3>2. CASE q.session = s
      BY <1>0, <3>1, <3>2, BookedIsAPayment
    <3>3. CASE q.session # s
      BY <1>7, <2>3, <3>1, <3>3 DEF handleSuccess, BookInv, PaidIsBooked
    <3> QED
      BY <3>2, <3>3
  <2>4. CASE payments' = payments /\ dead' = dead \union {s}
    <3>1. successes \ {s} \subseteq successes'
      BY <1>7 DEF handleSuccess
    <3> QED
      BY <2>1, <2>2, <2>4, <3>1 DEF BookInv, PaidIsBooked
  <2> QED
    BY <1>7, <2>2, <2>3, <2>4 DEF handleSuccess, BookInv
<1>8. ASSUME NEW h \in Delivery, NEW s \in Session, Receive(h, s) PROVE BookInv'
  BY <1>8, BookKept DEF Receive, service, stripe
<1>9. ASSUME NEW h \in Delivery, PublishSuccess(h) PROVE BookInv'
  <2>1. /\ UNCHANGED <<job, payments, dead, session, told, paid>>
        /\ published' \ successes' \subseteq published \ successes
    BY <1>9 DEF PublishSuccess, service, stripe
  <2> QED
    BY <2>1 DEF BookInv, Apart, OnlyMadeAreTold, PaidIsBooked
<1>10. CASE GatewayStops
  BY <1>10, BookKept DEF GatewayStops, service, stripe
<1>11. ASSUME NEW s \in Session, Expire(s) PROVE BookInv'
  BY <1>11, BookKept DEF Expire, service, stripe
<1>12. ASSUME NEW t \in Trip, NEW a \in Amount, Ask(t, a) PROVE BookInv'
  BY <1>12, BookKept DEF Ask, stripe, gateway
<1>13. ASSUME NEW s \in Session, Pay(s) PROVE BookInv'
  BY <1>13 DEF Pay, service, BookInv, Apart, OnlyMadeAreTold, PaidIsBooked
<1>14. CASE UNCHANGED vars
  BY <1>14, BookKept DEF vars, service, stripe, gateway
<1> QED
  BY <1>1, <1>2, <1>3, <1>4, <1>5, <1>6, <1>7, <1>8, <1>9, <1>10, <1>11, <1>12, <1>13, <1>14, <1>15
     DEF Next, Working, Serving

\* The success that was handled found the row there was to find: no row of its
\* session is written afterwards (handleCreateSession saves before it publishes).
THEOREM HandledIsBooked == Spec => []PaidIsBooked
<1>1. Init => BookInv
  BY DEF Init, Idle, BookInv, Apart, OnlyMadeAreTold, PaidIsBooked
<1>2. Shape /\ OnlyOfPaid /\ BookInv /\ [Next]_vars => BookInv'
  BY BookStep
<1>3. BookInv => PaidIsBooked
  BY DEF BookInv
<1> QED
  BY <1>1, <1>2, <1>3, Marked, PTL DEF Spec

-----------------------------------------------------------------------------
(* One success per session *)

\* Keys are set and kept.
KeysHold == Faults \intersect {"redis", "expiry"} = {}

\* A call that has claimed a session is the only one and the first.
Claimed ==
  /\ published \subseteq dedup
  /\ \A h \in Delivery : hook[h] # None =>
       /\ hook[h] \in dedup \ published
       /\ \A g \in Delivery : hook[g] = hook[h] => g = h

LEMMA ClaimedStep ==
  ASSUME KeysHold, Shape, Claimed, [Next]_vars
  PROVE  Claimed'
<1>0. hook \in [Delivery -> Session \union {None}] /\ None \notin Session
  BY NoneAssumption DEF Shape, TypeOK
<1>1. ASSUME UNCHANGED <<dedup, hook, published>> PROVE Claimed'
  BY <1>1 DEF Claimed
<1>2. ASSUME NEW w \in Level, Working(w) \/ \E m \in requests : handleCreateSession(w, m)
      PROVE  Claimed'
  BY <1>1, <1>2 DEF Working, handleCreateSession, CreatePaymentSession, CreateFails, Save,
                    PublishSession, Commit, gateway
<1>3. ASSUME NEW s \in Session, handleSuccess(s) \/ Pay(s)
      PROVE  Claimed'
  BY <1>1, <1>3 DEF handleSuccess, Pay, gateway
<1>4. ASSUME NEW s \in Session, Expire(s) PROVE FALSE
  BY <1>4 DEF Expire, KeysHold
<1>5. ASSUME NEW h \in Delivery, NEW s \in Session, Receive(h, s) PROVE Claimed'
  <2>1. CASE UNCHANGED <<dedup, hook, published>>
    BY <1>1, <2>1
  <2>2. CASE /\ s \notin dedup /\ dedup' = dedup \union {s}
             /\ hook' = [hook EXCEPT ![h] = s] /\ UNCHANGED published
    <3>1. hook'[h] = s /\ \A g \in Delivery : g # h => hook'[g] = hook[g]
      BY <1>0, <2>2
    <3> QED
      BY <2>2, <3>1 DEF Claimed
  <2> QED
    BY <1>5, <2>1, <2>2 DEF Receive, KeysHold
<1>6. ASSUME NEW h \in Delivery, PublishSuccess(h) PROVE Claimed'
  <2>1. /\ hook[h] # None /\ UNCHANGED dedup
        /\ published' \in {published, published \union {hook[h]}}
        /\ hook' = [hook EXCEPT ![h] = None]
    BY <1>6 DEF PublishSuccess
  <2>2. hook'[h] = None /\ \A g \in Delivery : g # h => hook'[g] = hook[g]
    BY <1>0, <2>1
  <2> QED
    BY <2>1, <2>2 DEF Claimed
<1>7. ASSUME NEW t \in Trip, NEW a \in Amount, Ask(t, a) PROVE Claimed'
  BY <1>1, <1>7 DEF Ask, gateway
<1>8. CASE Crash
  BY <1>1, <1>8 DEF Crash, gateway
<1>9. CASE GatewayStops
  BY <1>9 DEF GatewayStops, Claimed
<1>10. CASE UNCHANGED vars
  BY <1>1, <1>10 DEF vars, gateway
<1> QED
  BY <1>2, <1>3, <1>4, <1>5, <1>6, <1>7, <1>8, <1>9, <1>10 DEF Next, Serving

\* As long as keys are set and kept, a success is published once, although calls
\* overlap, publishes fail, answers are lost and the gateway restarts (the SET NX
\* of handleStripeWebhook).
THEOREM SuccessOnce ==
  ASSUME KeysHold
  PROVE  Spec => PublishedOnce
<1>1. Init => Claimed
  BY DEF Init, Claimed
<1>2. Shape /\ Claimed /\ [Next]_vars => Claimed'
  BY ClaimedStep
<1>3. Claimed /\ [Next]_vars =>
        [\A h \in Delivery : PublishSuccess(h) => hook[h] \notin published]_vars
  BY DEF Claimed, PublishSuccess
<1> QED
  BY <1>1, <1>2, <1>3, ShapeInit, ShapeStep, PTL DEF Spec, PublishedOnce

-----------------------------------------------------------------------------
(* One checkout per trip *)

\* The guard's query and the INSERT behind it do not fail, and no request fails
\* before its row is there.
RowsAreSaved == Faults \intersect {"stripe", "db"} = {}

\* Only the first consumer charges, and the trip it charges has no payment yet;
\* whatever is retried or done has one.
OneAtATime ==
  /\ \A m \in requests : m.tries = 0 \/ PaymentsOf(m.trip) # {}
  /\ \A w \in Level : job[w].pc = "commit" => PaymentsOf(job[w].request.trip) # {}
  /\ \A w \in Level : job[w].pc \in {"create", "save"} =>
       w = 0 /\ job[w].request.tries = 0 /\ PaymentsOf(job[w].request.trip) = {}

\* What the consumer has made, saved and told belong together.
Traced ==
  /\ \A w \in Level : job[w].pc \in {"save", "publish"} =>
       session[job[w].session] # None /\ session[job[w].session].trip = job[w].request.trip
  /\ \A w \in Level : job[w].pc = "publish" =>
       \E p \in payments : p.session = job[w].session
  /\ \A p \in payments : session[p.session] # None /\ session[p.session].trip = p.trip
  /\ \A p, q \in payments : p.trip = q.trip => p = q
  /\ \A s \in told : \E p \in payments : p.session = s

Guarded == OneAtATime /\ Traced

LEMMA GuardedInit == Init => Guarded
BY DEF Init, Guarded, OneAtATime, Traced, Idle

\* A consumer that has saved a session has a payment of the trip to show.
LEMMA SavedRow ==
  ASSUME Traced, NEW w \in Level, job[w].pc = "publish"
  PROVE  PaymentsOf(job[w].request.trip) # {}
<1>1. PICK p \in payments : p.session = job[w].session
  BY DEF Traced
<1>2. p.trip = job[w].request.trip
  BY <1>1 DEF Traced
<1> QED
  BY <1>2 DEF PaymentsOf

\* Nothing changes for the guard when the table and the sessions stay, nothing new
\* is told, and consumers only stop.
LEMMA GuardedFrame ==
  ASSUME Shape, Guarded, UNCHANGED <<payments, session>>,
         \A s \in told' : s \in told \/ \E p \in payments : p.session = s,
         \A m \in requests' : m.tries = 0 \/ PaymentsOf(m.trip) # {},
         \A w \in Level :
           \/ job'[w] \in {job[w], Idle}
           \/ job'[w].pc = "commit" /\ PaymentsOf(job'[w].request.trip) # {}
  PROVE  Guarded'
<1>1. Idle.pc = "idle"
  BY DEF Idle
<1>2. \A t : PaymentsOf(t)' = PaymentsOf(t)
  BY DEF PaymentsOf
<1>3. \A w \in Level : job'[w].pc \in {"create", "save", "publish"} => job'[w] = job[w]
  BY <1>1
<1>4. OneAtATime'
  BY <1>1, <1>2, <1>3 DEF Guarded, OneAtATime
<1>5. Traced'
  BY <1>3 DEF Guarded, Traced
<1> QED
  BY <1>4, <1>5 DEF Guarded

LEMMA GuardedStep ==
  ASSUME RowsAreSaved
  PROVE  Shape /\ Guarded /\ [Next]_vars => Guarded'
<1> SUFFICES ASSUME Shape, Guarded, [Next]_vars PROVE Guarded'
  OBVIOUS
<1>a. "stripe" \notin Faults /\ "db" \notin Faults
  BY DEF RowsAreSaved
<1>b. Idle.pc = "idle"
  BY DEF Idle
<1>c. job \in [Level -> Job] /\ session \in [Session -> Price \union {None}]
      /\ payments \subseteq Payment /\ TypeOK
  BY DEF Shape, TypeOK
<1>d. \A m \in requests : m.tries = 0 \/ PaymentsOf(m.trip) # {}
  BY DEF Guarded, OneAtATime
<1>1. ASSUME NEW w \in Level, NEW m \in requests, handleCreateSession(w, m) PROVE Guarded'
  <2>1. /\ UNCHANGED <<payments, session, told>>
        /\ \A r \in requests' : r \in requests
        /\ m.tries = w
    BY <1>1 DEF handleCreateSession, stripe
  <2>2. CASE PaymentsOf(m.trip) # {} /\ Goes(w, "commit", m, None)
    <3>1. /\ job'[w].pc = "commit" /\ job'[w].request = m
          /\ \A v \in Level : v # w => job'[v] = job[v]
      BY <2>2, <1>c, GoesTo
    <3> QED
      BY <2>1, <2>2, <3>1, <1>d, GuardedFrame
  <2>3. CASE PaymentsOf(m.trip) = {} /\ Goes(w, "create", m, None)
    <3>1. /\ job'[w].pc = "create" /\ job'[w].request = m
          /\ \A v \in Level : v # w => job'[v] = job[v]
      BY <2>3, <1>c, GoesTo
    <3>2. \A t : PaymentsOf(t)' = PaymentsOf(t)
      BY <2>1 DEF PaymentsOf
    <3>3. OneAtATime'
      BY <2>1, <2>3, <3>1, <3>2, <1>d DEF Guarded, OneAtATime
    <3>4. Traced'
      BY <2>1, <3>1 DEF Guarded, Traced
    <3> QED
      BY <3>3, <3>4 DEF Guarded
  <2> QED
    BY <1>1, <1>a, <2>2, <2>3 DEF handleCreateSession
<1>2. ASSUME NEW w \in Level, CreatePaymentSession(w) PROVE Guarded'
  <2>1. PICK s \in Session :
          /\ session[s] = None
          /\ Charges(s, job[w].request)
          /\ Goes(w, "save", job[w].request, s)
          /\ UNCHANGED requests
    BY <1>2, <1>a DEF CreatePaymentSession
  <2>2. /\ job[w].pc = "create"
        /\ UNCHANGED <<payments, told>>
    BY <1>2 DEF CreatePaymentSession
  <2>3. job[w].request \in Request
    BY <2>2, BusyJob DEF Shape
  <2>4. /\ job'[w].pc = "save" /\ job'[w].session = s /\ job'[w].request = job[w].request
        /\ \A v \in Level : v # w => job'[v] = job[v]
    BY <2>1, <1>c, GoesTo
  <2>5. /\ session'[s].trip = job[w].request.trip /\ session'[s] # None
        /\ \A r \in Session : r # s => session'[r] = session[r]
    <3>1. session'[s] = [trip |-> job[w].request.trip, amount |-> job[w].request.amount]
      BY <2>1, <1>c DEF Charges
    <3>2. session'[s] \in [trip : Trip, amount : Amount]
      BY <3>1, <2>3 DEF Request
    <3> QED
      BY <2>1, <3>1, <3>2, NoneAssumption, <1>c DEF Charges
  <2>6. OneAtATime'
    <3>1. \A t : PaymentsOf(t)' = PaymentsOf(t)
      BY <2>2 DEF PaymentsOf
    <3>2. \A v \in Level : job'[v].pc \in {"create", "save"} =>
            job[v].pc \in {"create", "save"} /\ job'[v].request = job[v].request
      BY <2>2, <2>4
    <3>3. \A v \in Level : job'[v].pc = "commit" => job'[v] = job[v]
      BY <2>4
    <3> QED
      BY <2>1, <3>1, <3>2, <3>3 DEF Guarded, OneAtATime
  <2>7. \A p \in payments : p.session \in Session /\ p.session # s
    BY <1>c, <2>1 DEF Guarded, Traced, Payment
  <2>8. \A v \in Level : v # w /\ job[v].pc \in {"save", "publish"} =>
          job[v].session \in Session /\ job[v].session # s
    BY <2>1 DEF Guarded, Traced, Shape, JobHasSession
  <2>9. Traced'
    BY <2>2, <2>4, <2>5, <2>7, <2>8 DEF Guarded, Traced
  <2> QED
    BY <2>6, <2>9 DEF Guarded
<1>3. ASSUME NEW w \in Level, CreateFails(w) PROVE Guarded'
  BY <1>3, <1>a DEF CreateFails
<1>4. ASSUME NEW w \in Level, Save(w) PROVE Guarded'
  <2> DEFINE row == [trip |-> job[w].request.trip, amount |-> job[w].request.amount,
                     session |-> job[w].session, status |-> "pending", fee |-> 0, payout |-> 0]
  <2>1. /\ job[w].pc = "save"
        /\ payments' = payments \union {row}
        /\ Goes(w, "publish", job[w].request, job[w].session)
        /\ UNCHANGED <<requests, session, told>>
    BY <1>4, <1>a DEF Save, stripe
  <2>3. /\ job'[w].pc = "publish" /\ job'[w].request = job[w].request
        /\ job'[w].session = job[w].session
        /\ \A v \in Level : v # w => job'[v] = job[v]
    BY <2>1, <1>c, GoesTo
  <2>4. row.trip = job[w].request.trip /\ row.session = job[w].session
    OBVIOUS
  <2> HIDE DEF row
  <2>5. \A p \in payments : p.trip # row.trip
    BY <2>1, <2>4 DEF Guarded, OneAtATime, PaymentsOf
  <2>6. \A v \in Level : v # w => job[v].pc \notin {"create", "save"}
    BY <2>1 DEF Guarded, OneAtATime
  <2>7. OneAtATime'
    <3>1. \A t : PaymentsOf(t) # {} => PaymentsOf(t)' # {}
      BY <2>1 DEF PaymentsOf
    <3>2. \A v \in Level : job'[v].pc = "commit" => job'[v] = job[v]
      BY <2>3
    <3>3. \A v \in Level : job'[v].pc \notin {"create", "save"}
      BY <2>3, <2>6
    <3> QED
      BY <2>1, <3>1, <3>2, <3>3 DEF Guarded, OneAtATime
  <2>8. Traced'
    BY <2>1, <2>3, <2>4, <2>5 DEF Guarded, Traced
  <2> QED
    BY <2>7, <2>8 DEF Guarded
<1>5. ASSUME NEW w \in Level, PublishSession(w) PROVE Guarded'
  <2>1. /\ job[w].pc = "publish"
        /\ told' \in {told, told \union {job[w].session}}
        /\ Goes(w, "commit", job[w].request, None)
        /\ UNCHANGED <<payments, session>>
    BY <1>5 DEF PublishSession, Succeeds, Fails
  <2>2. PaymentsOf(job[w].request.trip) # {}
    BY <2>1, SavedRow DEF Guarded
  <2>3. /\ job'[w].pc = "commit" /\ job'[w].request = job[w].request
        /\ \A v \in Level : v # w => job'[v] = job[v]
    BY <2>1, <1>c, GoesTo
  <2>4. \A m \in requests' : m \in requests \/ m.trip = job[w].request.trip
    <3>1. job[w].request \in Request
      BY <2>1, BusyJob DEF Shape
    <3>2. [job[w].request EXCEPT !.tries = @ + 1].trip = job[w].request.trip
      BY <3>1 DEF Request
    <3> QED
      BY <1>5, <3>2 DEF PublishSession, Succeeds, Fails
  <2>5. \A s \in told' : s \in told \/ \E p \in payments : p.session = s
    BY <2>1 DEF Guarded, Traced
  <2>6. \A m \in requests' : m.tries = 0 \/ PaymentsOf(m.trip) # {}
    BY <1>d, <2>2, <2>4
  <2> QED
    BY <2>1, <2>2, <2>3, <2>5, <2>6, GuardedFrame
<1>15. ASSUME NEW w \in Level, Commit(w) PROVE Guarded'
  <2>1. /\ \A m \in requests' : m \in requests \/ m = job[w].request
        /\ UNCHANGED <<payments, session, told>>
        /\ PaymentsOf(job[w].request.trip) # {}
    BY <1>15 DEF Commit, stripe, Guarded, OneAtATime
  <2>2. \A v \in Level : job'[v] \in {job[v], Idle}
    BY <1>c, <1>15 DEF Commit
  <2> QED
    BY <1>d, <2>1, <2>2, GuardedFrame
<1>6. CASE Crash
  <2>1. ASSUME NEW w \in Level, job[w] # Idle
        PROVE  job[w].request.tries = 0 \/ PaymentsOf(job[w].request.trip) # {}
    <3>1. job[w].pc \in {"create", "save", "publish", "commit"}
      BY <1>c, <2>1 DEF Job
    <3> QED
      BY <3>1, SavedRow DEF Guarded, OneAtATime
  <2>2. \A m \in requests' : m.tries = 0 \/ PaymentsOf(m.trip) # {}
    BY <1>6, <1>d, <2>1 DEF Crash
  <2>3. \A w \in Level : job'[w] \in {job[w], Idle}
    BY <1>6 DEF Crash
  <2> QED
    BY <1>6, <2>2, <2>3, GuardedFrame DEF Crash, stripe
<1>7. ASSUME NEW s \in Session, handleSuccess(s) PROVE Guarded'
  <2>1. MarkSuccess(s) /\ UNCHANGED <<requests, job, session, told>>
    BY <1>7, <1>a DEF handleSuccess, stripe
  <2> DEFINE Marks(p) == IF p.session = s THEN Booked(p) ELSE p
  <2>2. payments' = {Marks(p) : p \in payments}
    BY <2>1 DEF MarkSuccess
  <2>3. \A p \in payments : Marks(p).session = p.session /\ Marks(p).trip = p.trip
    BY <1>c DEF Booked, Payment
  <2> HIDE DEF Marks
  <2>4. \A t : PaymentsOf(t)' = {} <=> PaymentsOf(t) = {}
    BY <2>2, <2>3 DEF PaymentsOf
  <2>5. OneAtATime'
    BY <2>1, <2>4 DEF Guarded, OneAtATime
  <2>6. Traced'
    BY <2>1, <2>2, <2>3 DEF Guarded, Traced
  <2> QED
    BY <2>5, <2>6 DEF Guarded
<1>8. ASSUME UNCHANGED <<requests, job, payments, session, told>> PROVE Guarded'
  BY <1>8, <1>d, GuardedFrame
<1>9. ASSUME NEW h \in Delivery, Serving(h) PROVE Guarded'
  BY <1>8, <1>9 DEF Serving, Receive, PublishSuccess, service, stripe
<1>11. ASSUME NEW s \in Session, Expire(s) \/ Pay(s) PROVE Guarded'
  BY <1>8, <1>11 DEF Expire, Pay, service, stripe
<1>12. ASSUME NEW t \in Trip, NEW a \in Amount, Ask(t, a) PROVE Guarded'
  <2>1. \A m \in requests' : m.tries = 0 \/ PaymentsOf(m.trip) # {}
    BY <1>12, <1>d DEF Ask
  <2> QED
    BY <1>12, <2>1, GuardedFrame DEF Ask, stripe
<1>14. CASE GatewayStops \/ UNCHANGED vars
  BY <1>8, <1>14 DEF GatewayStops, vars, service, stripe
<1> QED
  BY <1>1, <1>2, <1>3, <1>4, <1>5, <1>6, <1>7, <1>9, <1>11, <1>12, <1>14, <1>15
     DEF Next, Working

\* As long as Stripe and the service's statements do not fail, the rider is told of
\* at most one session per trip, however often requests are repeated or
\* redelivered, publishes fail with or without effect, and the service restarts
\* between any two steps (handleCreateSession's guard).
THEOREM OneCheckout ==
  ASSUME RowsAreSaved
  PROVE  Spec => []OneCheckoutPerTrip
<1>1. Spec => []Shape
  BY ShapeInit, ShapeStep, PTL DEF Spec
<1>2. Shape /\ Guarded /\ [Next]_vars => Guarded'
  BY GuardedStep
<1>3. Guarded => OneCheckoutPerTrip
  BY DEF Guarded, Traced, OneCheckoutPerTrip
<1> QED
  BY <1>1, <1>2, <1>3, GuardedInit, PTL DEF Spec

-----------------------------------------------------------------------------
(* The same when Stripe and the broker fail and requests are retried *)

\* A payment is requested once, and a message comes again only when it failed.
AskedOnce == Faults \intersect {"db", "replay", "crash"} = {} /\ MaxRequests <= 1

\* The payment of a trip is asked for once, and the request is either waiting,
\* with one consumer, or over; the trip of a session the rider was told of has a
\* payment to show, so that a request that still waits does nothing.
Waiting(t) == {m \in requests : m.trip = t}
Handling(t) ==
  {w \in Level : job[w].pc \in {"create", "save", "publish"} /\ job[w].request.trip = t}
ToldOf(t) == {s \in told : session[s].trip = t}

One(t) ==
  /\ \A m, n \in Waiting(t) : m = n
  /\ \A v, w \in Handling(t) : v = w
  /\ \A r, s \in ToldOf(t) : r = s
  /\ Handling(t) # {} => Waiting(t) = {} /\ ToldOf(t) = {}
  /\ ToldOf(t) # {} => PaymentsOf(t) # {}
  /\ asked[t] = 0 => Waiting(t) = {} /\ Handling(t) = {} /\ ToldOf(t) = {}

\* Sessions that are saved or told are of the trip the request was for.
Made ==
  /\ \A w \in Level : job[w].pc \in {"save", "publish"} =>
       session[job[w].session] # None /\ session[job[w].session].trip = job[w].request.trip
  /\ \A w \in Level : job[w].pc = "publish" => PaymentsOf(job[w].request.trip) # {}
  /\ \A s \in told : session[s] # None

LoneInv == Made /\ \A t \in Trip : One(t)

\* A trip that is none of a step's business.
LEMMA OneStays ==
  ASSUME NEW t, One(t), Waiting(t)' \subseteq Waiting(t), Handling(t)' \subseteq Handling(t),
         ToldOf(t)' = ToldOf(t), asked' = asked, PaymentsOf(t) # {} => PaymentsOf(t)' # {}
  PROVE  One(t)'
BY DEF One

\* Its one consumer is over with a request.
LEMMA OneEnds ==
  ASSUME NEW t, One(t), NEW w \in Handling(t), Handling(t)' = Handling(t) \ {w},
         \A m, n \in Waiting(t)' : m = n, \A r, s \in ToldOf(t)' : r = s,
         ToldOf(t)' # {} => PaymentsOf(t)' # {}, asked' = asked
  PROVE  One(t)'
<1>1. Handling(t)' = {} /\ asked[t] # 0
  BY DEF One
<1> QED
  BY <1>1 DEF One

\* Consumers that go on have the sessions they had.
LEMMA MadeStays ==
  ASSUME Made, UNCHANGED <<session, told>>,
         \A t : PaymentsOf(t) # {} => PaymentsOf(t)' # {},
         \A w \in Level : job'[w].pc \in {"save", "publish"} => job'[w] = job[w]
  PROVE  Made'
BY DEF Made

LEMMA LoneEnds ==
  ASSUME Shape, LoneInv, AskedOnce, NEW w \in Level, job[w].pc \in {"create", "publish"},
         Succeeds(w) \/ Fails(w), UNCHANGED <<asked, payments>>,
         told' \in {told, told \union {job[w].session}}, job[w].pc = "create" => told' = told,
         \A s \in Session : session[s] # None => session'[s] = session[s]
  PROVE  LoneInv'
<1> DEFINE trip == job[w].request.trip
<1>1. /\ job'[w].pc = "commit"
      /\ \A v \in Level : v # w => job'[v] = job[v]
  BY GoesTo DEF Succeeds, Fails, Shape
<1>2. PICK c : c.trip = trip /\ requests \subseteq requests' /\ requests' \subseteq requests \union {c}
  <2>1. job[w].request \in Request
    BY BusyJob DEF Shape
  <2>2. [job[w].request EXCEPT !.tries = @ + 1].trip = trip
    BY <2>1 DEF Request
  <2> QED
    BY <2>2 DEF Succeeds, Fails
<1>3. told \subseteq Session /\ \A t : PaymentsOf(t)' = PaymentsOf(t)
  BY DEF Shape, TypeOK, PaymentsOf
<1>4. job[w].pc = "publish" =>
        /\ job[w].session \in Session /\ session[job[w].session] # None
        /\ session[job[w].session].trip = trip /\ PaymentsOf(trip) # {}
  BY DEF Shape, JobHasSession, LoneInv, Made
<1>5. \A s \in told : session[s] # None /\ session'[s] = session[s]
  BY <1>3 DEF LoneInv, Made
<1>6. \A s \in told' \ told :
        /\ job[w].pc = "publish" /\ s = job[w].session
        /\ session'[s] # None /\ session'[s].trip = trip
  BY <1>4
<1>7. Made'
  <2>1. \A v \in Level : job'[v].pc \in {"save", "publish"} =>
          job'[v] = job[v] /\ job[v].session \in Session
    BY <1>1 DEF Shape, JobHasSession
  <2> QED
    BY <1>3, <1>5, <1>6, <2>1 DEF LoneInv, Made
<1>8. \A t : Handling(t)' = Handling(t) \ {w}
  BY <1>1 DEF Handling
<1>9. ASSUME NEW t \in Trip, t # trip PROVE One(t)'
  <2>1. Waiting(t)' = Waiting(t)
    BY <1>2, <1>9 DEF Waiting
  <2>2. ToldOf(t)' = ToldOf(t)
    BY <1>5, <1>6, <1>9 DEF ToldOf
  <2> QED
    BY <1>3, <1>8, <2>1, <2>2, OneStays DEF LoneInv
<1>10. ASSUME NEW t \in Trip, t = trip PROVE One(t)'
  <2>1. w \in Handling(t) /\ One(t)
    BY <1>10 DEF Handling, LoneInv
  <2>2. Waiting(t) = {} /\ ToldOf(t) = {}
    BY <2>1 DEF One
  <2>3. Waiting(t)' \subseteq {c}
    BY <1>2, <2>2 DEF Waiting
  <2>4. \A s \in ToldOf(t)' : s = job[w].session /\ PaymentsOf(t)' # {}
    <3> SUFFICES ASSUME NEW s \in told', session'[s].trip = t
                 PROVE  s = job[w].session /\ PaymentsOf(t)' # {}
      BY DEF ToldOf
    <3>1. s \notin told
      BY <1>5, <2>2 DEF ToldOf
    <3> QED
      BY <1>3, <1>4, <1>6, <1>10, <3>1
  <2> QED
    BY <1>8, <2>1, <2>3, <2>4, OneEnds
<1> QED
  BY <1>7, <1>9, <1>10 DEF LoneInv

\* A consumer goes on with the request it has.
LEMMA LoneGoesOn ==
  ASSUME Shape, LoneInv, NEW w \in Level, NEW pc, NEW s \in Session,
         \/ job[w].pc = "create" /\ pc = "save" /\ session[s] = None
         \/ job[w].pc = "save" /\ pc = "publish" /\ s = job[w].session
                               /\ \E p \in payments' : p.trip = job[w].request.trip,
         Goes(w, pc, job[w].request, s), session'[s] # None,
         session'[s].trip = job[w].request.trip,
         \A r \in Session : r # s => session'[r] = session[r],
         session[s] # None => session'[s] = session[s],
         UNCHANGED <<requests, asked, told>>,
         \A t : PaymentsOf(t) # {} => PaymentsOf(t)' # {}
  PROVE  LoneInv'
<1>1. /\ job'[w].pc = pc /\ job'[w].request = job[w].request /\ job'[w].session = s
      /\ \A v \in Level : v # w => job'[v] = job[v]
  BY GoesTo DEF Shape
<1>2. \A r \in told : r \in Session /\ session'[r] = session[r]
  BY DEF Shape, TypeOK, LoneInv, Made
<1>3. \A v \in Level : v # w /\ job[v].pc \in {"save", "publish"} =>
        session'[job[v].session] = session[job[v].session]
  BY DEF Shape, JobHasSession, LoneInv, Made
<1>4. Made'
  BY <1>1, <1>2, <1>3 DEF LoneInv, Made, PaymentsOf
<1>5. \A t : Handling(t)' = Handling(t) /\ Waiting(t)' = Waiting(t) /\ ToldOf(t)' = ToldOf(t)
  BY <1>1, <1>2 DEF Handling, Waiting, ToldOf
<1> QED
  BY <1>4, <1>5, OneStays DEF LoneInv

LEMMA LoneCreates ==
  ASSUME Shape, LoneInv, AskedOnce, NEW w \in Level, CreatePaymentSession(w)
  PROVE  LoneInv'
<1>1. PICK s \in Session :
        /\ session[s] = None
        /\ Charges(s, job[w].request)
        /\ \/ Goes(w, "save", job[w].request, s) /\ requests' = requests
           \/ Fails(w)
  BY DEF CreatePaymentSession
<1>2. job[w].pc = "create" /\ UNCHANGED <<told, asked, payments>>
  BY DEF CreatePaymentSession
<1>3. job[w].request \in Request
  BY <1>2, BusyJob DEF Shape
<1>4. /\ session'[s].trip = job[w].request.trip /\ session'[s] # None
      /\ \A r \in Session : r # s => session'[r] = session[r]
  <2>1. session'[s] = [trip |-> job[w].request.trip, amount |-> job[w].request.amount]
    BY <1>1 DEF Charges, Shape, TypeOK
  <2>2. session'[s] \in [trip : Trip, amount : Amount]
    BY <1>3, <2>1 DEF Request
  <2> QED
    BY <1>1, <2>1, <2>2, NoneAssumption DEF Charges, Shape, TypeOK
<1>5. CASE Fails(w)
  BY <1>1, <1>2, <1>4, <1>5, LoneEnds
<1>6. CASE Goes(w, "save", job[w].request, s) /\ requests' = requests
  <2>1. \A t : PaymentsOf(t)' = PaymentsOf(t)
    BY <1>2 DEF PaymentsOf
  <2> QED
    BY <1>1, <1>2, <1>4, <1>6, <2>1, LoneGoesOn
<1> QED
  BY <1>1, <1>5, <1>6

LEMMA LoneSaves ==
  ASSUME Shape, LoneInv, AskedOnce, NEW w \in Level, Save(w)
  PROVE  LoneInv'
<1>1. /\ job[w].pc = "save" /\ Goes(w, "publish", job[w].request, job[w].session)
      /\ UNCHANGED <<requests, asked, session, told>>
  BY DEF Save, stripe
<1>2. PICK row : row.trip = job[w].request.trip /\ payments' = payments \union {row}
  BY DEF Save, AskedOnce
<1>3. \A t : PaymentsOf(t) \subseteq PaymentsOf(t)'
  BY <1>2 DEF PaymentsOf
<1>5. \E p \in payments' : p.trip = job[w].request.trip
  BY <1>2
<1>4. job[w].session \in Session /\ session[job[w].session] # None
      /\ session[job[w].session].trip = job[w].request.trip
  BY <1>1 DEF Shape, JobHasSession, LoneInv, Made
<1> QED
  BY <1>1, <1>3, <1>4, <1>5, LoneGoesOn

LEMMA LoneStarts ==
  ASSUME Shape, LoneInv, AskedOnce, NEW w \in Level, NEW m \in requests,
         handleCreateSession(w, m)
  PROVE  LoneInv'
<1>1. /\ job[w] = Idle /\ requests' = requests \ {m} /\ m.trip \in Trip
      /\ UNCHANGED <<asked, session, told, payments>>
  BY DEF handleCreateSession, stripe, Shape, TypeOK, Request
<1>2. \A t : /\ ToldOf(t)' = ToldOf(t) /\ Waiting(t)' = Waiting(t) \ {m}
             /\ PaymentsOf(t)' = PaymentsOf(t)
  BY <1>1 DEF ToldOf, Waiting, PaymentsOf
<1>3. PICK pc \in {"commit", "create"} :
        /\ Goes(w, pc, m, None)
        /\ pc = "create" => PaymentsOf(m.trip) = {}
  BY DEF handleCreateSession, AskedOnce
<1>4. /\ job'[w].pc = pc /\ job'[w].request = m
      /\ \A v \in Level : v # w => job'[v] = job[v]
  BY <1>3, GoesTo DEF Shape
<1>5. Made'
  BY <1>1, <1>2, <1>3, <1>4, MadeStays DEF LoneInv
<1>6. \A t : Handling(t)' \subseteq Handling(t) \union {w}
  BY <1>4 DEF Handling
<1>7. \A t : t # m.trip \/ pc = "commit" => Handling(t)' \subseteq Handling(t)
  BY <1>1, <1>4 DEF Handling
<1>8. ASSUME NEW t \in Trip, t # m.trip \/ pc = "commit" PROVE One(t)'
  BY <1>1, <1>2, <1>7, <1>8, OneStays DEF LoneInv
<1>9. ASSUME NEW t \in Trip, t = m.trip, pc = "create" PROVE One(t)'
  <2>1. m \in Waiting(t) /\ One(t)
    BY <1>9 DEF Waiting, LoneInv
  <2>2. Handling(t) = {} /\ ToldOf(t) = {} /\ Waiting(t)' = {} /\ asked[t] # 0
    BY <1>2, <1>3, <1>9, <2>1 DEF One
  <2>3. Handling(t)' \subseteq {w}
    BY <1>6, <2>2
  <2> QED
    BY <1>1, <1>2, <2>2, <2>3 DEF One
<1> QED
  BY <1>3, <1>5, <1>8, <1>9 DEF LoneInv

\* A step that touches neither requests, jobs nor sessions.
LEMMA LoneFrame ==
  ASSUME LoneInv, UNCHANGED <<requests, asked, job, session, told>>,
         \A t : PaymentsOf(t) # {} => PaymentsOf(t)' # {}
  PROVE  LoneInv'
<1>1. \A t : Handling(t)' = Handling(t) /\ Waiting(t)' = Waiting(t) /\ ToldOf(t)' = ToldOf(t)
  BY DEF Handling, Waiting, ToldOf
<1>2. Made'
  BY MadeStays DEF LoneInv
<1> QED
  BY <1>1, <1>2, OneStays DEF LoneInv

LEMMA LoneStep ==
  ASSUME Shape, LoneInv, AskedOnce, [Next]_vars
  PROVE  LoneInv'
<1>b. Idle.pc = "idle"
  BY DEF Idle
<1>0. ASSUME UNCHANGED <<requests, asked, job, session, told, payments>> PROVE LoneInv'
  BY <1>0, LoneFrame DEF PaymentsOf
<1>1. ASSUME NEW w \in Level, NEW m \in requests, handleCreateSession(w, m) PROVE LoneInv'
  BY <1>1, LoneStarts
<1>2. ASSUME NEW w \in Level, CreateFails(w) PROVE LoneInv'
  BY <1>2, LoneEnds DEF CreateFails, stripe
<1>3. ASSUME NEW w \in Level, PublishSession(w) PROVE LoneInv'
  BY <1>3, LoneEnds DEF PublishSession
<1>4. ASSUME NEW w \in Level, Commit(w) PROVE LoneInv'
  <2>1. /\ job[w].pc = "commit" /\ UNCHANGED <<requests, asked, session, told, payments>>
        /\ \A v \in Level : job'[v] = IF v = w THEN Idle ELSE job[v]
    BY <1>4 DEF Commit, AskedOnce, stripe, Shape, TypeOK
  <2>2. \A t : /\ Handling(t)' = Handling(t) /\ Waiting(t)' = Waiting(t)
               /\ ToldOf(t)' = ToldOf(t) /\ PaymentsOf(t)' = PaymentsOf(t)
    BY <2>1, <1>b DEF Handling, Waiting, ToldOf, PaymentsOf
  <2>3. Made'
    BY <2>1, <2>2, <1>b, MadeStays DEF LoneInv
  <2> QED
    BY <2>1, <2>2, <2>3, OneStays DEF LoneInv
<1>5. ASSUME NEW t \in Trip, NEW a \in Amount, Ask(t, a) PROVE LoneInv'
  <2> DEFINE m == [trip |-> t, amount |-> a, tries |-> 0]
  <2>1. /\ asked[t] < MaxRequests /\ asked' = [asked EXCEPT ![t] = @ + 1]
        /\ requests' = requests \union {m} /\ UNCHANGED <<job, session, told, payments>>
    BY <1>5 DEF Ask, stripe
  <2>2. m.trip = t
    OBVIOUS
  <2> HIDE DEF m
  <2>3. /\ \A u : PaymentsOf(u)' = PaymentsOf(u) /\ Handling(u)' = Handling(u)
        /\ \A u : ToldOf(u)' = ToldOf(u)
    BY <2>1 DEF PaymentsOf, Handling, ToldOf
  <2>4. asked[t] = 0 /\ asked'[t] = 1 /\ \A u \in Trip \ {t} : asked'[u] = asked[u]
    BY <2>1, BoundsAssumption DEF AskedOnce, Shape, TypeOK
  <2>5. Made'
    BY <2>1, <2>3, MadeStays DEF LoneInv
  <2>6. ASSUME NEW u \in Trip PROVE One(u)'
    <3>1. Waiting(u)' = Waiting(u) \union (IF u = t THEN {m} ELSE {})
      BY <2>1, <2>2 DEF Waiting
    <3> QED
      BY <2>3, <2>4, <3>1 DEF LoneInv, One
  <2> QED
    BY <2>5, <2>6 DEF LoneInv
<1>6. ASSUME NEW s \in Session, handleSuccess(s) PROVE LoneInv'
  <2>1. MarkSuccess(s) /\ UNCHANGED <<requests, asked, job, session, told>>
    BY <1>6 DEF handleSuccess, stripe, AskedOnce
  <2>2. \A p \in payments : Booked(p).trip = p.trip
    BY DEF Booked, Payment, Shape, TypeOK
  <2>3. ASSUME NEW t, PaymentsOf(t) # {} PROVE PaymentsOf(t)' # {}
    <3>1. PICK p \in payments : p.trip = t
      BY <2>3 DEF PaymentsOf
    <3>2. PICK q \in payments' : q = IF p.session = s THEN Booked(p) ELSE p
      BY <2>1 DEF MarkSuccess
    <3> QED
      BY <2>2, <3>1, <3>2 DEF PaymentsOf
  <2> QED
    BY <2>1, <2>3, LoneFrame
<1>7. ASSUME NEW s \in Session, Expire(s) \/ Pay(s) PROVE LoneInv'
  BY <1>0, <1>7 DEF Expire, Pay, service, stripe
<1>8. ASSUME NEW h \in Delivery, Serving(h) PROVE LoneInv'
  BY <1>0, <1>8 DEF Serving, Receive, PublishSuccess, service, stripe
<1>9. CASE UNCHANGED vars
  BY <1>0, <1>9 DEF vars, service, stripe
<1>10. ~Crash /\ ~GatewayStops
  BY DEF Crash, GatewayStops, AskedOnce
<1> QED
  BY <1>1, <1>2, <1>3, <1>4, <1>5, <1>6, <1>7, <1>8, <1>9, <1>10, LoneCreates, LoneSaves
  DEF Next, Working

\* As long as a payment is requested once, its statements do not fail and nothing
\* but a failure makes a message come again, the rider is told of at most one session
\* per trip although calls to Stripe fail after the session was made, publishes fail
\* after they took effect, and the request goes through any number of retry topics:
\* it is in one place at a time, and a retry after the publish finds the row
\* (handleCreateSession).
THEOREM OneCheckoutWhenRetried ==
  ASSUME AskedOnce
  PROVE  Spec => []OneCheckoutPerTrip
<1>1. Init => LoneInv
  BY DEF Init, LoneInv, Made, One, Waiting, Handling, ToldOf, Idle
<1>2. Shape /\ LoneInv /\ [Next]_vars => LoneInv'
  BY LoneStep
<1>3. Shape /\ LoneInv => OneCheckoutPerTrip
  <2> SUFFICES ASSUME Shape, LoneInv, NEW r \in told, NEW s \in told,
                      session[r].trip = session[s].trip
               PROVE  r = s
    BY DEF OneCheckoutPerTrip
  <2>1. session[r] \in Price
    BY DEF LoneInv, Made, Shape, TypeOK
  <2> QED
    BY <2>1 DEF LoneInv, One, ToldOf, Price
<1> QED
  BY <1>1, <1>2, <1>3, ShapeInit, ShapeStep, PTL DEF Spec

-----------------------------------------------------------------------------
(* The webhook does not lose a payment *)

\* A call that has begun publishes.
CallsEnd == Faults \intersect {"broker", "crash"} = {}

Served(s) == \E h \in Delivery : hook[h] = s

\* Who holds a key is published or will be.
PursuedInv == PaidIsPursued /\ \A s \in dedup : s \in published \/ Served(s)

LEMMA PursuedStep ==
  ASSUME CallsEnd, Shape, PursuedInv, [Next]_vars
  PROVE  PursuedInv'
<1>0. hook \in [Delivery -> Session \union {None}] /\ None \notin Session /\ paid \subseteq Session
      /\ dedup \subseteq Session
  BY NoneAssumption DEF Shape, TypeOK
<1>1. ASSUME UNCHANGED <<paid, unacked, published, hook>>, dedup' \subseteq dedup
      PROVE  PursuedInv'
  BY <1>1 DEF PursuedInv, PaidIsPursued, Served
<1>2. ASSUME NEW w \in Level, Working(w) \/ \E m \in requests : handleCreateSession(w, m)
      PROVE  PursuedInv'
  <2>1. UNCHANGED <<paid, unacked, published, hook, dedup>>
    BY <1>2 DEF Working, handleCreateSession, CreatePaymentSession, CreateFails, Save,
                PublishSession, Commit, stripe, gateway
  <2> QED
    BY <1>1, <2>1
<1>3. ASSUME NEW s \in Session, handleSuccess(s) \/ Expire(s) PROVE PursuedInv'
  BY <1>1, <1>3 DEF handleSuccess, Expire, stripe, gateway
<1>4. ASSUME NEW s \in Session, Pay(s) PROVE PursuedInv'
  BY <1>4 DEF Pay, PursuedInv, PaidIsPursued, Served
<1>5. ASSUME NEW h \in Delivery, NEW s \in Session, Receive(h, s) PROVE PursuedInv'
  <2>1. UNCHANGED <<paid, published>> /\ hook[h] = None
    BY <1>5 DEF Receive, stripe
  <2>2. CASE s \in dedup /\ unacked' = unacked \ {s} /\ UNCHANGED <<dedup, hook>>
    BY <2>1, <2>2 DEF PursuedInv, PaidIsPursued, Served
  <2>3. CASE /\ hook' = [hook EXCEPT ![h] = s] /\ UNCHANGED unacked
             /\ dedup' \subseteq dedup \union {s}
    <3>1. hook'[h] = s /\ \A g \in Delivery : g # h => hook'[g] = hook[g]
      BY <1>0, <2>3
    <3>2. Served(s)' /\ \A r \in Session : Served(r) => Served(r)'
      BY <1>0, <2>1, <3>1 DEF Served
    <3> QED
      BY <1>0, <2>1, <2>3, <3>2 DEF PursuedInv, PaidIsPursued, Served
  <2> QED
    BY <1>5, <2>2, <2>3 DEF Receive
<1>6. ASSUME NEW h \in Delivery, PublishSuccess(h) PROVE PursuedInv'
  <2>1. /\ published' = published \union {hook[h]} /\ unacked \subseteq unacked' \union {hook[h]}
        /\ hook' = [hook EXCEPT ![h] = None] /\ UNCHANGED <<paid, dedup>>
    BY <1>6 DEF PublishSuccess, CallsEnd, stripe
  <2>2. \A g \in Delivery : g # h => hook'[g] = hook[g]
    BY <1>0, <2>1
  <2>3. \A r \in Session : Served(r) => Served(r)' \/ r = hook[h]
    BY <2>2 DEF Served
  <2> QED
    BY <1>0, <2>1, <2>3 DEF PursuedInv, PaidIsPursued, Served
<1>7. ASSUME NEW t \in Trip, NEW a \in Amount, Ask(t, a) PROVE PursuedInv'
  BY <1>1, <1>7 DEF Ask, stripe, gateway
<1>8. CASE UNCHANGED vars
  BY <1>1, <1>8 DEF vars, stripe, gateway
<1>9. ~Crash /\ ~GatewayStops
  BY DEF Crash, GatewayStops, CallsEnd
<1> QED
  BY <1>2, <1>3, <1>4, <1>5, <1>6, <1>7, <1>8, <1>9 DEF Next, Serving

\* As long as publishes succeed and the processes stay, no payment is lost behind
\* its key: until its success is published Stripe calls again or a call will
\* publish it, although Redis fails, keys expire, answers are lost and any number
\* of calls overlap (handleStripeWebhook acknowledges a duplicate only of a call
\* that publishes).
THEOREM PaymentsArePursued ==
  ASSUME CallsEnd
  PROVE  Spec => []PaidIsPursued
<1>1. Init => PursuedInv
  BY DEF Init, PursuedInv, PaidIsPursued
<1>2. Shape /\ PursuedInv /\ [Next]_vars => PursuedInv'
  BY PursuedStep
<1>3. PursuedInv => PaidIsPursued
  BY DEF PursuedInv
<1> QED
  BY <1>1, <1>2, <1>3, ShapeInit, ShapeStep, PTL DEF Spec
=============================================================================

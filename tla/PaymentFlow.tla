------------------------------ MODULE PaymentFlow ------------------------------
(***************************************************************************)
(* From payment.cmd.create_session to a payment marked as paid: the        *)
(* payment service's two consumers and its table, the gateway's Stripe     *)
(* webhook with its deduplication key in Redis, and, as the environment,   *)
(* Stripe, the rider and the trip service that requests payments.          *)
(*                                                                         *)
(* Every statement, Stripe call, Redis command and publish is one step.    *)
(* The consumers of the topic and of its three retry topics run at the     *)
(* same time in the one replica; each handles one message at a time, and a *)
(* message whose handler fails goes to the next.                           *)
(***************************************************************************)
EXTENDS Integers, FiniteSets

CONSTANTS
  Trip,
  Session,     \* ids of Stripe checkout sessions; the bound on sessions made
  Amount,      \* prices in cents
  Delivery,    \* webhook calls the gateway may be serving at one time
  None,
  Faults,      \* what may go wrong
  MaxTries,    \* retry topics
  MaxRequests  \* bound on the requests for one trip

AllFaults ==
  {"stripe",  \* a call to Stripe fails, perhaps after the session was made
   "db",      \* a statement of the payment service fails
   "broker",  \* a publish fails, or takes effect and returns an error
   "replay",  \* a handled message comes again
   "crash",   \* the payment service or the gateway restarts
   "redis",   \* SET NX fails
   "expiry",  \* the deduplication key expires before Stripe's last retry
   "reply"}   \* the answer to a webhook call is lost

ASSUME NoneAssumption == None \notin Session \union [trip : Trip, amount : Amount]
ASSUME AmountAssumption == Amount \subseteq Nat
ASSUME FaultsAssumption == Faults \subseteq AllFaults
ASSUME BoundsAssumption == MaxTries \in Nat /\ MaxRequests \in Nat

VARIABLES
  \* payment service
  requests,  \* create_session messages to be handled, with their tries so far
  asked,     \* how often a payment was requested, per trip
  job,       \* what the consumer of each topic is doing
  payments,  \* the payments table
  successes, \* payment.event.success messages to be handled: the sessions
  dead,      \* those in the dead letter queue
  \* Stripe and the rider
  session,   \* the request a session was made for, or None
  told,      \* sessions whose URL was published to the rider
  paid,      \* sessions the rider has paid
  unacked,   \* paid sessions whose webhook Stripe will call again
  \* gateway
  dedup,     \* sessions with a deduplication key
  hook,      \* the session a webhook call has claimed, or None
  published  \* sessions whose success was published

service == <<requests, asked, job, payments, dead>>
stripe == <<session, told, paid>>
gateway == <<unacked, dedup, hook, published>>
vars == <<service, successes, stripe, gateway>>

-----------------------------------------------------------------------------

\* The topic and its retry topics.
Level == 0 .. MaxTries

Price == [trip : Trip, amount : Amount]
Request == [trip : Trip, amount : Amount, tries : Level]
Payment == [trip : Trip, amount : Amount, session : Session,
            status : {"pending", "success"}, fee : Nat, payout : Nat]
Idle == [pc |-> "idle"]
Job == {Idle} \union [pc : {"create", "save", "publish", "commit"}, request : Request,
                      session : Session \union {None}]

TypeOK ==
  /\ requests \subseteq Request
  /\ asked \in [Trip -> Nat]
  /\ job \in [Level -> Job]
  /\ payments \subseteq Payment
  /\ successes \subseteq Session
  /\ dead \subseteq Session
  /\ session \in [Session -> Price \union {None}]
  /\ told \subseteq Session
  /\ paid \subseteq Session
  /\ unacked \subseteq Session
  /\ dedup \subseteq Session
  /\ hook \in [Delivery -> Session \union {None}]
  /\ published \subseteq Session

Init ==
  /\ requests = {} /\ payments = {} /\ successes = {} /\ dead = {}
  /\ asked = [t \in Trip |-> 0]
  /\ job = [w \in Level |-> Idle]
  /\ session = [s \in Session |-> None]
  /\ told = {} /\ paid = {} /\ unacked = {}
  /\ dedup = {} /\ published = {}
  /\ hook = [h \in Delivery |-> None]

-----------------------------------------------------------------------------
(* trip_consumer.go *)

PaymentsOf(t) == {p \in payments : p.trip = t}

\* platformFeePercent: shares in whole cents, rounded down by Postgres.
Fee(amount) == (amount * 20) \div 100

Payout(amount) == (amount * (100 - 20)) \div 100

Goes(w, pc, m, s) == job' = [job EXCEPT ![w] = [pc |-> pc, request |-> m, session |-> s]]

\* The handler is over; what is left is the commit of the offset.
Succeeds(w) == Goes(w, "commit", job[w].request, None) /\ UNCHANGED requests

\* To the next retry topic, and to the dead letters after the last.
Fails(w) ==
  LET m == job[w].request IN
  /\ Goes(w, "commit", m, None)
  /\ requests' = requests \union
                   (IF m.tries < MaxTries THEN {[m EXCEPT !.tries = @ + 1]} ELSE {})

\* The offset is committed, or the message comes again.
Commit(w) ==
  /\ job[w].pc = "commit"
  /\ job' = [job EXCEPT ![w] = Idle]
  /\ \/ UNCHANGED requests
     \/ "replay" \in Faults /\ requests' = requests \union {job[w].request}
  /\ UNCHANGED <<asked, dead, payments, successes, stripe, gateway>>

\* Mutant: every request gets a session.
handleUnguarded(w, m) ==
  /\ job[w] = Idle
  /\ m.tries = w
  /\ requests' = requests \ {m}
  /\ Goes(w, "create", m, None)
  /\ UNCHANGED <<asked, dead, payments, successes, stripe, gateway>>

\* A trip with a payment is done with, also when the publish of its session has
\* failed; a failed query counts as none found.
handleCreateSession(w, m) ==
  /\ job[w] = Idle
  /\ m.tries = w
  /\ requests' = requests \ {m}
  /\ \/ PaymentsOf(m.trip) # {} /\ Goes(w, "commit", m, None)
     \/ (PaymentsOf(m.trip) = {} \/ "db" \in Faults) /\ Goes(w, "create", m, None)
  /\ UNCHANGED <<asked, dead, payments, successes, stripe, gateway>>

Charges(s, m) == session' = [session EXCEPT ![s] = [trip |-> m.trip, amount |-> m.amount]]

\* Mutant: the URL is given to the rider before the payment is saved.
CreateAndTell(w) ==
  /\ job[w].pc = "create"
  /\ \E s \in Session :
       /\ session[s] = None
       /\ Charges(s, job[w].request)
       /\ told' = told \union {s}
       /\ Goes(w, "save", job[w].request, s)
  /\ UNCHANGED <<requests, asked, dead, payments, successes, paid, gateway>>

\* Each call makes a session of its own: no idempotency key is sent.
CreatePaymentSession(w) ==
  /\ job[w].pc = "create"
  /\ \E s \in Session :
       /\ session[s] = None
       /\ Charges(s, job[w].request)
       /\ \/ Goes(w, "save", job[w].request, s) /\ UNCHANGED requests
          \/ "stripe" \in Faults /\ Fails(w)
  /\ UNCHANGED <<asked, dead, payments, successes, told, paid, gateway>>

CreateFails(w) ==
  /\ job[w].pc = "create"
  /\ "stripe" \in Faults
  /\ Fails(w)
  /\ UNCHANGED <<asked, dead, payments, successes, stripe, gateway>>

\* A failed INSERT is only logged.
Save(w) ==
  /\ job[w].pc = "save"
  /\ LET m == job[w].request
         row == [trip |-> m.trip, amount |-> m.amount, session |-> job[w].session,
                 status |-> "pending", fee |-> 0, payout |-> 0]
     IN payments' \in {payments \union {row}} \union
                      (IF "db" \in Faults THEN {payments} ELSE {})
  /\ Goes(w, "publish", job[w].request, job[w].session)
  /\ UNCHANGED <<requests, asked, dead, successes, stripe, gateway>>

\* payment.event.session_created carries the URL to the rider; a publish that
\* returned an error may have taken effect.
PublishSession(w) ==
  /\ job[w].pc = "publish"
  /\ \/ told' = told \union {job[w].session} /\ Succeeds(w)
     \/ /\ "broker" \in Faults
        /\ told' \in {told, told \union {job[w].session}}
        /\ Fails(w)
  /\ UNCHANGED <<asked, dead, payments, successes, session, paid, gateway>>

\* The payment service restarts; the messages it has not committed come again.
Crash ==
  /\ "crash" \in Faults
  /\ requests' = requests \union {job[w].request : w \in {v \in Level : job[v] # Idle}}
  /\ job' = [w \in Level |-> Idle]
  /\ UNCHANGED <<asked, dead, payments, successes, stripe, gateway>>

-----------------------------------------------------------------------------
(* payment_consumer.go *)

Booked(p) == [p EXCEPT !.status = "success", !.fee = Fee(p.amount), !.payout = Payout(p.amount)]

\* Mutant: WHERE trip_id = ... in place of the session.
MarkSuccessOfTrip(s) ==
  payments' = {IF p.trip = session[s].trip THEN Booked(p) ELSE p : p \in payments}

\* An UPDATE that finds no row is no error.
MarkSuccess(s) == payments' = {IF p.session = s THEN Booked(p) ELSE p : p \in payments}

\* A message whose UPDATE fails comes again, or is dead-lettered in the end; one
\* that was handled and is not committed comes again.
handleSuccess(s) ==
  /\ s \in successes
  /\ \/ MarkSuccess(s) /\ UNCHANGED dead
     \/ "db" \in Faults /\ dead' = dead \union {s} /\ UNCHANGED payments
  /\ \/ successes' = successes \ {s}
     \/ Faults \intersect {"replay", "crash"} # {} /\ UNCHANGED successes
  /\ UNCHANGED <<requests, asked, job, stripe, gateway>>

-----------------------------------------------------------------------------
(* handleStripeWebhook *)

\* Mutant: the key is set only after the publish.
ReceiveUnclaimed(h, s) ==
  /\ hook[h] = None
  /\ s \in unacked
  /\ IF s \in published THEN unacked' = unacked \ {s} /\ UNCHANGED hook
     ELSE hook' = [hook EXCEPT ![h] = s] /\ UNCHANGED unacked
  /\ UNCHANGED <<service, successes, stripe, dedup, published>>

\* Mutant: without an answer from Redis the delivery is taken for a duplicate.
ReceiveFailClosed(h, s) ==
  /\ hook[h] = None
  /\ s \in unacked
  /\ \/ /\ s \notin dedup
        /\ dedup' = dedup \union {s}
        /\ hook' = [hook EXCEPT ![h] = s]
        /\ UNCHANGED unacked
     \/ /\ s \in dedup \/ "redis" \in Faults
        /\ unacked' = unacked \ {s}
        /\ UNCHANGED <<dedup, hook>>
  /\ UNCHANGED <<service, successes, stripe, published>>

\* SET NX: a second delivery is acknowledged at once; without an answer from
\* Redis the delivery goes on unclaimed.
Receive(h, s) ==
  /\ hook[h] = None
  /\ s \in unacked
  /\ \/ s \in dedup /\ unacked' = unacked \ {s} /\ UNCHANGED <<dedup, hook>>
     \/ /\ s \notin dedup
        /\ dedup' = dedup \union {s}
        /\ hook' = [hook EXCEPT ![h] = s]
        /\ UNCHANGED unacked
     \/ "redis" \in Faults /\ hook' = [hook EXCEPT ![h] = s] /\ UNCHANGED <<dedup, unacked>>
  /\ UNCHANGED <<service, successes, stripe, published>>

\* A failed publish is answered with an error, so Stripe calls again; it may have
\* taken effect all the same.
PublishSuccess(h) ==
  /\ hook[h] # None
  /\ \/ /\ successes' = successes \union {hook[h]}
        /\ published' = published \union {hook[h]}
        /\ unacked' \in {unacked \ {hook[h]}} \union
                        (IF Faults \intersect {"reply", "broker"} # {} THEN {unacked} ELSE {})
     \/ "broker" \in Faults /\ UNCHANGED <<successes, published, unacked>>
  /\ hook' = [hook EXCEPT ![h] = None]
  /\ UNCHANGED <<service, stripe, dedup>>

GatewayStops ==
  /\ "crash" \in Faults
  /\ hook' = [h \in Delivery |-> None]
  /\ UNCHANGED <<service, successes, stripe, unacked, dedup, published>>

\* webhookDedupTTL is a day, Stripe tries longer.
Expire(s) ==
  /\ "expiry" \in Faults
  /\ s \in dedup
  /\ dedup' = dedup \ {s}
  /\ UNCHANGED <<service, successes, stripe, unacked, hook, published>>

-----------------------------------------------------------------------------
(* The environment *)

\* The trip service asks again when it handles a completion twice.
Ask(t, a) ==
  /\ asked[t] < MaxRequests
  /\ asked' = [asked EXCEPT ![t] = @ + 1]
  /\ requests' = requests \union {[trip |-> t, amount |-> a, tries |-> 0]}
  /\ UNCHANGED <<job, payments, dead, successes, stripe, gateway>>

\* Checkout: Stripe will call the webhook until it is acknowledged.
Pay(s) ==
  /\ s \in told \ paid
  /\ paid' = paid \union {s}
  /\ unacked' = unacked \union {s}
  /\ UNCHANGED <<service, successes, session, told, dedup, hook, published>>

-----------------------------------------------------------------------------

Working(w) ==
  CreatePaymentSession(w) \/ CreateFails(w) \/ Save(w) \/ PublishSession(w) \/ Commit(w)

Serving(h) == (\E s \in Session : Receive(h, s)) \/ PublishSuccess(h)

Next ==
  \/ \E w \in Level : Working(w) \/ \E m \in requests : handleCreateSession(w, m)
  \/ \E s \in Session : handleSuccess(s) \/ Expire(s) \/ Pay(s)
  \/ \E h \in Delivery : Serving(h)
  \/ \E t \in Trip, a \in Amount : Ask(t, a)
  \/ Crash \/ GatewayStops

\* Consumers go on, and a webhook that Stripe calls until it is acknowledged is
\* served, however many others are; nobody has to ask or to pay.
Fairness ==
  /\ \A w \in Level : WF_vars(Working(w) \/ \E m \in requests : handleCreateSession(w, m))
  /\ \A h \in Delivery : WF_vars(PublishSuccess(h))
  /\ \A s \in Session : WF_vars(handleSuccess(s)) /\ SF_vars(\E h \in Delivery : Receive(h, s))

Spec == Init /\ [][Next]_vars
FairSpec == Spec /\ Fairness

-----------------------------------------------------------------------------
(* Properties *)

\* A payment is marked as paid only when the rider has paid that very session,
\* whatever is redelivered and however many sessions a trip has got
\* (handleStripeWebhook, handleSuccess and MarkSuccess).
SuccessMeansPaid == \A p \in payments : p.status = "success" => p.session \in paid

\* The driver's share and the platform's are never more than the rider paid,
\* and at most a cent less (MarkSuccess rounds both down).
SharesAreCovered ==
  \A p \in payments : p.status = "success" =>
    p.fee + p.payout \in {p.amount - 1, p.amount}

\* What was handled is booked: a row that is there at all was there before anyone
\* could pay, so the UPDATE does hit it (handleCreateSession saves before it
\* publishes).  Of a session whose INSERT failed there is no row, and its UPDATE
\* hits nothing; a message whose UPDATE failed to the last is dead-lettered.
PaidIsBooked ==
  \A s \in published \ (successes \union dead) : \A p \in payments :
    p.session = s => p.status = "success"

\* The rider is told of at most one session per trip, although requests come
\* again: the repetition finds the row that was saved before the rider was told
\* (handleCreateSession's guard).  Not so when the query or the INSERT behind the
\* guard fails, nor when a request that failed at Stripe comes again as well, since
\* its retry and its repetition pass the guard at the same time.
OneCheckoutPerTrip ==
  \A r, s \in told : session[r].trip = session[s].trip => r = s

\* The key is a claim and no receipt: until the success of a paid session is
\* published, Stripe calls again or a call is about to publish it, although Redis
\* fails, keys expire and answers are lost (handleStripeWebhook).  Not so when a
\* publish fails or the gateway restarts behind the key.
PaidIsPursued ==
  \A s \in paid : s \in unacked \union published \/ \E h \in Delivery : hook[h] = s

\* The success of a session is published once however often and however
\* concurrently Stripe calls (the SET NX of handleStripeWebhook).
PublishedOnce ==
  [][\A h \in Delivery : PublishSuccess(h) => hook[h] \notin published]_vars

\* Every payment is booked in the end, although deliveries of the webhook come
\* twice, without an answer from Redis and after the key has expired.
PaymentsAreBooked ==
  \A s \in Session :
    s \in paid ~> \E p \in payments : p.session = s /\ p.status = "success"
=============================================================================

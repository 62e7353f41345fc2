---------------------------- MODULE RetryPipeline ----------------------------
(***************************************************************************)
(* shared/messaging/kafka.go: how a message reaches the handlers of the    *)
(* services that consume its topic.  Every service reads the topic in a    *)
(* consumer group of its own; a message whose handler fails is copied to   *)
(* the retry topic of the next level and committed.  The three retry       *)
(* topics and the dead letter queue are shared by all topics and services. *)
(*                                                                         *)
(* Level 0 is the topic, 1 to 3 the retry topics, 4 the dead letter queue, *)
(* each with a single partition (EnsureTopics).  Kafka is modelled by what *)
(* the readers use: a log, a committed offset per group and level, and a   *)
(* reader's own position, which falls back to the committed offset when    *)
(* the service restarts.  A commit is cumulative.                          *)
(***************************************************************************)
EXTENDS Naturals, Sequences

CONSTANTS
  Service,       \* the services with a handler for the topic
  Retrying,      \* those that call StartRetryConsumers
  Msg,
  None,          \* the group of a message nobody has failed yet
  Flaky,         \* the services whose writes to the next level may fail
  MaxFailures,   \* bound on the handlers that fail
  MaxRestarts    \* bound on the services that restart

Dead == 4
Level == 0 .. 3

ASSUME RetryingAssumption == Retrying \subseteq Service
ASSUME NoneAssumption == None \notin Service
ASSUME FlakyAssumption == Flaky \subseteq Service
ASSUME BoundsAssumption == MaxFailures \in Nat /\ MaxRestarts \in Nat

VARIABLES
  log,       \* the messages of each level, oldest first
  committed, \* the offset each group has committed at each level
  position,  \* the offset up to which each reader has fetched
  pc,        \* where the loop of each reader is: "fetch", "failed", "commit"
  handled,   \* pairs <<s, m>>: a handler of s has succeeded with m
  failures, restarts

readers == <<committed, position, pc>>
vars == <<log, readers, handled, failures, restarts>>

-----------------------------------------------------------------------------

\* RetryMessage: the payload and the group that failed first.  A DLQMessage does
\* not name the group; it is kept at that level too so that Parked and Settled
\* can tell whose message was given up, and no step reads it there.
Entry == [msg : Msg, group : Service \union {None}]
Copy(m, s) == [msg |-> m, group |-> s]

TypeOK ==
  /\ log \in [0 .. Dead -> Seq(Entry)]
  /\ committed \in [Service -> [Level -> Nat]]
  /\ position \in [Service -> [Level -> Nat]]
  /\ pc \in [Service -> [Level -> {"fetch", "failed", "commit"}]]
  /\ handled \subseteq Service \X Msg
  /\ failures \in Nat
  /\ restarts \in Nat
  /\ \A s \in Service, i \in Level :
       committed[s][i] <= position[s][i] /\ position[s][i] <= Len(log[i])

Init ==
  /\ log = [i \in 0 .. Dead |-> <<>>]
  /\ committed = [s \in Service |-> [i \in Level |-> 0]]
  /\ position = [s \in Service |-> [i \in Level |-> 0]]
  /\ pc = [s \in Service |-> [i \in Level |-> "fetch"]]
  /\ handled = {}
  /\ failures = 0
  /\ restarts = 0

-----------------------------------------------------------------------------
(* The loops.  A service has one reader of the topic and, if it starts     *)
(* them, one of each retry topic.                                          *)

Reads(s, i) == i = 0 \/ s \in Retrying

\* The message the reader works on.
Current(s, i) == log[i][position[s][i]]

Goto(s, i, place) == pc' = [pc EXCEPT ![s][i] = place]

\* A message of the topic; any number of different ones.
PublishMessage(m) ==
  /\ \A k \in 1 .. Len(log[0]) : log[0][k].msg # m
  /\ log' = [log EXCEPT ![0] = Append(@, Copy(m, None))]
  /\ UNCHANGED <<readers, handled, failures, restarts>>

\* FetchMessage, then the handler.  A retry reader runs the handler its
\* service has registered for the message's topic, whichever group failed.
Fetch(s, i) ==
  /\ Reads(s, i)
  /\ pc[s][i] = "fetch"
  /\ position[s][i] < Len(log[i])
  /\ position' = [position EXCEPT ![s][i] = @ + 1]

Succeed(s, i) ==
  /\ Fetch(s, i)
  /\ handled' = handled \union {<<s, log[i][position[s][i] + 1].msg>>}
  /\ Goto(s, i, "commit")
  /\ UNCHANGED <<log, committed, failures, restarts>>

Fail(s, i) ==
  /\ Fetch(s, i)
  /\ failures < MaxFailures
  /\ failures' = failures + 1
  /\ Goto(s, i, "failed")
  /\ UNCHANGED <<log, committed, handled, restarts>>

\* The copy a failed message leaves on the next level.
Rerouted(s, i) ==
  [log EXCEPT ![i + 1] =
     Append(@, Copy(Current(s, i).msg, IF i = 0 THEN s ELSE Current(s, i).group))]

\* Mutant: the third retry was the last, and nothing is left in any queue.
publishWhileRetriesLast(s, i) ==
  /\ pc[s][i] = "failed"
  /\ log' = IF i = 3 THEN log ELSE Rerouted(s, i)
  /\ Goto(s, i, "commit")
  /\ UNCHANGED <<committed, position, handled, failures, restarts>>

publishToRetry(s, i) ==
  /\ pc[s][i] = "failed"
  /\ log' = Rerouted(s, i)
  /\ Goto(s, i, "commit")
  /\ UNCHANGED <<committed, position, handled, failures, restarts>>

\* The write fails, or only its acknowledgement.  The reader of the topic gives
\* up after three attempts, which leave one copy or none here, and commits; a
\* retry reader goes on without a commit of its own.
publishFails(s, i) ==
  /\ s \in Flaky
  /\ pc[s][i] = "failed"
  /\ log' \in {log, Rerouted(s, i)}
  /\ Goto(s, i, IF i = 0 THEN "commit" ELSE "fetch")
  /\ UNCHANGED <<committed, position, handled, failures, restarts>>

\* A commit that fails is logged or ignored.
CommitMessages(s, i) ==
  /\ pc[s][i] = "commit"
  /\ committed' \in {committed, [committed EXCEPT ![s][i] = position[s][i]]}
  /\ Goto(s, i, "fetch")
  /\ UNCHANGED <<log, position, handled, failures, restarts>>

\* Mutant: the offsets fetched are taken for committed.
RestartAhead(s) ==
  /\ restarts < MaxRestarts
  /\ restarts' = restarts + 1
  /\ committed' = [committed EXCEPT ![s] = position[s]]
  /\ pc' = [pc EXCEPT ![s] = [i \in Level |-> "fetch"]]
  /\ UNCHANGED <<log, position, handled, failures>>

\* The service restarts, or Kafka gives the partition to another replica.
Restart(s) ==
  /\ restarts < MaxRestarts
  /\ restarts' = restarts + 1
  /\ position' = [position EXCEPT ![s] = committed[s]]
  /\ pc' = [pc EXCEPT ![s] = [i \in Level |-> "fetch"]]
  /\ UNCHANGED <<log, committed, handled, failures>>

-----------------------------------------------------------------------------

Reader(s, i) ==
  \/ Succeed(s, i) \/ Fail(s, i)
  \/ publishToRetry(s, i) \/ publishFails(s, i)
  \/ CommitMessages(s, i)

Next ==
  \/ \E m \in Msg : PublishMessage(m)
  \/ \E s \in Service, i \in Level : Reader(s, i)
  \/ \E s \in Service : Restart(s)

\* The loops run as long as there is something to read.
Fairness == \A s \in Service, i \in Level : WF_vars(Reader(s, i))

Spec == Init /\ [][Next]_vars
FairSpec == Spec /\ Fairness

-----------------------------------------------------------------------------
(* Properties *)

\* A copy of m, made for s, on level i behind the given offset.
Queued(i, offset, m, s) ==
  \E k \in 1 .. Len(log[i]) : k > offset /\ log[i][k] = Copy(m, s)

Parked(s, m) == Queued(Dead, 0, m, s)

\* Services that must not lose anything, whatever happens to the others' writes.
Reliable == Retrying \ Flaky

\* Messages the reader is done with, committed or not.
Done(s, i) == IF pc[s][i] = "failed" THEN position[s][i] - 1 ELSE position[s][i]

\* Readers of s that go on from these offsets come to every message of the topic,
\* or to a copy made for s, unless it was handled or is parked.
MeetsAll(s, offset) ==
  \A k \in 1 .. Len(log[0]) :
    LET m == log[0][k].msg IN
    \/ k > offset[0]
    \/ <<s, m>> \in handled
    \/ \E i \in 1 .. 3 : Queued(i, offset[i], m, s)
    \/ Parked(s, m)

\* At-least-once delivery: nothing is lost to a restart, after which the readers
\* begin at what was committed, and nothing is left to one: they come to
\* everything from where they are as well (the order of handler, publishToRetry
\* and CommitMessages in consumeLoop and consumeRetryLoop, which go on to the next
\* message whatever became of this one, although every other service reads,
\* commits and copies the same retries).
NothingIsLost ==
  \A s \in Reliable :
    MeetsAll(s, committed[s]) /\ MeetsAll(s, [i \in Level |-> Done(s, i)])

\* Why nothing is lost: whatever a reader has passed was handled or copied to
\* the next level, as far as it was the reader's own.
PassedOn ==
  \A s \in Reliable, i \in Level : \A k \in 1 .. Len(log[i]) :
    /\ k <= Done(s, i)
    /\ i = 0 \/ log[i][k].group = s
    => \/ <<s, log[i][k].msg>> \in handled
       \/ Queued(i + 1, 0, log[i][k].msg, s)

\* Every message is handled in the end, or parked for a human, by each service
\* that starts its retry consumers and can write its copies.
EveryMessageSettles ==
  \A s \in Reliable, m \in Msg :
    (\E k \in 1 .. Len(log[0]) : log[0][k].msg = m)
      ~> (<<s, m>> \in handled \/ Parked(s, m))

-----------------------------------------------------------------------------
(* What the documentation says and the code does not do *)

\* kafka-deep-dive.md:202, 209: a message that was not committed is delivered
\* again; consumeRetryLoop means the same by "skipping commit".
SkippedComesAgain ==
  \A s \in Retrying, i \in 1 .. 3 : \A k \in 1 .. Len(log[i]) :
    k <= committed[s][i] /\ log[i][k].group = s =>
      \/ <<s, log[i][k].msg>> \in handled
      \/ Queued(i + 1, 0, log[i][k].msg, s)
=============================================================================

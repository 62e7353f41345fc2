------------------------- MODULE RetryPipelineProofs -------------------------
(***************************************************************************)
(* Proofs about RetryPipeline, for any services, messages, failures and    *)
(* restarts.  The inductive invariant follows one message from level to    *)
(* level (PassedOn); that nothing is lost is its consequence at level 0.   *)
(***************************************************************************)
EXTENDS RetryPipeline, Integers, TLAPS

\* A reader with a failed message has not committed it.
FailedIsUncommitted ==
  \A s \in Service, i \in Level : pc[s][i] = "failed" => committed[s][i] < position[s][i]

Shape == TypeOK /\ FailedIsUncommitted

\* The levels are places of the log, and so is the one after each.
LEMMA Levels == Level \subseteq 0 .. Dead /\ \A i \in Level : i + 1 \in 0 .. Dead
BY DEF Level, Dead

\* Appending to one level leaves all that was there where it was.
LEMMA Appended ==
  ASSUME NEW l \in [0 .. Dead -> Seq(Entry)], NEW i \in 0 .. Dead, NEW e \in Entry,
         NEW m, m = [l EXCEPT ![i] = Append(@, e)]
  PROVE  /\ m \in [0 .. Dead -> Seq(Entry)]
         /\ \A j \in 0 .. Dead : Len(l[j]) <= Len(m[j])
         /\ \A j \in 0 .. Dead : \A k \in 1 .. Len(l[j]) : m[j][k] = l[j][k]
         /\ Len(m[i]) = Len(l[i]) + 1
         /\ m[i][Len(l[i]) + 1] = e
<1> DEFINE a == Append(l[i], e)
<1>1. l[i] \in Seq(Entry)
  OBVIOUS
<1>2. /\ a \in Seq(Entry)
      /\ Len(a) = Len(l[i]) + 1
      /\ a[Len(l[i]) + 1] = e
      /\ \A k \in 1 .. Len(l[i]) : a[k] = l[i][k]
  BY <1>1
<1>3. m = [l EXCEPT ![i] = a]
  OBVIOUS
<1> HIDE DEF a
<1>4. m[i] = a /\ \A j \in 0 .. Dead \ {i} : m[j] = l[j]
  BY <1>3
<1>5. m \in [0 .. Dead -> Seq(Entry)]
  BY <1>2, <1>3
<1>6. \A j \in 0 .. Dead : Len(l[j]) \in Nat
  OBVIOUS
<1>7. ASSUME NEW j \in 0 .. Dead
      PROVE  Len(l[j]) <= Len(m[j]) /\ \A k \in 1 .. Len(l[j]) : m[j][k] = l[j][k]
  <2>1. CASE j = i
    BY <2>1, <1>2, <1>4, <1>6
  <2>2. CASE j # i
    BY <2>2, <1>4, <1>6
  <2> QED
    BY <2>1, <2>2
<1> QED
  BY <1>2, <1>4, <1>5, <1>7

\* What a failed reader copies is a message, and goes to an existing level.
LEMMA ReroutedIsAppended ==
  ASSUME Shape, NEW s \in Service, NEW i \in Level, pc[s][i] = "failed"
  PROVE  /\ position[s][i] \in 1 .. Len(log[i])
         /\ Copy(Current(s, i).msg, IF i = 0 THEN s ELSE Current(s, i).group) \in Entry
         /\ i + 1 \in 0 .. Dead
<1>1. i \in 0 .. Dead /\ i + 1 \in 0 .. Dead
  BY DEF Level, Dead
<1>2. log[i] \in Seq(Entry) /\ Len(log[i]) \in Nat
  BY <1>1 DEF Shape, TypeOK
<1>3. position[s][i] \in Nat /\ committed[s][i] \in Nat
  BY DEF Shape, TypeOK
<1>4. position[s][i] \in 1 .. Len(log[i])
  BY <1>2, <1>3 DEF Shape, TypeOK, FailedIsUncommitted
<1>5. Current(s, i) \in Entry
  BY <1>2, <1>4 DEF Current
<1> QED
  BY <1>1, <1>4, <1>5 DEF Entry, Copy

-----------------------------------------------------------------------------

\* Nothing has been read or written at first.
LEMMA ShapeInit == Init => Shape
<1> SUFFICES ASSUME Init PROVE Shape
  OBVIOUS
<1>1. log \in [0 .. Dead -> Seq(Entry)] /\ \A i \in 0 .. Dead : log[i] = <<>>
  BY DEF Init
<1>2. \A i \in Level : Len(log[i]) = 0
  BY <1>1 DEF Level, Dead
<1>3. TypeOK
  BY <1>1, <1>2 DEF Init, TypeOK
<1> QED
  BY <1>3 DEF Init, Shape, FailedIsUncommitted

\* One reader changes one place of a table of readers.
LEMMA OneReader ==
  ASSUME NEW V, NEW f \in [Service -> [Level -> V]], NEW s \in Service, NEW i \in Level,
         NEW v \in V, NEW g, g = [f EXCEPT ![s][i] = v]
  PROVE  /\ g \in [Service -> [Level -> V]]
         /\ g[s][i] = v
         /\ \A r \in Service, j \in Level : r # s \/ j # i => g[r][j] = f[r][j]
OBVIOUS

\* One step of a reader, a publisher or a restart keeps offsets in order.
LEMMA ShapeStep == Shape /\ [Next]_vars => Shape'
<1> SUFFICES ASSUME Shape, [Next]_vars PROVE Shape'
  OBVIOUS
<1> DEFINE Place == {"fetch", "failed", "commit"}
<1>1. /\ log \in [0 .. Dead -> Seq(Entry)]
      /\ committed \in [Service -> [Level -> Nat]]
      /\ position \in [Service -> [Level -> Nat]]
      /\ pc \in [Service -> [Level -> Place]]
      /\ \A i \in Level : log[i] \in Seq(Entry) /\ Len(log[i]) \in Nat
      /\ \A s \in Service, i \in Level :
           /\ committed[s][i] <= position[s][i] /\ position[s][i] <= Len(log[i])
           /\ pc[s][i] = "failed" => committed[s][i] < position[s][i]
  <2>1. /\ log \in [0 .. Dead -> Seq(Entry)]
        /\ \A i \in 0 .. Dead : log[i] \in Seq(Entry)
    BY DEF Shape, TypeOK
  <2>2. \A i \in Level : log[i] \in Seq(Entry) /\ Len(log[i]) \in Nat
    BY <2>1, Levels
  <2> QED
    BY <2>1, <2>2 DEF Shape, TypeOK, FailedIsUncommitted
<1>2. ASSUME NEW i \in 0 .. Dead, NEW e \in Entry, log' = [log EXCEPT ![i] = Append(@, e)]
      PROVE  /\ log' \in [0 .. Dead -> Seq(Entry)]
             /\ \A j \in Level : Len(log[j]) <= Len(log'[j]) /\ Len(log'[j]) \in Nat
  <2>1. /\ log' \in [0 .. Dead -> Seq(Entry)]
        /\ \A j \in 0 .. Dead : Len(log[j]) <= Len(log'[j])
    BY <1>2, <1>1, Appended
  <2>2. \A j \in 0 .. Dead : log'[j] \in Seq(Entry) /\ Len(log'[j]) \in Nat
    BY <2>1
  <2> QED
    BY <2>1, <2>2, Levels
<1>3. ASSUME NEW m \in Msg, PublishMessage(m) PROVE Shape'
  <2>1. Copy(m, None) \in Entry /\ 0 \in 0 .. Dead
    BY DEF Copy, Entry, Dead
  <2>2. /\ log' \in [0 .. Dead -> Seq(Entry)]
        /\ \A j \in Level : Len(log[j]) <= Len(log'[j]) /\ Len(log'[j]) \in Nat
    BY <2>1, <1>2, <1>3 DEF PublishMessage
  <2> QED
    BY <1>1, <1>3, <2>2 DEF PublishMessage, readers, Shape, TypeOK, FailedIsUncommitted
<1>4. ASSUME NEW s \in Service, NEW i \in Level, Succeed(s, i) \/ Fail(s, i) PROVE Shape'
  <2>1. PICK place \in {"commit", "failed"} : pc' = [pc EXCEPT ![s][i] = place]
    BY <1>4 DEF Succeed, Fail, Goto
  <2>2. /\ position[s][i] < Len(log[i])
        /\ position' = [position EXCEPT ![s][i] = position[s][i] + 1]
        /\ UNCHANGED <<log, committed, restarts>>
    BY <1>4 DEF Succeed, Fail, Fetch
  <2>3. /\ pc' \in [Service -> [Level -> Place]]
        /\ \A r \in Service, j \in Level : r # s \/ j # i => pc'[r][j] = pc[r][j]
    BY <1>1, <2>1, OneReader
  <2>4. /\ position' \in [Service -> [Level -> Nat]]
        /\ position'[s][i] = position[s][i] + 1
        /\ \A r \in Service, j \in Level : r # s \/ j # i => position'[r][j] = position[r][j]
    BY <1>1, <2>2, OneReader
  <2>5. handled' \subseteq Service \X Msg /\ failures' \in Nat
    <3>1. log[i] \in Seq(Entry) /\ position[s][i] + 1 \in 1 .. Len(log[i])
      BY <1>1, <2>2
    <3>2. log[i][position[s][i] + 1] \in Entry
      BY <3>1
    <3>3. log[i][position[s][i] + 1].msg \in Msg
      BY <3>2 DEF Entry
    <3> QED
      BY <1>4, <3>3 DEF Succeed, Fail, Shape, TypeOK
  <2>6. \A r \in Service, j \in Level :
          /\ committed'[r][j] <= position'[r][j] /\ position'[r][j] <= Len(log'[j])
          /\ pc'[r][j] = "failed" => committed'[r][j] < position'[r][j]
    <3> SUFFICES ASSUME NEW r \in Service, NEW j \in Level
                 PROVE  /\ committed'[r][j] <= position'[r][j] /\ position'[r][j] <= Len(log'[j])
                        /\ pc'[r][j] = "failed" => committed'[r][j] < position'[r][j]
      OBVIOUS
    <3>1. CASE r = s /\ j = i
      BY <3>1, <1>1, <2>2, <2>4
    <3>2. CASE r # s \/ j # i
      BY <3>2, <1>1, <2>2, <2>3, <2>4
    <3> QED
      BY <3>1, <3>2
  <2> QED
    BY <1>1, <2>2, <2>3, <2>4, <2>5, <2>6 DEF Shape, TypeOK, FailedIsUncommitted
<1>5. ASSUME NEW s \in Service, NEW i \in Level, publishToRetry(s, i) \/ publishFails(s, i)
      PROVE  Shape'
  <2>1. PICK place \in {"commit", "fetch"} : pc' = [pc EXCEPT ![s][i] = place]
    BY <1>5 DEF publishToRetry, publishFails, Goto
  <2>2. /\ pc[s][i] = "failed"
        /\ log' \in {log, Rerouted(s, i)}
        /\ UNCHANGED <<committed, position, handled, failures, restarts>>
    BY <1>5 DEF publishToRetry, publishFails
  <2>3. /\ log' \in [0 .. Dead -> Seq(Entry)]
        /\ \A j \in Level : Len(log[j]) <= Len(log'[j]) /\ Len(log'[j]) \in Nat
    <3>1. CASE log' = log
      BY <3>1, <1>1
    <3>2. CASE log' = Rerouted(s, i)
      BY <3>2, <2>2, <1>2, ReroutedIsAppended DEF Rerouted
    <3> QED
      BY <2>2, <3>1, <3>2
  <2>4. /\ pc' \in [Service -> [Level -> Place]]
        /\ pc'[s][i] # "failed"
        /\ \A r \in Service, j \in Level : r # s \/ j # i => pc'[r][j] = pc[r][j]
    BY <1>1, <2>1, OneReader
  <2>5. \A r \in Service, j \in Level :
          /\ committed'[r][j] <= position'[r][j] /\ position'[r][j] <= Len(log'[j])
          /\ pc'[r][j] = "failed" => committed'[r][j] < position'[r][j]
    <3> SUFFICES ASSUME NEW r \in Service, NEW j \in Level
                 PROVE  /\ committed[r][j] <= position[r][j] /\ position[r][j] <= Len(log'[j])
                        /\ pc'[r][j] = "failed" => committed[r][j] < position[r][j]
      BY <2>2
    <3>1. /\ committed[r][j] \in Nat /\ position[r][j] \in Nat
          /\ Len(log[j]) \in Nat /\ Len(log'[j]) \in Nat /\ Len(log[j]) <= Len(log'[j])
          /\ pc'[r][j] = "failed" => pc[r][j] = "failed"
      BY <1>1, <2>3, <2>4
    <3> QED
      BY <3>1, <1>1
  <2> QED
    BY <1>1, <2>2, <2>3, <2>4, <2>5 DEF Shape, TypeOK, FailedIsUncommitted
<1>6. ASSUME NEW s \in Service, NEW i \in Level, CommitMessages(s, i) PROVE Shape'
  <2>1. /\ pc' = [pc EXCEPT ![s][i] = "fetch"]
        /\ committed' \in {committed, [committed EXCEPT ![s][i] = position[s][i]]}
        /\ UNCHANGED <<log, position, handled, failures, restarts>>
    BY <1>6 DEF CommitMessages, Goto
  <2>2. /\ pc' \in [Service -> [Level -> Place]]
        /\ pc'[s][i] = "fetch"
        /\ \A r \in Service, j \in Level : r # s \/ j # i => pc'[r][j] = pc[r][j]
    BY <1>1, <2>1, OneReader
  <2>3. /\ committed' \in [Service -> [Level -> Nat]]
        /\ committed'[s][i] \in {committed[s][i], position[s][i]}
        /\ \A r \in Service, j \in Level : r # s \/ j # i => committed'[r][j] = committed[r][j]
    <3>1. position[s][i] \in Nat /\ committed \in [Service -> [Level -> Nat]]
      BY <1>1
    <3>2. CASE committed' = committed
      BY <3>1, <3>2
    <3>3. CASE committed' = [committed EXCEPT ![s][i] = position[s][i]]
      BY <3>1, <3>3, OneReader
    <3> QED
      BY <2>1, <3>2, <3>3
  <2>4. \A r \in Service, j \in Level :
          /\ committed'[r][j] <= position'[r][j] /\ position'[r][j] <= Len(log'[j])
          /\ pc'[r][j] = "failed" => committed'[r][j] < position'[r][j]
    BY <1>1, <2>1, <2>2, <2>3
  <2> QED
    BY <1>1, <2>1, <2>2, <2>3, <2>4 DEF Shape, TypeOK, FailedIsUncommitted
<1>7. ASSUME NEW s \in Service, Restart(s) PROVE Shape'
  <2>1. /\ position' = [position EXCEPT ![s] = committed[s]]
        /\ pc' = [pc EXCEPT ![s] = [i \in Level |-> "fetch"]]
        /\ restarts' = restarts + 1
        /\ UNCHANGED <<log, committed, handled, failures>>
    BY <1>7 DEF Restart
  <2>2. /\ position' \in [Service -> [Level -> Nat]]
        /\ pc' \in [Service -> [Level -> Place]]
    BY <1>1, <2>1
  <2>3. \A r \in Service, j \in Level :
          /\ committed'[r][j] <= position'[r][j] /\ position'[r][j] <= Len(log'[j])
          /\ pc'[r][j] = "failed" => committed'[r][j] < position'[r][j]
    BY <1>1, <2>1
  <2> QED
    BY <1>1, <2>1, <2>2, <2>3 DEF Shape, TypeOK, FailedIsUncommitted
<1>8. CASE UNCHANGED vars
  BY <1>8 DEF vars, readers, Shape, TypeOK, FailedIsUncommitted
<1> QED
  BY <1>3, <1>4, <1>5, <1>6, <1>7, <1>8 DEF Next, Reader

\* The readers' offsets are in order and within the logs, whatever fails or
\* restarts.
THEOREM TypeCorrect == Spec => []TypeOK
<1>1. Shape => TypeOK
  BY DEF Shape
<1> QED
  BY ShapeInit, ShapeStep, <1>1, PTL DEF Spec

-----------------------------------------------------------------------------
(* Nothing is lost by a service whose writes to the next level succeed. *)

\* Services that lose nothing are services, and write what they copy.
LEMMA ReliableServices ==
  /\ \A s \in Reliable : s \in Service
  /\ \A s \in Flaky : s \notin Reliable
BY RetryingAssumption DEF Reliable

\* What a reader has passed stays passed when logs and handled only grow and
\* the reader does not advance.
LEMMA PassedStays ==
  ASSUME Shape, PassedOn, handled \subseteq handled',
         \A j \in 0 .. Dead : Len(log[j]) <= Len(log'[j]) /\ Len(log'[j]) \in Nat,
         \A j \in 0 .. Dead : \A k \in 1 .. Len(log[j]) : log'[j][k] = log[j][k],
         NEW s \in Reliable, NEW i \in Level, NEW k \in 1 .. Len(log[i]),
         k <= Done(s, i), i = 0 \/ log[i][k].group = s
  PROVE  (<<s, log[i][k].msg>> \in handled \/ Queued(i + 1, 0, log[i][k].msg, s))'
<1>1. \A j \in 0 .. Dead : Len(log[j]) \in Nat
  BY DEF Shape, TypeOK
<1>2. i \in 0 .. Dead /\ i + 1 \in 0 .. Dead
  BY Levels
<1>3. log'[i][k] = log[i][k]
  BY <1>2
<1>4. <<s, log[i][k].msg>> \in handled \/ Queued(i + 1, 0, log[i][k].msg, s)
  BY DEF PassedOn
<1>5. CASE <<s, log[i][k].msg>> \in handled
  BY <1>3, <1>5
<1>6. ASSUME Queued(i + 1, 0, log[i][k].msg, s)
      PROVE  Queued(i + 1, 0, log[i][k].msg, s)'
  <2>1. PICK n \in 1 .. Len(log[i + 1]) : log[i + 1][n] = Copy(log[i][k].msg, s)
    BY <1>6 DEF Queued
  <2>2. n \in 1 .. Len(log'[i + 1]) /\ log'[i + 1][n] = log[i + 1][n]
    BY <1>1, <1>2
  <2> QED
    BY <1>3, <2>1, <2>2 DEF Queued, Copy
<1> QED
  BY <1>4, <1>5, <1>6

\* So PassedOn is kept by a step in which whatever a reader newly passes was
\* handled or copied.
LEMMA PassesKept ==
  ASSUME Shape, Shape', PassedOn, handled \subseteq handled',
         \A j \in 0 .. Dead : Len(log[j]) <= Len(log'[j]) /\ Len(log'[j]) \in Nat,
         \A j \in 0 .. Dead : \A k \in 1 .. Len(log[j]) : log'[j][k] = log[j][k],
         \A s \in Service, i \in Level : position'[s][i] <= Len(log[i]),
         \A s \in Reliable, i \in Level : \A k \in 1 .. Len(log[i]) :
           /\ k > Done(s, i)
           /\ k <= Done(s, i)'
           /\ i = 0 \/ log[i][k].group = s
           => (<<s, log[i][k].msg>> \in handled \/ Queued(i + 1, 0, log[i][k].msg, s))'
  PROVE  PassedOn'
<1> SUFFICES ASSUME NEW s \in Reliable, NEW i \in Level, NEW k \in 1 .. Len(log'[i]),
                    k <= Done(s, i)', i = 0 \/ log'[i][k].group = s
             PROVE  (\/ <<s, log[i][k].msg>> \in handled
                     \/ Queued(i + 1, 0, log[i][k].msg, s))'
  BY DEF PassedOn
<1>1. s \in Service /\ i \in 0 .. Dead
  BY Levels, ReliableServices
<1>2. /\ position[s][i] \in Nat /\ position'[s][i] \in Nat
      /\ position'[s][i] <= Len(log[i])
      /\ Len(log[i]) \in Nat /\ Len(log'[i]) \in Nat
  BY <1>1 DEF Shape, TypeOK
<1>3. /\ Done(s, i) \in Int /\ Done(s, i)' \in Int
      /\ Done(s, i)' <= Len(log[i])
  BY <1>2 DEF Done
<1>4. k \in 1 .. Len(log[i])
  BY <1>2, <1>3
<1>5. i = 0 \/ log[i][k].group = s
  BY <1>1, <1>4
<1>6. CASE k <= Done(s, i)
  BY <1>4, <1>5, <1>6, PassedStays
<1>7. CASE k > Done(s, i)
  BY <1>4, <1>5, <1>7
<1> QED
  BY <1>3, <1>4, <1>6, <1>7

\* Every step keeps PassedOn, that of a flaky service too.
LEMMA PassedOnStep ==
  ASSUME Shape, PassedOn, [Next]_vars
  PROVE  PassedOn'
<1> Shape'
  BY ShapeStep
<1> DEFINE Settled(s, i, k) == \/ <<s, log[i][k].msg>> \in handled
                               \/ Queued(i + 1, 0, log[i][k].msg, s)
<1>1. /\ pc \in [Service -> [Level -> {"fetch", "failed", "commit"}]]
      /\ committed \in [Service -> [Level -> Nat]]
      /\ position \in [Service -> [Level -> Nat]]
      /\ \A s \in Service, i \in Level :
           /\ committed[s][i] <= position[s][i] /\ position[s][i] <= Len(log[i])
           /\ pc[s][i] = "failed" => committed[s][i] < position[s][i]
      /\ log \in [0 .. Dead -> Seq(Entry)]
      /\ \A i \in 0 .. Dead : Len(log[i]) \in Nat
  BY DEF Shape, TypeOK, FailedIsUncommitted
<1>2. ASSUME NEW m \in Msg, PublishMessage(m) PROVE PassedOn'
  <2>1. Copy(m, None) \in Entry /\ 0 \in 0 .. Dead
    BY DEF Copy, Entry, Dead
  <2>2. log' = [log EXCEPT ![0] = Append(@, Copy(m, None))] /\ UNCHANGED <<readers, handled>>
    BY <1>2 DEF PublishMessage
  <2>3. /\ \A j \in 0 .. Dead : Len(log[j]) <= Len(log'[j]) /\ Len(log'[j]) \in Nat
        /\ \A j \in 0 .. Dead : \A k \in 1 .. Len(log[j]) : log'[j][k] = log[j][k]
    BY <1>1, <2>1, <2>2, Appended
  <2>4. \A s \in Service, i \in Level : Done(s, i)' = Done(s, i) /\ Done(s, i) \in Int
    BY <1>1, <2>2 DEF readers, Done
  <2> QED
    BY <1>1, <2>2, <2>3, <2>4, ReliableServices, PassesKept DEF readers
<1>3. ASSUME NEW s \in Service, NEW i \in Level, Succeed(s, i) PROVE PassedOn'
  <2>1. /\ pc[s][i] = "fetch" /\ position[s][i] < Len(log[i])
        /\ position' = [position EXCEPT ![s][i] = position[s][i] + 1]
        /\ handled' = handled \union {<<s, log[i][position[s][i] + 1].msg>>}
        /\ pc' = [pc EXCEPT ![s][i] = "commit"]
        /\ log' = log
    BY <1>3 DEF Succeed, Fetch, Goto
  <2>2. /\ position'[s][i] = position[s][i] + 1
        /\ \A r \in Service, j \in Level : r # s \/ j # i => position'[r][j] = position[r][j]
    BY <1>1, <2>1, OneReader
  <2>3. /\ pc'[s][i] = "commit"
        /\ \A r \in Service, j \in Level : r # s \/ j # i => pc'[r][j] = pc[r][j]
    BY <1>1, <2>1, OneReader
  <2>4. /\ Done(s, i) = position[s][i] /\ Done(s, i)' = position[s][i] + 1
        /\ \A r \in Service, j \in Level : r # s \/ j # i => Done(r, j)' = Done(r, j)
    BY <2>1, <2>2, <2>3 DEF Done
  <2>5. \A r \in Service, j \in Level : position'[r][j] <= Len(log[j])
    <3> SUFFICES ASSUME NEW r \in Service, NEW j \in Level PROVE position'[r][j] <= Len(log[j])
      OBVIOUS
    <3>1. position[r][j] \in Nat /\ Len(log[j]) \in Nat
      BY <1>1, Levels
    <3> QED
      BY <3>1, <1>1, <2>1, <2>2
  <2>6. ASSUME NEW r \in Reliable, NEW j \in Level, NEW k \in 1 .. Len(log[j]),
               k > Done(r, j), k <= Done(r, j)'
        PROVE  Settled(r, j, k)'
    <3>1. r \in Service /\ position[r][j] \in Nat /\ Done(r, j) \in Int
      BY <1>1, ReliableServices DEF Done
    <3>2. r = s /\ j = i
      BY <2>4, <2>6, <3>1
    <3>3. k = position[s][i] + 1
      BY <2>4, <2>6, <3>1, <3>2
    <3> QED
      BY <2>1, <3>2, <3>3
  <2> QED
    BY <1>1, <2>1, <2>5, <2>6, PassesKept
<1>4. ASSUME NEW s \in Service, NEW i \in Level, Fail(s, i) PROVE PassedOn'
  <2>1. /\ pc[s][i] = "fetch" /\ position[s][i] < Len(log[i])
        /\ position' = [position EXCEPT ![s][i] = position[s][i] + 1]
        /\ pc' = [pc EXCEPT ![s][i] = "failed"]
        /\ UNCHANGED <<log, handled>>
    BY <1>4 DEF Fail, Fetch, Goto
  <2>2. /\ position'[s][i] = position[s][i] + 1
        /\ \A r \in Service, j \in Level : r # s \/ j # i => position'[r][j] = position[r][j]
    BY <1>1, <2>1, OneReader
  <2>3. /\ pc'[s][i] = "failed"
        /\ \A r \in Service, j \in Level : r # s \/ j # i => pc'[r][j] = pc[r][j]
    BY <1>1, <2>1, OneReader
  <2>4. \A r \in Service, j \in Level : Done(r, j)' = Done(r, j) /\ Done(r, j) \in Int
    BY <1>1, <2>1, <2>2, <2>3 DEF Done
  <2>5. \A r \in Service, j \in Level : position'[r][j] <= Len(log[j])
    <3> SUFFICES ASSUME NEW r \in Service, NEW j \in Level PROVE position'[r][j] <= Len(log[j])
      OBVIOUS
    <3>1. position[r][j] \in Nat /\ Len(log[j]) \in Nat
      BY <1>1, Levels
    <3> QED
      BY <3>1, <1>1, <2>1, <2>2
  <2>6. /\ handled \subseteq handled'
        /\ \A j \in 0 .. Dead : Len(log[j]) <= Len(log'[j]) /\ Len(log'[j]) \in Nat
        /\ \A j \in 0 .. Dead : \A k \in 1 .. Len(log[j]) : log'[j][k] = log[j][k]
    BY <1>1, <2>1
  <2>7. ASSUME NEW r \in Reliable, NEW j \in Level, NEW k \in 1 .. Len(log[j]),
               k > Done(r, j), k <= Done(r, j)'
        PROVE  Settled(r, j, k)'
    BY <2>4, <2>7, ReliableServices
  <2> QED
    BY <2>5, <2>6, <2>7, PassesKept
<1>5. ASSUME NEW s \in Service, NEW i \in Level, publishToRetry(s, i) PROVE PassedOn'
  <2> DEFINE e == Copy(Current(s, i).msg, IF i = 0 THEN s ELSE Current(s, i).group)
  <2>1. /\ pc[s][i] = "failed"
        /\ log' = [log EXCEPT ![i + 1] = Append(@, e)]
        /\ pc' = [pc EXCEPT ![s][i] = "commit"]
        /\ UNCHANGED <<position, handled>>
    BY <1>5 DEF publishToRetry, Rerouted, Goto
  <2>2. position[s][i] \in 1 .. Len(log[i]) /\ e \in Entry /\ i + 1 \in 0 .. Dead
    BY <2>1, ReroutedIsAppended
  <2> HIDE DEF e
  <2>3. /\ \A j \in 0 .. Dead : Len(log[j]) <= Len(log'[j]) /\ Len(log'[j]) \in Nat
        /\ \A j \in 0 .. Dead : \A k \in 1 .. Len(log[j]) : log'[j][k] = log[j][k]
        /\ Len(log'[i + 1]) = Len(log[i + 1]) + 1
        /\ log'[i + 1][Len(log[i + 1]) + 1] = e
    BY <1>1, <2>1, <2>2, Appended
  <2>4. /\ pc'[s][i] = "commit"
        /\ \A r \in Service, j \in Level : r # s \/ j # i => pc'[r][j] = pc[r][j]
    BY <1>1, <2>1, OneReader
  <2>5. /\ Done(s, i) = position[s][i] - 1 /\ Done(s, i)' = position[s][i]
        /\ \A r \in Service, j \in Level : r # s \/ j # i => Done(r, j)' = Done(r, j)
    BY <2>1, <2>4 DEF Done
  <2>6. ASSUME NEW r \in Reliable, NEW j \in Level, NEW k \in 1 .. Len(log[j]),
               k > Done(r, j), k <= Done(r, j)', j = 0 \/ log[j][k].group = r
        PROVE  Settled(r, j, k)'
    <3>1. r \in Service /\ position[r][j] \in Nat /\ Done(r, j) \in Int
      BY <1>1, ReliableServices DEF Done
    <3>2. r = s /\ j = i
      BY <2>5, <2>6, <3>1
    <3>3. k = position[s][i]
      BY <2>5, <2>6, <3>1, <3>2
    <3>4. e = Copy(log[i][k].msg, s)
      BY <2>6, <3>2, <3>3 DEF e, Current
    <3>5. log'[i][k] = log[i][k]
      BY <2>3, <2>6, <3>2, Levels
    <3>6. Len(log[i + 1]) + 1 \in 1 .. Len(log'[i + 1])
      BY <1>1, <2>2, <2>3
    <3> QED
      BY <2>3, <3>2, <3>4, <3>5, <3>6 DEF Queued, Copy
  <2> QED
    BY <1>1, <2>1, <2>3, <2>6, PassesKept
<1>6. ASSUME NEW s \in Service, NEW i \in Level, CommitMessages(s, i) PROVE PassedOn'
  <2>1. /\ pc[s][i] = "commit"
        /\ pc' = [pc EXCEPT ![s][i] = "fetch"]
        /\ UNCHANGED <<log, position, handled>>
    BY <1>6 DEF CommitMessages, Goto
  <2>2. /\ pc'[s][i] = "fetch"
        /\ \A r \in Service, j \in Level : r # s \/ j # i => pc'[r][j] = pc[r][j]
    BY <1>1, <2>1, OneReader
  <2>3. \A r \in Service, j \in Level : Done(r, j)' = Done(r, j) /\ Done(r, j) \in Int
    BY <1>1, <2>1, <2>2 DEF Done
  <2>4. \A r \in Reliable, j \in Level : \A k \in 1 .. Len(log[j]) :
          ~(k > Done(r, j) /\ k <= Done(r, j)')
    BY <2>3, ReliableServices
  <2>5. /\ \A r \in Service, j \in Level : position'[r][j] <= Len(log[j])
        /\ \A j \in 0 .. Dead : Len(log[j]) <= Len(log'[j]) /\ Len(log'[j]) \in Nat
        /\ handled \subseteq handled'
    BY <1>1, <2>1
  <2> QED
    BY <2>1, <2>4, <2>5, PassesKept
<1>7. ASSUME NEW s \in Service, Restart(s) PROVE PassedOn'
  <2>1. /\ position' = [position EXCEPT ![s] = committed[s]]
        /\ pc' = [pc EXCEPT ![s] = [i \in Level |-> "fetch"]]
        /\ UNCHANGED <<log, handled>>
    BY <1>7 DEF Restart
  <2>2. \A r \in Service, j \in Level :
          Done(r, j)' <= Done(r, j) /\ Done(r, j) \in Int /\ Done(r, j)' \in Int
    BY <1>1, <2>1 DEF Done
  <2>3. \A r \in Service, j \in Level : position'[r][j] <= Len(log[j])
    <3> SUFFICES ASSUME NEW r \in Service, NEW j \in Level PROVE position'[r][j] <= Len(log[j])
      OBVIOUS
    <3>1. position[r][j] \in Nat /\ Len(log[j]) \in Nat /\ committed[r][j] \in Nat
      BY <1>1, Levels
    <3> QED
      BY <3>1, <1>1, <2>1
  <2> QED
    BY <1>1, <2>1, <2>2, <2>3, ReliableServices, PassesKept
<1>8. CASE UNCHANGED vars
  BY <1>8 DEF vars, readers, PassedOn, Done, Queued
<1>9. ASSUME NEW s \in Service, NEW i \in Level, publishFails(s, i) PROVE PassedOn'
  <2> DEFINE e == Copy(Current(s, i).msg, IF i = 0 THEN s ELSE Current(s, i).group)
  <2> DEFINE place == IF i = 0 THEN "commit" ELSE "fetch"
  <2>1. /\ s \in Flaky
        /\ pc[s][i] = "failed"
        /\ log' = log \/ log' = [log EXCEPT ![i + 1] = Append(@, e)]
        /\ pc' = [pc EXCEPT ![s][i] = place]
        /\ UNCHANGED <<position, handled>>
    BY <1>9 DEF publishFails, Rerouted, Goto
  <2>2. e \in Entry /\ i + 1 \in 0 .. Dead
    BY <2>1, ReroutedIsAppended
  <2> HIDE DEF e
  <2>3. /\ \A j \in 0 .. Dead : Len(log[j]) <= Len(log'[j]) /\ Len(log'[j]) \in Nat
        /\ \A j \in 0 .. Dead : \A k \in 1 .. Len(log[j]) : log'[j][k] = log[j][k]
    <3>1. CASE log' = log
      BY <1>1, <3>1
    <3>2. CASE log' = [log EXCEPT ![i + 1] = Append(@, e)]
      BY <1>1, <2>2, <3>2, Appended
    <3> QED
      BY <2>1, <3>1, <3>2
  <2>4. \A r \in Service, j \in Level : r # s => pc'[r][j] = pc[r][j]
    BY <1>1, <2>1
  <2>5. \A r \in Reliable, j \in Level : Done(r, j)' = Done(r, j) /\ Done(r, j) \in Int
    BY <1>1, <2>1, <2>4, ReliableServices DEF Done
  <2>6. \A r \in Reliable, j \in Level : \A k \in 1 .. Len(log[j]) :
          ~(k > Done(r, j) /\ k <= Done(r, j)')
    BY <2>5
  <2>7. /\ \A r \in Service, j \in Level : position'[r][j] <= Len(log[j])
        /\ handled \subseteq handled'
    BY <1>1, <2>1
  <2> QED
    BY <2>3, <2>6, <2>7, PassesKept
<1> QED
  BY <1>2, <1>3, <1>4, <1>5, <1>6, <1>7, <1>8, <1>9 DEF Next, Reader

\* Nothing has been passed at first.
LEMMA PassedOnInit == Init => PassedOn
<1> SUFFICES ASSUME Init PROVE PassedOn
  OBVIOUS
<1>1. \A i \in Level : Len(log[i]) = 0
  BY DEF Init, Level, Dead
<1> QED
  BY <1>1 DEF PassedOn

\* From level to level a copy is still before its reader, or has been handled, or
\* was passed on again.
LEMMA ReadersMeetAll ==
  ASSUME Shape, PassedOn
  PROVE  \A s \in Reliable : MeetsAll(s, [i \in Level |-> Done(s, i)])
<1> SUFFICES ASSUME NEW s \in Reliable, NEW k \in 1 .. Len(log[0]),
                    k <= Done(s, 0), <<s, log[0][k].msg>> \notin handled
             PROVE  \/ \E i \in 1 .. 3 : Queued(i, Done(s, i), log[0][k].msg, s)
                    \/ Parked(s, log[0][k].msg)
  <2>1. 0 \in Level /\ 1 .. 3 \subseteq Level /\ Len(log[0]) \in Nat
    BY DEF Level, Dead, Shape, TypeOK
  <2>2. ASSUME NEW s \in Reliable PROVE Done(s, 0) \in Int
    <3>1. s \in Service /\ position[s][0] \in Nat
      BY <2>1, ReliableServices DEF Shape, TypeOK
    <3> QED
      BY <3>1 DEF Done
  <2> QED
    BY <2>1, <2>2 DEF MeetsAll
<1> DEFINE m == log[0][k].msg
<1>1. s \in Service
  BY ReliableServices
<1>2. Queued(1, 0, m, s)
  <2>1. 0 \in Level
    BY DEF Level
  <2>2. Queued(0 + 1, 0, m, s)
    BY <2>1 DEF PassedOn
  <2> QED
    BY <2>2
<1>3. ASSUME NEW i \in 1 .. 3, Queued(i, 0, m, s)
      PROVE  Queued(i, Done(s, i), m, s) \/ Queued(i + 1, 0, m, s)
  <2>1. PICK n \in 1 .. Len(log[i]) : log[i][n] = Copy(m, s)
    BY <1>3 DEF Queued
  <2>2. i \in Level /\ log[i][n].msg = m /\ log[i][n].group = s
    BY <2>1 DEF Level, Copy
  <2>3. Done(s, i) \in Int
    BY <1>1, <2>2 DEF Done, Shape, TypeOK
  <2>4. CASE n > Done(s, i)
    BY <2>1, <2>4 DEF Queued
  <2>5. CASE n <= Done(s, i)
    BY <2>2, <2>5 DEF PassedOn
  <2> QED
    BY <2>2, <2>3, <2>4, <2>5, Levels DEF Shape, TypeOK
<1> QED
  BY <1>2, <1>3 DEF Parked, Dead

\* A committed message was passed, and what is before a reader is behind the
\* offset it has committed.
LEMMA RestartedMeetAll ==
  ASSUME Shape, NEW s \in Reliable, MeetsAll(s, [i \in Level |-> Done(s, i)])
  PROVE  MeetsAll(s, committed[s])
<1> SUFFICES ASSUME NEW k \in 1 .. Len(log[0]),
                    ~ (k > committed[s][0]), <<s, log[0][k].msg>> \notin handled
             PROVE  \/ \E i \in 1 .. 3 : Queued(i, committed[s][i], log[0][k].msg, s)
                    \/ Parked(s, log[0][k].msg)
  BY DEF MeetsAll
<1> DEFINE m == log[0][k].msg
<1>1. s \in Service
  BY ReliableServices
<1>2. \A i \in Level : /\ committed[s][i] \in Nat /\ position[s][i] \in Nat
                      /\ committed[s][i] <= Done(s, i) /\ Done(s, i) \in Int
  BY <1>1 DEF Shape, TypeOK, FailedIsUncommitted, Done
<1>3. 0 \in Level /\ 1 .. 3 \subseteq Level /\ Len(log[0]) \in Nat
  BY DEF Level, Dead, Shape, TypeOK
<1>4. ASSUME NEW i \in 1 .. 3, Queued(i, Done(s, i), m, s)
      PROVE  Queued(i, committed[s][i], m, s)
  <2>1. PICK n \in 1 .. Len(log[i]) : n > Done(s, i) /\ log[i][n] = Copy(m, s)
    BY <1>4 DEF Queued
  <2>2. i \in Level /\ n \in Int
    BY <1>3
  <2>3. n > committed[s][i]
    <3>1. committed[s][i] \in Nat /\ Done(s, i) \in Int /\ committed[s][i] <= Done(s, i)
      BY <1>2, <2>2
    <3> QED
      BY <2>1, <2>2, <3>1
  <2> QED
    BY <2>1, <2>3 DEF Queued
<1>5. ~ (k > Done(s, 0))
  BY <1>2, <1>3
<1>6. (\E i \in 1 .. 3 : Queued(i, Done(s, i), m, s)) \/ Parked(s, m)
  BY <1>3, <1>5 DEF MeetsAll
<1> QED
  BY <1>4, <1>6

LEMMA PassedOnLosesNothing == Shape /\ PassedOn => NothingIsLost
BY ReadersMeetAll, RestartedMeetAll DEF NothingIsLost

\* At-least-once delivery, for any services, messages, failures and restarts,
\* to every service that can write its copies, whoever else cannot: its readers
\* come to what it has neither handled nor parked, with or without a restart.
THEOREM AtLeastOnce == Spec => []NothingIsLost
<1>1. Init => Shape /\ PassedOn
  BY ShapeInit, PassedOnInit
<1>2. Shape /\ PassedOn /\ [Next]_vars => (Shape /\ PassedOn)'
  BY ShapeStep, PassedOnStep
<1> QED
  BY <1>1, <1>2, PassedOnLosesNothing, PTL DEF Spec
=============================================================================

------------------------ MODULE RelayDispatcherProofs ------------------------
(***************************************************************************)
(* What the relay dispatcher promises its adapters, for any number of      *)
(* them, any capacity, retry table, breaker and reloads.                   *)
(***************************************************************************)
EXTENDS RelayDispatcher, FiniteSetTheorems, TLAPS

(* Where Run is in its loop says what it has at hand. *)
RunTyped ==
  /\ pc \in {"select", "done"} => todo = {}
  /\ pc \in {"dispatch", "send", "backoff"} => note \in Notes
  /\ pc \in {"send", "backoff"} => attempt > 0
  /\ pc = "backoff" => attempt < Attempts

Types == TypeOK /\ RunTyped

(* The notifications between their emission and their delivery: what waits *)
(* is in order and later than what is being dispatched, and that is later  *)
(* than whatever an endpoint that has yet to get it has taken; only the    *)
(* adapter at hand may have got it already, in attempts that reported an   *)
(* error, one after the other and each counted.                            *)
Waiting ==
  /\ \A i, j \in DOMAIN queue : i < j => queue[i] < queue[j]
  /\ \A i \in DOMAIN queue : note < queue[i] /\ queue[i] <= emitted
  /\ note <= emitted
Failed == IF pc = "send" THEN attempt - 1 ELSE IF pc = "backoff" THEN attempt ELSE 0
Got == \A a \in Adapters : \A i \in DOMAIN accepted[a] :
  /\ accepted[a][i][1] <= note
  /\ a \in todo /\ accepted[a][i][1] = note =>
       Turn(a) /\ ~accepted[a][i][2] /\ Len(accepted[a]) < i + Failed
OrderInv == Types /\ Waiting /\ Got /\ DeliveredInOrder

(* The breaker knows every hard failure of the current window, and an      *)
(* adapter is tried only while they are fewer than the limit; a send that  *)
(* takes long can only make them fewer.                                    *)
Known == \A a \in Adapters : Recent(hard[a]) \subseteq failures[a]
Past  == \A a \in Adapters : \A f \in hard[a] : f[2] <= now
Tried == pc \in {"send", "backoff"} =>
           \A a \in Adapters : Turn(a) => Cardinality(Recent(hard[a])) < Limit
BreakerInv == Types /\ Known /\ Past /\ Tried /\ BreakerHolds

-----------------------------------------------------------------------------
(* Types.                                                                   *)

LEMMA TypesInit == Init => Types
BY RelayConstants DEF Init, Types, TypeOK, RunTyped, Times, Attempts

LEMMA QueueTyped ==
  ASSUME Types
  PROVE  /\ queue # <<>> => /\ Head(queue) \in Notes /\ Tail(queue) \in Seq(Notes)
                            /\ Len(Tail(queue)) <= Cap
         /\ \A n \in Notes : Append(queue, n) \in Seq(Notes) /\ Len(Append(queue, n)) = Len(queue) + 1
BY RelayConstants DEF Types, TypeOK

LEMMA SendTyped ==
  ASSUME Types, pc = "send", NEW a \in Adapters, Leave(a)
  PROVE  /\ pc' = "dispatch" /\ note' \in Notes /\ todo' \subseteq Adapters /\ attempt' \in 0..Attempts
         /\ note' = note
BY DEF Types, TypeOK, RunTyped, Leave

LEMMA TakenTyped ==
  ASSUME Types, pc = "send", NEW a \in Adapters, NEW ok \in BOOLEAN, Taken(a, ok)
  PROVE  accepted' \in [Adapters -> Seq(Notes \X BOOLEAN)]
<1>1. <<note, ok>> \in Notes \X BOOLEAN
  BY DEF Types, RunTyped
<1>2. Append(accepted[a], <<note, ok>>) \in Seq(Notes \X BOOLEAN)
  BY <1>1 DEF Types, TypeOK
<1> QED BY <1>2 DEF Taken, Types, TypeOK

LEMMA TypesStep == Types /\ [Next]_vars => Types'
<1> SUFFICES ASSUME Types, [Next]_vars PROVE Types'
  OBVIOUS
<1> USE RelayConstants
<1>1. CASE Emit
  <2>1. emitted' \in Notes
    BY <1>1 DEF Emit, Types, TypeOK, Notes
  <2>2. queue' \in Seq(Notes) /\ Len(queue') <= Cap
    BY <1>1, <2>1, QueueTyped DEF Emit, Types, TypeOK
  <2> QED BY <1>1, <2>1, <2>2 DEF Emit, Types, TypeOK, RunTyped, run, history, Notes
<1>2. CASE Tick
  BY <1>2 DEF Tick, Types, TypeOK, RunTyped, run, history, Times
<1>3. CASE Reload
  BY <1>3 DEF Reload, Types, TypeOK, RunTyped, run, history
<1>4. CASE Take
  <2>1. note' \in Notes /\ queue' \in Seq(Notes) /\ Len(queue') <= Cap /\ todo' \subseteq Adapters
    BY <1>4, QueueTyped DEF Take, Types, TypeOK
  <2>2. note' \in 0..MaxNotes
    BY <2>1 DEF Notes
  <2> QED BY <1>4, <2>1, <2>2 DEF Take, Types, TypeOK, RunTyped, history
<1>5. CASE Dispatched \/ RunReturns
  BY <1>5 DEF Dispatched, RunReturns, Types, TypeOK, RunTyped, history
<1>6. CASE \E a \in Adapters : Begin(a)
  <2>1. PICK a \in Adapters : Begin(a)
    BY <1>6
  <2>2. failures' \in [Adapters -> SUBSET (Notes \X Times)]
    BY <2>1 DEF Begin, Recent, Types, TypeOK
  <2> QED BY <2>1, <2>2 DEF Begin, Types, TypeOK, RunTyped, history, Attempts
<1>7. CASE \E a \in Adapters : Accepted(a) \/ Cancelled(a)
  <2>1. PICK a \in Adapters : Accepted(a) \/ Cancelled(a)
    BY <1>7
  <2>2. accepted' \in [Adapters -> Seq(Notes \X BOOLEAN)]
    BY <2>1, TakenTyped DEF Accepted, Cancelled, Unanswered, Types, TypeOK
  <2> QED BY <2>1, <2>2, SendTyped DEF Accepted, Cancelled, Types, TypeOK, RunTyped
<1>8. CASE \E a \in Adapters : Exhausted(a)
  <2>1. PICK a \in Adapters : Exhausted(a)
    BY <1>8
  <2>2. <<note, now>> \in Notes \X Times
    BY <2>1 DEF Exhausted, Types, TypeOK, RunTyped
  <2>3. /\ failures' \in [Adapters -> SUBSET (Notes \X Times)]
        /\ hard' \in [Adapters -> SUBSET (Notes \X Times)]
    BY <2>1, <2>2 DEF Exhausted, Recent, Types, TypeOK
  <2>4. accepted' \in [Adapters -> Seq(Notes \X BOOLEAN)]
    BY <2>1, TakenTyped DEF Exhausted, Unanswered, Types, TypeOK
  <2> QED BY <2>1, <2>3, <2>4, SendTyped DEF Exhausted, Types, TypeOK, RunTyped
<1>9. CASE \E a \in Adapters : Refused(a)
  <2>1. PICK a \in Adapters : Refused(a)
    BY <1>9
  <2>2. accepted' \in [Adapters -> Seq(Notes \X BOOLEAN)]
    BY <2>1, TakenTyped DEF Refused, Unanswered, Types, TypeOK
  <2> QED BY <2>1, <2>2 DEF Refused, Types, TypeOK, RunTyped, Attempts
<1>13. CASE \E a \in Adapters : Retry(a)
  BY <1>13 DEF Retry, Types, TypeOK, RunTyped, history, Attempts
<1>10. CASE \E a \in Adapters : BackoffStopped(a)
  BY <1>10 DEF BackoffStopped, Leave, Types, TypeOK, RunTyped, history
<1>11. CASE StopCalled \/ StopReturns
  BY <1>11 DEF StopCalled, StopReturns, Types, TypeOK, RunTyped, run, history
<1>12. CASE UNCHANGED vars
  BY <1>12 DEF vars, run, history, Types, TypeOK, RunTyped
<1> QED BY <1>1, <1>2, <1>3, <1>4, <1>5, <1>6, <1>7, <1>8, <1>9, <1>10, <1>11, <1>12, <1>13 DEF Next, Run

LEMMA TypesInvariant == Spec => []Types
BY TypesInit, TypesStep, PTL DEF Spec

(* Every variable of the dispatcher keeps its type, the queue its bound. *)
THEOREM TypeCorrect == Spec => []TypeOK
<1>1. Types => TypeOK
  BY DEF Types
<1> QED BY <1>1, TypesInvariant, PTL

-----------------------------------------------------------------------------
(* Order.                                                                   *)

LEMMA OrderInit == Init => OrderInv
BY TypesInit, RelayConstants DEF Init, OrderInv, Waiting, Got, DeliveredInOrder

(* What an endpoint has taken is a pair of a notification and an answer. *)
LEMMA Entries ==
  ASSUME Types, NEW a \in Adapters
  PROVE  /\ accepted[a] \in Seq(Notes \X BOOLEAN) /\ Len(accepted[a]) \in Nat
         /\ DOMAIN accepted[a] = 1..Len(accepted[a])
         /\ \A i \in DOMAIN accepted[a] : /\ accepted[a][i][1] \in Nat
                                          /\ accepted[a][i][2] \in BOOLEAN
         /\ note \in Nat /\ Failed \in Nat /\ Failed < Attempts /\ Attempts \in Nat
BY RelayConstants DEF Types, TypeOK, RunTyped, Notes, Failed, Attempts

(* Nothing is delivered, emitted or taken from the queue, and the adapter  *)
(* at hand stays, with as many failed attempts, or is done with.           *)
LEMMA OrderFrame ==
  ASSUME OrderInv, Types', UNCHANGED <<queue, note, emitted, accepted>>,
         \/ todo' = todo /\ Failed' = Failed
         \/ \E a \in todo : Turn(a) /\ todo' = todo \ {a}
  PROVE  OrderInv'
<1>1. Waiting' /\ DeliveredInOrder'
  BY DEF OrderInv, Waiting, DeliveredInOrder
<1>2. Got'
  <2>1. CASE todo' = todo /\ Failed' = Failed
    BY <2>1 DEF OrderInv, Got, Turn
  <2>2. CASE \E a \in todo : Turn(a) /\ todo' = todo \ {a}
    <3>1. PICK a \in todo : Turn(a) /\ todo' = todo \ {a}
      BY <2>2
    <3>2. \A b \in todo' : ~Turn(b)
      BY <3>1, RelayConstants DEF Turn, OrderInv, Types, TypeOK, Adapters
    <3> QED BY <3>1, <3>2 DEF OrderInv, Got
  <2> QED BY <2>1, <2>2
<1> QED BY <1>1, <1>2 DEF OrderInv

LEMMA EmitInOrder == OrderInv /\ Types' /\ Emit => OrderInv'
<1> SUFFICES ASSUME OrderInv, Types', Emit PROVE OrderInv'
  OBVIOUS
<1>1. UNCHANGED <<note, todo, accepted, Failed>> /\ emitted' = emitted + 1 /\ emitted \in Nat
  BY RelayConstants DEF Emit, run, history, OrderInv, Types, TypeOK, Failed
<1>0. Got' /\ DeliveredInOrder'
  BY <1>1 DEF OrderInv, Got, DeliveredInOrder, Turn
<1>2. CASE queue' = queue
  BY <1>0, <1>1, <1>2, RelayConstants DEF OrderInv, Waiting, Types, TypeOK, Notes
<1>3. CASE queue' = Append(queue, emitted')
  <2>1. queue \in Seq(Notes) /\ Len(queue') = Len(queue) + 1
    BY <1>3, QueueTyped DEF OrderInv, Types, TypeOK
  <2>2. \A i \in DOMAIN queue' : \/ i \in DOMAIN queue /\ queue'[i] = queue[i] /\ queue[i] \in Notes
                                 \/ i = Len(queue) + 1 /\ queue'[i] = emitted + 1
    BY <1>1, <1>3, <2>1
  <2>3. Waiting'
    <3>1. ASSUME NEW i \in DOMAIN queue', NEW j \in DOMAIN queue', i < j PROVE queue'[i] < queue'[j]
      BY <1>1, <2>1, <2>2, <3>1 DEF OrderInv, Waiting, Notes
    <3>2. ASSUME NEW i \in DOMAIN queue' PROVE note < queue'[i] /\ queue'[i] <= emitted'
      <4>1. note \in Nat /\ note <= emitted
        BY RelayConstants DEF OrderInv, Waiting, Types, TypeOK
      <4>2. CASE i \in DOMAIN queue /\ queue'[i] = queue[i] /\ queue[i] \in Notes
        <5>1. note < queue[i] /\ queue[i] <= emitted /\ queue[i] \in Nat
          BY <4>2, RelayConstants DEF OrderInv, Waiting, Notes
        <5> QED BY <1>1, <4>2, <5>1
      <4>3. CASE queue'[i] = emitted + 1
        BY <1>1, <4>1, <4>3
      <4> QED BY <2>2, <4>2, <4>3
    <3> QED BY <1>1, <3>1, <3>2, RelayConstants DEF OrderInv, Waiting, Types, TypeOK
  <2> QED BY <1>0, <2>3 DEF OrderInv
<1> QED BY <1>2, <1>3 DEF Emit

LEMMA TakeInOrder == OrderInv /\ Types' /\ Take => OrderInv'
<1> SUFFICES ASSUME OrderInv, Types', Take PROVE OrderInv'
  OBVIOUS
<1>1. /\ queue \in Seq(Notes) /\ queue # <<>> /\ note' = queue[1] /\ queue' = Tail(queue)
      /\ todo' \subseteq Adapters /\ emitted' = emitted /\ accepted' = accepted
  BY DEF Take, history, OrderInv, Types, TypeOK
<1>2. \A i \in DOMAIN queue' : i + 1 \in DOMAIN queue /\ queue'[i] = queue[i + 1] /\ i \in Nat \ {0}
  BY <1>1
<1>3. 1 \in DOMAIN queue /\ note < note' /\ note \in Nat /\ note' \in Nat
  BY <1>1, RelayConstants DEF OrderInv, Waiting, Types, TypeOK, Notes
<1>4. Waiting'
  <2>1. ASSUME NEW i \in DOMAIN queue', NEW j \in DOMAIN queue', i < j PROVE queue'[i] < queue'[j]
    BY <1>1, <1>2, <2>1 DEF OrderInv, Waiting
  <2>2. ASSUME NEW i \in DOMAIN queue' PROVE note' < queue'[i] /\ queue'[i] <= emitted'
    BY <1>1, <1>2, <1>3 DEF OrderInv, Waiting
  <2>3. note' <= emitted'
    BY <1>1, <1>3 DEF OrderInv, Waiting
  <2> QED BY <2>1, <2>2, <2>3 DEF Waiting
<1>5. Got'
  <2> SUFFICES ASSUME NEW a \in Adapters, NEW i \in DOMAIN accepted[a]
               PROVE  accepted[a][i][1] < note'
    BY <1>1, <1>3, Entries DEF Got, OrderInv
  <2>1. accepted[a][i][1] \in Nat /\ accepted[a][i][1] <= note
    BY Entries DEF OrderInv, Got
  <2> QED BY <1>3, <2>1
<1> QED BY <1>1, <1>4, <1>5 DEF OrderInv, DeliveredInOrder

(* The endpoint of the adapter at hand takes the notification, which it    *)
(* may have taken before in attempts that failed: the adapter is done with *)
(* if that is reported, and has one more failed attempt if it is not.      *)
LEMMA TakenInOrder ==
  ASSUME OrderInv, Types', NEW a \in Adapters, NEW ok \in BOOLEAN, pc = "send", Turn(a),
         Taken(a, ok), UNCHANGED <<queue, note, emitted>>,
         todo' = todo \ {a} \/ (todo' = todo /\ ~ok /\ Failed' = Failed + 1)
  PROVE  OrderInv'
<1>1. /\ accepted[a] \in Seq(Notes \X BOOLEAN) /\ Len(accepted[a]) \in Nat
      /\ note \in Nat /\ Failed \in Nat /\ Failed < Attempts /\ Attempts \in Nat
      /\ a \in todo
  BY Entries DEF OrderInv, Turn
<1>2. accepted'[a] = Append(accepted[a], <<note, ok>>) /\ \A b \in Adapters \ {a} : accepted'[b] = accepted[b]
  BY DEF Taken, OrderInv, Types, TypeOK
<1>3. Len(accepted'[a]) = Len(accepted[a]) + 1
  BY <1>1, <1>2
<1>4. \A i \in DOMAIN accepted'[a] :
        \/ /\ i \in DOMAIN accepted[a] /\ accepted'[a][i] = accepted[a][i]
           /\ i \in 1..Len(accepted[a]) /\ accepted[a][i][1] \in Nat
           /\ \/ accepted[a][i][1] < note
              \/ accepted[a][i][1] = note /\ ~accepted[a][i][2] /\ Len(accepted[a]) < i + Failed
        \/ i = Len(accepted[a]) + 1 /\ accepted'[a][i] = <<note, ok>>
  <2> SUFFICES ASSUME NEW i \in DOMAIN accepted[a]
               PROVE  \/ accepted[a][i][1] < note
                      \/ accepted[a][i][1] = note /\ ~accepted[a][i][2] /\ Len(accepted[a]) < i + Failed
    BY <1>1, <1>2, <1>3, Entries DEF OrderInv
  <2>1. accepted[a][i][1] \in Nat /\ accepted[a][i][1] <= note
    BY Entries DEF OrderInv, Got
  <2>2. accepted[a][i][1] = note => ~accepted[a][i][2] /\ Len(accepted[a]) < i + Failed
    BY <1>1 DEF OrderInv, Got
  <2> QED BY <1>1, <2>1, <2>2
<1>5. Waiting'
  BY DEF OrderInv, Waiting
<1>6. Got'
  <2> SUFFICES ASSUME NEW b \in Adapters, NEW i \in DOMAIN accepted'[b]
               PROVE  /\ accepted'[b][i][1] <= note
                      /\ b \in todo' /\ accepted'[b][i][1] = note =>
                           Turn(b)' /\ ~accepted'[b][i][2] /\ Len(accepted'[b]) < i + Failed'
    BY DEF Got
  <2>1. CASE b = a
    <3>1. accepted'[a][i][1] <= note
      <4>1. CASE accepted'[a][i] = accepted[a][i] /\ accepted[a][i][1] \in Nat
                 /\ (accepted[a][i][1] < note \/ accepted[a][i][1] = note)
        BY <1>1, <4>1
      <4>2. CASE accepted'[a][i] = <<note, ok>>
        BY <1>1, <4>2
      <4> QED BY <1>4, <2>1, <4>1, <4>2
    <3>2. CASE todo' = todo \ {a}
      BY <2>1, <3>1, <3>2
    <3>3. CASE todo' = todo /\ ~ok /\ Failed' = Failed + 1
      <4>1. Turn(a)'
        BY <3>3 DEF Turn
      <4>2. accepted'[a][i][1] = note => ~accepted'[a][i][2] /\ Len(accepted'[a]) < i + Failed'
        <5>1. CASE /\ accepted'[a][i] = accepted[a][i] /\ i \in 1..Len(accepted[a])
                   /\ \/ accepted[a][i][1] \in Nat /\ accepted[a][i][1] < note
                      \/ ~accepted[a][i][2] /\ Len(accepted[a]) < i + Failed
          BY <1>1, <1>3, <3>3, <5>1
        <5>2. CASE i = Len(accepted[a]) + 1 /\ accepted'[a][i] = <<note, ok>>
          <6>1. accepted'[a][i][2] = ok
            BY <5>2
          <6>2. Len(accepted'[a]) < i + Failed'
            <7>1. i = Len(accepted[a]) + 1 /\ Failed' = Failed + 1
              BY <3>3, <5>2
            <7>2. \A n, f \in Nat : n + 1 < (n + 1) + (f + 1)
              OBVIOUS
            <7>3. Len(accepted[a]) \in Nat /\ Failed \in Nat
              BY <1>1
            <7> QED BY <1>3, <7>1, <7>2, <7>3
          <6> QED BY <3>3, <6>1, <6>2
        <5> QED BY <1>4, <2>1, <5>1, <5>2
      <4> QED BY <2>1, <3>1, <4>1, <4>2
    <3> QED BY <3>2, <3>3
  <2>2. CASE b # a
    <3>1. ~Turn(b)
      BY <2>2, RelayConstants DEF Turn, Adapters
    <3>2. accepted'[b] = accepted[b] /\ (b \in todo' => b \in todo)
      BY <1>2, <2>2
    <3> QED BY <3>1, <3>2 DEF OrderInv, Got
  <2> QED BY <2>1, <2>2
<1>7. DeliveredInOrder'
  <2> SUFFICES ASSUME NEW b \in Adapters, NEW i \in DOMAIN accepted'[b], NEW j \in DOMAIN accepted'[b], i < j
               PROVE  \/ accepted'[b][i][1] < accepted'[b][j][1]
                      \/ /\ accepted'[b][i][1] = accepted'[b][j][1]
                         /\ ~accepted'[b][i][2]
                         /\ j < i + Attempts
    BY DEF DeliveredInOrder, Attempts
  <2>1. CASE b = a
    <3>1. CASE j \in DOMAIN accepted[a] /\ accepted'[a][j] = accepted[a][j]
      <4>1. i \in DOMAIN accepted[a] /\ accepted'[a][i] = accepted[a][i]
        BY <1>1, <1>4, <2>1, <3>1
      <4> QED BY <2>1, <3>1, <4>1 DEF OrderInv, DeliveredInOrder
    <3>2. CASE j = Len(accepted[a]) + 1 /\ accepted'[a][j] = <<note, ok>>
      <4>1. /\ i \in 1..Len(accepted[a]) /\ accepted'[a][i] = accepted[a][i]
            /\ \/ accepted[a][i][1] < note
               \/ accepted[a][i][1] = note /\ ~accepted[a][i][2] /\ Len(accepted[a]) < i + Failed
        BY <1>1, <1>4, <2>1, <3>2
      <4>2. Len(accepted[a]) < i + Failed => j < i + Attempts
        BY <1>1, <3>2, <4>1
      <4> QED BY <2>1, <3>2, <4>1, <4>2
    <3> QED BY <1>4, <2>1, <3>1, <3>2
  <2>2. CASE b # a
    BY <1>2, <2>2 DEF OrderInv, DeliveredInOrder
  <2> QED BY <2>1, <2>2
<1> QED BY <1>5, <1>6, <1>7 DEF OrderInv

LEMMA AcceptedInOrder ==
  ASSUME OrderInv, Types', NEW a \in Adapters, Accepted(a)
  PROVE  OrderInv'
<1>1. /\ pc = "send" /\ Turn(a) /\ Taken(a, TRUE) /\ UNCHANGED <<queue, note, emitted>>
      /\ todo' = todo \ {a}
  BY DEF Accepted, Leave
<1> QED BY <1>1, TakenInOrder

(* A Send that reported an error, whether or not the endpoint took it. *)
LEMMA FailedInOrder ==
  ASSUME OrderInv, Types', NEW a \in Adapters, Cancelled(a) \/ Refused(a) \/ Exhausted(a)
  PROVE  OrderInv'
<1>1. /\ pc = "send" /\ Turn(a) /\ a \in todo /\ Unanswered(a)
      /\ UNCHANGED <<queue, note, emitted>>
  BY DEF Cancelled, Refused, Exhausted, Leave, Turn
<1>2. todo' = todo \ {a} \/ (todo' = todo /\ Failed' = Failed + 1)
  <2>1. CASE Cancelled(a) \/ Exhausted(a)
    <3>1. Leave(a)
      BY <2>1 DEF Cancelled, Exhausted
    <3> QED BY <3>1 DEF Leave
  <2>2. CASE Refused(a)
    <3>1. /\ todo' = todo /\ pc = "send" /\ pc' = "backoff" /\ attempt' = attempt
          /\ attempt \in Nat
      BY <2>2 DEF Refused, OrderInv, Types, TypeOK, Attempts
    <3>2. Failed = attempt - 1 /\ Failed' = attempt
      BY <3>1 DEF Failed
    <3> QED BY <3>1, <3>2
  <2> QED BY <2>1, <2>2
<1>3. CASE Taken(a, FALSE)
  BY <1>1, <1>2, <1>3, TakenInOrder
<1>4. CASE UNCHANGED accepted
  <2>1. CASE todo' = todo \ {a}
    BY <1>1, <1>4, <2>1, OrderFrame
  <2>2. CASE todo' = todo /\ Failed' = Failed + 1
    <3>1. Failed \in Nat /\ \A b \in Adapters : Len(accepted[b]) \in Nat /\ DOMAIN accepted[b] \subseteq Nat
      BY <1>1, Entries DEF OrderInv
    <3>2. Got'
      BY <1>1, <1>4, <2>2, <3>1 DEF OrderInv, Got, Turn
    <3> QED BY <1>1, <1>4, <3>2 DEF OrderInv, Waiting, DeliveredInOrder
  <2> QED BY <1>2, <2>1, <2>2
<1> QED BY <1>1, <1>3, <1>4 DEF Unanswered

LEMMA OrderStep == OrderInv /\ [Next]_vars => OrderInv'
<1> SUFFICES ASSUME OrderInv, [Next]_vars PROVE OrderInv'
  OBVIOUS
<1>0. Types'
  BY TypesStep DEF OrderInv
<1>1. CASE Emit
  BY <1>0, <1>1, EmitInOrder
<1>2. CASE Take
  BY <1>0, <1>2, TakeInOrder
<1>3. CASE \E a \in Adapters : Accepted(a)
  BY <1>0, <1>3, AcceptedInOrder
<1>4. CASE Tick \/ Reload \/ StopCalled \/ StopReturns
  BY <1>0, <1>4, OrderFrame DEF Tick, Reload, StopCalled, StopReturns, run, history, Failed
<1>5. CASE Dispatched \/ RunReturns
  BY <1>0, <1>5, OrderFrame DEF Dispatched, RunReturns, history, Failed
<1>6. CASE \E a \in Adapters : Begin(a)
  BY <1>0, <1>6, OrderFrame DEF Begin, history, Failed, Turn
<1>7. CASE \E a \in Adapters : Cancelled(a) \/ Refused(a) \/ Exhausted(a)
  BY <1>0, <1>7, FailedInOrder
<1>9. CASE \E a \in Adapters : Retry(a)
  <2>1. PICK a \in Adapters : Retry(a)
    BY <1>9
  <2>2. attempt \in Nat /\ attempt' = attempt + 1 /\ pc = "backoff" /\ pc' = "send"
    BY <2>1 DEF Retry, OrderInv, Types, TypeOK, Attempts
  <2>3. Failed' = Failed
    BY <2>2 DEF Failed
  <2> QED BY <1>0, <2>1, <2>3, OrderFrame DEF Retry, history
<1>10. CASE \E a \in Adapters : BackoffStopped(a)
  BY <1>0, <1>10, OrderFrame DEF BackoffStopped, Leave, history, Turn
<1>8. CASE UNCHANGED vars
  BY <1>0, <1>8, OrderFrame DEF vars, run, history, Failed
<1> QED BY <1>1, <1>2, <1>3, <1>4, <1>5, <1>6, <1>7, <1>8, <1>9, <1>10 DEF Next, Run

(* dispatcher.go, Run and sendWithRetry: an endpoint gets what it gets in  *)
(* the order of emission, whatever is retried, given up or lost on the way *)
(* back, and twice only what a failed Send gave it before.                 *)
THEOREM OrderKept == Spec => []DeliveredInOrder
<1>1. Spec => []OrderInv
  BY OrderInit, OrderStep, PTL DEF Spec
<1>2. OrderInv => DeliveredInOrder
  BY DEF OrderInv
<1> QED BY <1>1, <1>2, PTL

-----------------------------------------------------------------------------
(* The breaker.                                                             *)

LEMMA FailuresFinite ==
  ASSUME NEW S \in SUBSET (Notes \X Times)
  PROVE  IsFiniteSet(S) /\ Cardinality(S) \in Nat
<1>1. IsFiniteSet(Notes) /\ IsFiniteSet(Times)
  BY FS_Interval, RelayConstants DEF Notes, Times
<1>2. IsFiniteSet(Notes \X Times)
  BY <1>1, FS_Product
<1> QED BY <1>2, FS_Subset, FS_CardinalityType

LEMMA FewerFailures ==
  ASSUME NEW S \in SUBSET (Notes \X Times), NEW T \in SUBSET S
  PROVE  Cardinality(T) \in Nat /\ Cardinality(T) <= Cardinality(S)
BY FailuresFinite, FS_Subset

LEMMA BreakerInit == Init => BreakerInv
<1> SUFFICES ASSUME Init PROVE BreakerInv
  OBVIOUS
<1>1. \A a \in Adapters : hard[a] = {} /\ failures[a] = {}
  BY DEF Init
<1>2. Cardinality({}) = 0
  BY FS_EmptySet
<1>3. BreakerHolds
  <2> SUFFICES ASSUME NEW a \in Adapters, NEW t \in Times
               PROVE  Cardinality({f \in hard[a] : f[2] \in t..(t + Window - 1)}) <= Limit
    BY DEF BreakerHolds
  <2>1. {f \in hard[a] : f[2] \in t..(t + Window - 1)} = {}
    BY <1>1
  <2> QED BY <1>2, <2>1, RelayConstants
<1>4. Known /\ Past /\ Tried
  BY <1>1 DEF Known, Past, Tried, Recent, Init
<1> QED BY <1>3, <1>4, TypesInit DEF BreakerInv

(* The clock stands still and no failure is recorded: it is enough that    *)
(* what is forgotten is older than the window, and that nobody is tried    *)
(* who was not before.                                                     *)
LEMMA BreakerFrame ==
  ASSUME BreakerInv, Types', now' = now,
         \A a \in Adapters : /\ hard'[a] \in {{}, hard[a]}
                             /\ Recent(hard'[a]) \subseteq failures'[a],
         pc' \in {"send", "backoff"} => pc \in {"send", "backoff"} /\ todo' = todo
  PROVE  BreakerInv'
<1>1. Known' /\ Past'
  BY DEF Known, Past, Recent, BreakerInv
<1>2. \A a \in Adapters : hard[a] \in SUBSET (Notes \X Times) /\ hard'[a] \subseteq hard[a]
  BY DEF BreakerInv, Types, TypeOK
<1>3. BreakerHolds'
  <2> SUFFICES ASSUME NEW a \in Adapters, NEW t \in Times
               PROVE  Cardinality({f \in hard'[a] : f[2] \in t..(t + Window - 1)}) <= Limit
    BY DEF BreakerHolds
  <2> DEFINE T == {f \in hard'[a] : f[2] \in t..(t + Window - 1)}
             S == {f \in hard[a] : f[2] \in t..(t + Window - 1)}
  <2>1. S \in SUBSET (Notes \X Times) /\ T \in SUBSET S
    BY <1>2
  <2>2. Cardinality(S) <= Limit
    BY DEF BreakerInv, BreakerHolds
  <2> HIDE DEF S, T
  <2>3. /\ Cardinality(T) \in Nat /\ Cardinality(S) \in Nat
        /\ Cardinality(T) <= Cardinality(S)
    BY <2>1, FewerFailures, FailuresFinite
  <2>4. Cardinality(T) <= Limit
    BY <2>2, <2>3, RelayConstants
  <2> QED BY <2>4 DEF T
<1>4. Tried'
  <2> SUFFICES ASSUME pc' \in {"send", "backoff"}, NEW a \in Adapters, Turn(a)
               PROVE  Cardinality(Recent(hard'[a])) < Limit
    BY DEF Tried, Turn, Recent
  <2>1. Cardinality(Recent(hard[a])) < Limit
    BY DEF BreakerInv, Tried
  <2>2. Recent(hard[a]) \in SUBSET (Notes \X Times) /\ Recent(hard'[a]) \in SUBSET Recent(hard[a])
    BY <1>2 DEF Recent
  <2>3. /\ Cardinality(Recent(hard'[a])) \in Nat /\ Cardinality(Recent(hard[a])) \in Nat
        /\ Cardinality(Recent(hard'[a])) <= Cardinality(Recent(hard[a]))
    BY <2>2, FewerFailures, FailuresFinite
  <2> QED BY <2>1, <2>3, RelayConstants
<1> QED BY <1>1, <1>3, <1>4 DEF BreakerInv

(* Time passes, in the middle of a send too: the window holds less.         *)
LEMMA TickKeepsBreaker == BreakerInv /\ Types' /\ Tick => BreakerInv'
<1> SUFFICES ASSUME BreakerInv, Types', Tick PROVE BreakerInv'
  OBVIOUS
<1>1. /\ now' = now + 1 /\ now \in Nat
      /\ UNCHANGED <<hard, failures, pc, todo>>
  BY RelayConstants DEF Tick, run, history, BreakerInv, Types, TypeOK, Times
<1>2. \A a \in Adapters : hard[a] \in SUBSET (Notes \X Times)
  BY DEF BreakerInv, Types, TypeOK
<1>3. \A a \in Adapters : Recent(hard[a])' \in SUBSET Recent(hard[a])
  <2> SUFFICES ASSUME NEW a \in Adapters, NEW f \in hard[a], f[2] + Window > now + 1
               PROVE  f[2] + Window > now
    BY <1>1 DEF Recent
  <2>1. f[2] \in Nat
    BY <1>2, RelayConstants DEF Times
  <2> QED BY <1>1, <2>1, RelayConstants
<1>4. Known'
  BY <1>1, <1>3 DEF BreakerInv, Known
<1>5. Past'
  <2> SUFFICES ASSUME NEW a \in Adapters, NEW f \in hard[a] PROVE f[2] <= now + 1
    BY <1>1 DEF Past
  <2>1. f[2] \in Nat /\ f[2] <= now
    BY <1>2, RelayConstants DEF Times, BreakerInv, Past
  <2> QED BY <1>1, <2>1
<1>6. Tried'
  <2> SUFFICES ASSUME pc \in {"send", "backoff"}, NEW a \in Adapters, Turn(a)
               PROVE  Cardinality(Recent(hard[a])') < Limit
    BY <1>1 DEF Tried, Turn
  <2>1. Cardinality(Recent(hard[a])) < Limit
    BY DEF BreakerInv, Tried
  <2>2. Recent(hard[a]) \in SUBSET (Notes \X Times)
    BY <1>2 DEF Recent
  <2>3. /\ Cardinality(Recent(hard[a])') \in Nat /\ Cardinality(Recent(hard[a])) \in Nat
        /\ Cardinality(Recent(hard[a])') <= Cardinality(Recent(hard[a]))
    BY <1>3, <2>2, FewerFailures, FailuresFinite
  <2> QED BY <2>1, <2>3, RelayConstants
<1>7. BreakerHolds'
  BY <1>1 DEF BreakerInv, BreakerHolds
<1> QED BY <1>4, <1>5, <1>6, <1>7 DEF BreakerInv

(* An adapter is tried only when the breaker, which knows all recent        *)
(* failures, is closed for it.                                              *)
LEMMA BeginKeepsBreaker ==
  ASSUME BreakerInv, Types', NEW a \in Adapters, Begin(a)
  PROVE  BreakerInv'
<1>1. /\ failures' = [failures EXCEPT ![a] = Recent(@)]
      /\ UNCHANGED <<now, hard>>
      /\ failures \in [Adapters -> SUBSET (Notes \X Times)]
  BY DEF Begin, history, BreakerInv, Types, TypeOK
<1>2. \A b \in Adapters : Recent(hard[b]) \subseteq failures'[b]
  BY <1>1 DEF BreakerInv, Known, Recent
<1>3. CASE BreakerOpen(a)
  BY <1>1, <1>2, <1>3, BreakerFrame DEF Begin
<1>4. CASE ~BreakerOpen(a)
  <2>1. todo' = todo /\ Turn(a) /\ pc' = "send"
    BY <1>4 DEF Begin
  <2>2. Known' /\ Past' /\ BreakerHolds'
    BY <1>1, <1>2 DEF BreakerInv, Known, Past, BreakerHolds, Recent
  <2>3. Cardinality(Recent(hard[a])) < Limit
    <3>1. Recent(failures[a]) \in SUBSET (Notes \X Times) /\ Recent(hard[a]) \in SUBSET Recent(failures[a])
      BY <1>1 DEF BreakerInv, Known, Recent
    <3>2. /\ Cardinality(Recent(hard[a])) \in Nat /\ Cardinality(Recent(failures[a])) \in Nat
          /\ Cardinality(Recent(hard[a])) <= Cardinality(Recent(failures[a]))
      BY <3>1, FewerFailures, FailuresFinite
    <3> QED BY <1>4, <3>2, RelayConstants DEF BreakerOpen
  <2>4. Tried'
    <3> SUFFICES ASSUME NEW b \in Adapters, Turn(b) PROVE Cardinality(Recent(hard[b])) < Limit
      BY <1>1, <2>1 DEF Tried, Turn, Recent
    <3>1. a = b
      BY <2>1, RelayConstants DEF Turn, Adapters
    <3> QED BY <2>3, <3>1
  <2> QED BY <2>2, <2>4 DEF BreakerInv
<1> QED BY <1>3, <1>4

(* A send exhausts its attempts: at most the last failure the window may    *)
(* hold.                                                                    *)
LEMMA ExhaustedKeepsBreaker ==
  ASSUME BreakerInv, Types', NEW a \in Adapters, Exhausted(a)
  PROVE  BreakerInv'
<1> DEFINE new == <<note, now>>
<1>1. /\ failures' = [failures EXCEPT ![a] = Recent(@ \cup {new})]
      /\ hard' = [hard EXCEPT ![a] = @ \cup {new}]
      /\ now' = now /\ now \in Times /\ new[2] = now /\ pc' = "dispatch"
      /\ failures \in [Adapters -> SUBSET (Notes \X Times)]
      /\ hard \in [Adapters -> SUBSET (Notes \X Times)]
  BY DEF Exhausted, Leave, BreakerInv, Types, TypeOK
<1> HIDE DEF new
<1>2. Known'
  BY <1>1 DEF BreakerInv, Known, Recent
<1>3. Past'
  <2> SUFFICES ASSUME NEW b \in Adapters, NEW f \in hard'[b] PROVE f[2] <= now
    BY <1>1 DEF Past
  <2>1. f \in hard[b] \/ f = new
    BY <1>1
  <2>2. now <= now
    BY <1>1, RelayConstants DEF Times
  <2> QED BY <1>1, <2>1, <2>2 DEF BreakerInv, Past
<1>4. Tried'
  BY <1>1 DEF Tried
<1>5. BreakerHolds'
  <2> SUFFICES ASSUME NEW b \in Adapters, NEW t \in Times
               PROVE  Cardinality({f \in hard'[b] : f[2] \in t..(t + Window - 1)}) <= Limit
    BY DEF BreakerHolds
  <2> DEFINE S == {f \in hard[b] : f[2] \in t..(t + Window - 1)}
             T == {f \in hard'[b] : f[2] \in t..(t + Window - 1)}
  <2>1. Cardinality(S) <= Limit
    BY DEF BreakerInv, BreakerHolds
  <2>2. CASE b # a \/ now \notin t..(t + Window - 1)
    <3>1. T = S
      BY <1>1, <2>2
    <3> QED BY <2>1, <3>1
  <2>3. CASE b = a /\ now \in t..(t + Window - 1)
    <3>1. T = S \cup {new}
      BY <1>1, <2>3
    <3>2. S \in SUBSET Recent(hard[a])
      <4> SUFFICES ASSUME NEW f \in S PROVE f[2] + Window > now
        BY <2>3 DEF Recent
      <4>1. f[2] \in Nat /\ f[2] >= t
        BY <1>1, RelayConstants DEF Times
      <4> QED BY <1>1, <2>3, <4>1, RelayConstants DEF Times
    <3>3. Recent(hard[a]) \in SUBSET (Notes \X Times)
      BY <1>1 DEF Recent
    <3>4. Cardinality(Recent(hard[a])) < Limit
      BY DEF BreakerInv, Tried, Exhausted
    <3> HIDE DEF S, T
    <3>5. IsFiniteSet(S) /\ Cardinality(S) \in Nat /\ Cardinality(Recent(hard[a])) \in Nat
          /\ Cardinality(S) <= Cardinality(Recent(hard[a]))
      BY <3>2, <3>3, FewerFailures, FailuresFinite
    <3>6. Cardinality(T) <= Cardinality(S) + 1
      <4>1. Cardinality(S \cup {new}) = IF new \in S THEN Cardinality(S) ELSE Cardinality(S) + 1
        BY <3>5, FS_AddElement, Zenon
      <4> QED BY <3>1, <3>5, <4>1
    <3>7. Cardinality(T) \in Nat
      BY <3>1, <3>5, FS_AddElement, FS_CardinalityType
    <3>8. Cardinality(T) <= Limit
      BY <3>4, <3>5, <3>6, <3>7, RelayConstants
    <3> QED BY <3>8 DEF T
  <2> QED BY <2>2, <2>3
<1> QED BY <1>2, <1>3, <1>4, <1>5 DEF BreakerInv

LEMMA BreakerStep == BreakerInv /\ [Next]_vars => BreakerInv'
<1> SUFFICES ASSUME BreakerInv, [Next]_vars PROVE BreakerInv'
  OBVIOUS
<1>0. Types'
  BY TypesStep DEF BreakerInv
<1> DEFINE Stays == UNCHANGED <<now, hard, failures>>
<1>a. Stays => /\ now' = now
               /\ \A a \in Adapters : /\ hard'[a] \in {{}, hard[a]}
                                      /\ Recent(hard'[a]) \subseteq failures'[a]
  BY DEF BreakerInv, Known
<1>1. CASE Tick
  BY <1>0, <1>1, TickKeepsBreaker
<1>2. CASE Reload
  <2>1. \A a \in Adapters : /\ hard'[a] \in {{}, hard[a]}
                            /\ Recent(hard'[a]) \subseteq failures'[a]
    BY <1>2 DEF Reload, Recent, BreakerInv, Known
  <2> QED BY <1>0, <1>2, <2>1, BreakerFrame DEF Reload, run
<1>3. CASE \E a \in Adapters : Begin(a)
  BY <1>0, <1>3, BeginKeepsBreaker
<1>4. CASE \E a \in Adapters : Exhausted(a)
  BY <1>0, <1>4, ExhaustedKeepsBreaker
<1>5. CASE Emit \/ StopCalled \/ StopReturns \/ UNCHANGED vars
  <2>1. Stays /\ UNCHANGED <<pc, todo>>
    BY <1>5 DEF Emit, StopCalled, StopReturns, vars, run, history
  <2> QED BY <1>0, <1>a, <2>1, BreakerFrame
<1>6. CASE Take \/ Dispatched \/ RunReturns
  <2>1. Stays /\ pc' \notin {"send", "backoff"}
    BY <1>6 DEF Take, Dispatched, RunReturns, history
  <2> QED BY <1>0, <1>a, <2>1, BreakerFrame
<1>7. CASE \E a \in Adapters : Accepted(a) \/ Cancelled(a) \/ BackoffStopped(a)
  <2>1. Stays /\ pc' \notin {"send", "backoff"}
    BY <1>7 DEF Accepted, Cancelled, BackoffStopped, Leave, history
  <2> QED BY <1>0, <1>a, <2>1, BreakerFrame
<1>8. CASE \E a \in Adapters : Refused(a) \/ Retry(a)
  <2>1. Stays /\ pc \in {"send", "backoff"} /\ todo' = todo
    BY <1>8 DEF Refused, Retry, history
  <2> QED BY <1>0, <1>a, <2>1, BreakerFrame
<1> QED BY <1>1, <1>2, <1>3, <1>4, <1>5, <1>6, <1>7, <1>8 DEF Next, Run

(* dispatcher.go, breakerOpen and recordFailure: however long the sends    *)
(* take and whatever is reloaded meanwhile, no window sees more than Limit *)
(* sends to an adapter exhaust their attempts.                             *)
THEOREM BreakerLimits == Spec => []BreakerHolds
<1>1. Spec => []BreakerInv
  BY BreakerInit, BreakerStep, PTL DEF Spec
<1>2. BreakerInv => BreakerHolds
  BY DEF BreakerInv
<1> QED BY <1>1, <1>2, PTL
===============================================================================

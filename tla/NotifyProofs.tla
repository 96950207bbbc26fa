---------------------------- MODULE NotifyProofs ----------------------------
(***************************************************************************)
(* Proofs about Notify for every number of futures and notifications.      *)
(***************************************************************************)
EXTENDS Notify, WaiterKernelProofs, FiniteSetTheorems, SequenceTheorems

(***************************************************************************)
(* The inductive invariant.                                                *)
(***************************************************************************)
\* A queued future is parked, and a parked one that nobody has flagged is
\* queued; a future is flagged only once it has parked.
FutureOK(f) ==
  /\ f \in InQueue => f \in parked
  /\ f \in parked /\ fut[f] \in {"polling", "pending"} /\ flag[f] = "PENDING" => f \in InQueue
  /\ fut[f] \in {"new", "polling"} /\ f \notin parked => flag[f] = "PENDING"
  /\ fut[f] = "new" => f \notin parked
  /\ fut[f] = "pending" => f \in parked
  /\ fut[f] \in {"polling", "pending"} => ctx[f] \in Wakers

\* A future that a broadcast is for is flagged, or waits in the queue for the
\* thread in the loop.
Reached(f) ==
  /\ fut[f] \in {"polling", "pending", "ready"}
  /\ flag[f] # "PENDING" \/ (lock /\ f \in InQueue)

Shape ==
  /\ QueueOK
  /\ QueueMatchesWakers
  /\ \A f \in Futures : FutureOK(f)
  /\ \A f \in addressed : Reached(f)

IInv == TypeOK /\ Shape /\ NotificationsConserved

(***************************************************************************)
(* Types.                                                                  *)
(***************************************************************************)
\* What a dequeued waiter is, and what taking it off the queue leaves.
LEMMA DequeueFacts ==
  ASSUME TypeOK, Shape, signal_woke
  PROVE  /\ Head(queue) \in Futures /\ Head(queue) \in InQueue
         /\ entry[Head(queue)] \in Wakers /\ flag[Head(queue)] = "PENDING"
         /\ fut[Head(queue)] \in {"polling", "pending"}
         /\ QueueOK' /\ InQueue' = InQueue \ {Head(queue)} /\ permit' = permit
<1>1. /\ QueueOK' /\ Head(queue) \in InQueue /\ InQueue' = InQueue \ {Head(queue)}
  BY SignalWokeStep DEF Shape
<1>2. Head(queue) \in Futures
  BY <1>1, InQueueType DEF Shape
<1>3. QED
  BY <1>1, <1>2 DEF Shape, QueueMatchesWakers, TypeOK, signal_woke

\* deliver_one, for a call of notify_one and for a dropped future alike.
LEMMA DeliverFacts ==
  ASSUME TypeOK, Shape, deliver_one
  PROVE  /\ permit' \in Nat /\ QueueOK'
         /\ flag' \in [Futures -> Flags] /\ entry' \in [Futures -> Wakers \cup {NoWaker}]
         /\ waking' \subseteq Futures \X Wakers
<1>1. CASE Dequeue("NOTIFIED_ONE") /\ waking' = waking \cup {Taken}
  BY <1>1, DequeueFacts DEF Dequeue, Taken, TypeOK, Flags
<1>2. CASE signal_stored /\ UNCHANGED <<flag, entry, waking>>
  BY <1>2 DEF signal_stored, Shape, QueueOK, TypeOK
<1>3. QED
  BY <1>1, <1>2 DEF deliver_one

\* Every step keeps the types.
LEMMA TypeStep == TypeOK /\ Shape /\ [Next]_vars => TypeOK'
<1> SUFFICES ASSUME TypeOK, Shape, [Next]_vars PROVE TypeOK'
  OBVIOUS
<1>1. CASE notify_one
  <2>1. queue' \in Seq(Futures)
    BY <1>1, DeliverFacts DEF notify_one, QueueOK
  <2>2. QED
    BY <1>1, <2>1, DeliverFacts DEF notify_one, signalv, TypeOK
<1>2. CASE notify_waiters
  <2>1. InQueue \subseteq Futures
    BY InQueueType DEF Shape
  <2>2. QED
    BY <1>2, <2>1 DEF notify_waiters, kernel, futv, counts, TypeOK
<1>3. CASE FlagWaiter
  <2>1. queue' \in Seq(Futures)
    BY <1>3, DequeueFacts DEF FlagWaiter, Dequeue, QueueOK
  <2>2. QED
    BY <1>3, <2>1, DequeueFacts DEF FlagWaiter, Dequeue, Taken, counts, TypeOK, Flags
<1>4. CASE Unlock
  BY <1>4 DEF Unlock, kernel, futv, counts, TypeOK
<1>5. ASSUME NEW f \in Futures, NEW w \in Wakers, Wake(f, w) PROVE TypeOK'
  BY <1>5 DEF Wake, kernel, signalv, futv, counts, TypeOK
<1>6. ASSUME NEW f \in Futures, notified(f) PROVE TypeOK'
  BY <1>6 DEF notified, kernel, signalv, counts, TypeOK, FutStates, Flags
<1>7. ASSUME NEW f \in Futures, NEW w \in Wakers, PollLoad(f, w) PROVE TypeOK'
  BY <1>7 DEF PollLoad, kernel, signalv, TypeOK, FutStates
<1>8. ASSUME NEW f \in Futures, PollReady(f) PROVE TypeOK'
  BY <1>8 DEF PollReady, take_step, signalv, TypeOK, FutStates
<1>9. ASSUME NEW f \in Futures, PollPark(f) PROVE TypeOK'
  <2>1. queue' \in Seq(Futures) /\ permit' = permit
    BY <1>9 DEF PollPark, park_step, TypeOK
  <2>2. QED
    BY <1>9, <2>1 DEF PollPark, signalv, counts, TypeOK, FutStates
<1>10. ASSUME NEW f \in Futures, PollAgain(f) PROVE TypeOK'
  BY <1>10 DEF PollAgain, kernel, signalv, counts, TypeOK, FutStates
<1>11. ASSUME NEW f \in Futures, DropIdle(f) PROVE TypeOK'
  BY <1>11 DEF DropIdle, kernel, signalv, counts, TypeOK, FutStates
<1>12. ASSUME NEW f \in Futures, DropParked(f) PROVE TypeOK'
  <2>1. queue' \in Seq(Futures) /\ permit' = permit
    BY <1>12, RemoveStep DEF DropParked, remove_step, Shape, QueueOK
  <2>2. QED
    BY <1>12, <2>1 DEF DropParked, signalv, counts, TypeOK, FutStates
<1>13. ASSUME NEW f \in Futures, DropNotified(f) PROVE TypeOK'
  <2>1. /\ permit' \in Nat /\ queue' \in Seq(Futures)
        /\ flag' \in [Futures -> Flags] /\ entry' \in [Futures -> Wakers \cup {NoWaker}]
        /\ waking' \subseteq Futures \X Wakers
    BY <1>13, DeliverFacts DEF DropNotified, kernel, QueueOK, TypeOK
  <2>2. QED
    BY <1>13, <2>1 DEF DropNotified, signalv, counts, TypeOK, FutStates
<1>14. CASE UNCHANGED vars
  BY <1>14 DEF vars, kernel, signalv, futv, counts, TypeOK
<1>15. QED
  BY <1>1, <1>2, <1>3, <1>4, <1>5, <1>6, <1>7, <1>8, <1>9, <1>10, <1>11, <1>12, <1>13, <1>14
  DEF Next, WaitersStep, Waking, FutureStep, Polled, DropFuture

(***************************************************************************)
(* Queue, wakers, flags and futures agree after every step.                *)
(***************************************************************************)
\* Each operation, poll and drop, one by one.
LEMMA ShapeStep == TypeOK /\ Shape /\ [Next]_vars => Shape'
<1> SUFFICES ASSUME TypeOK, Shape, [Next]_vars PROVE Shape'
  OBVIOUS
<1> USE DEF FutureOK, Reached, QueueMatchesWakers
<1>0. /\ QueueOK /\ QueueMatchesWakers /\ InQueue \subseteq Futures
      /\ (queue = <<>> <=> InQueue = {})
      /\ \A f \in Futures : FutureOK(f)
      /\ \A f \in addressed : Reached(f)
  BY InQueueType, InQueueEmpty DEF Shape
<1>t. addressed \subseteq Futures
  BY DEF TypeOK
<1>1. CASE notify_one
  <2>1. CASE Dequeue("NOTIFIED_ONE")
    BY <1>0, <1>t, <1>1, <2>1, DequeueFacts DEF notify_one, Dequeue, signalv, TypeOK, Shape
  <2>2. CASE signal_stored /\ UNCHANGED <<flag, entry, waking>>
    <3>1. QueueOK' /\ InQueue' = InQueue
      BY <1>0, <2>2 DEF signal_stored, QueueOK, InQueue
    <3>2. QED
      BY <1>0, <1>1, <2>2, <3>1 DEF notify_one, signalv, Shape
  <2>3. QED
    BY <1>1, <2>1, <2>2 DEF notify_one, deliver_one
<1>2. CASE notify_waiters
  <2>1. QueueOK' /\ InQueue' = InQueue
    BY <1>0, <1>2 DEF notify_waiters, kernel, QueueOK, InQueue
  <2>2. QED
    BY <1>0, <1>2, <2>1 DEF notify_waiters, futv, Shape
<1>3. CASE FlagWaiter
  BY <1>0, <1>t, <1>3, DequeueFacts DEF FlagWaiter, Dequeue, TypeOK, Shape
<1>4. CASE Unlock
  <2>1. QueueOK' /\ InQueue' = InQueue /\ InQueue = {}
    BY <1>0, <1>4 DEF Unlock, kernel, QueueOK, InQueue
  <2>2. QED
    BY <1>0, <1>4, <2>1 DEF Unlock, futv, Shape
<1>5. ASSUME NEW f \in Futures, NEW w \in Wakers, Wake(f, w) PROVE Shape'
  <2>1. QueueOK' /\ InQueue' = InQueue
    BY <1>0, <1>5 DEF Wake, kernel, QueueOK, InQueue
  <2>2. QED
    BY <1>0, <1>5, <2>1 DEF Wake, signalv, futv, Shape
<1>6. ASSUME NEW f \in Futures, notified(f) PROVE Shape'
  <2>1. QueueOK' /\ InQueue' = InQueue
    BY <1>0, <1>6 DEF notified, kernel, QueueOK, InQueue
  <2>2. QED
    BY <1>0, <1>t, <1>6, <2>1 DEF notified, signalv, TypeOK, Shape
<1>7. ASSUME NEW f \in Futures, NEW w \in Wakers, PollLoad(f, w) PROVE Shape'
  <2>1. QueueOK' /\ InQueue' = InQueue
    BY <1>0, <1>7 DEF PollLoad, kernel, QueueOK, InQueue
  <2>2. QED
    BY <1>0, <1>t, <1>7, <2>1 DEF PollLoad, signalv, TypeOK, Shape
<1>8. ASSUME NEW f \in Futures, PollReady(f) PROVE Shape'
  <2>1. QueueOK' /\ InQueue' = InQueue
    BY <1>0, <1>8 DEF PollReady, take_step, QueueOK, InQueue
  <2>2. QED
    BY <1>0, <1>t, <1>8, <2>1 DEF PollReady, signalv, TypeOK, Shape
<1>9. ASSUME NEW f \in Futures, PollPark(f) PROVE Shape'
  <2>1. QueueOK' /\ InQueue' = InQueue \cup {f} /\ f \notin InQueue
    BY <1>0, <1>9, ParkStep DEF PollPark
  <2>2. flag[f] = "PENDING" /\ ctx[f] \in Wakers /\ ctx[f] # NoWaker
    BY <1>0, <1>9, WakersAssumption DEF PollPark
  <2>3. QED
    BY <1>0, <1>t, <1>9, <2>1, <2>2 DEF PollPark, signalv, TypeOK, Shape
<1>10. ASSUME NEW f \in Futures, PollAgain(f) PROVE Shape'
  <2>1. QueueOK' /\ InQueue' = InQueue
    BY <1>0, <1>10 DEF PollAgain, kernel, QueueOK, InQueue
  <2>2. ctx[f] # NoWaker
    BY <1>0, <1>10, WakersAssumption DEF PollAgain
  <2>3. QED
    BY <1>0, <1>t, <1>10, <2>1, <2>2 DEF PollAgain, signalv, TypeOK, Shape
<1>11. ASSUME NEW f \in Futures, DropIdle(f) PROVE Shape'
  <2>1. QueueOK' /\ InQueue' = InQueue
    BY <1>0, <1>11 DEF DropIdle, kernel, QueueOK, InQueue
  <2>2. QED
    BY <1>0, <1>t, <1>11, <2>1 DEF DropIdle, signalv, TypeOK, Shape
<1>12. ASSUME NEW f \in Futures, DropParked(f) PROVE Shape'
  <2>1. QueueOK' /\ InQueue' = InQueue \ {f}
    BY <1>0, <1>12, RemoveStep DEF DropParked
  <2>2. QED
    BY <1>0, <1>t, <1>12, <2>1 DEF DropParked, signalv, TypeOK, Shape
<1>13. ASSUME NEW f \in Futures, DropNotified(f) PROVE Shape'
  <2>0. /\ fut' = [fut EXCEPT ![f] = "gone"] /\ addressed' = addressed \ {f} /\ f \notin InQueue
        /\ fut[f] = "pending" /\ UNCHANGED <<lock, parked, ctx>>
    BY <1>13 DEF DropNotified, signalv
  <2>1. CASE Dequeue("NOTIFIED_ONE")
    BY <1>0, <1>t, <2>0, <2>1, DequeueFacts DEF Dequeue, TypeOK, Shape
  <2>2. CASE (signal_stored \/ UNCHANGED kernel) /\ UNCHANGED <<flag, entry>>
    <3>1. QueueOK' /\ InQueue' = InQueue
      BY <1>0, <2>2 DEF signal_stored, kernel, QueueOK, InQueue
    <3>2. QED
      BY <1>0, <1>t, <2>0, <2>2, <3>1 DEF TypeOK, Shape
  <2>3. QED
    BY <1>13, <2>1, <2>2 DEF DropNotified, deliver_one
<1>14. CASE UNCHANGED vars
  <2>1. QueueOK' /\ InQueue' = InQueue
    BY <1>0, <1>14 DEF vars, kernel, QueueOK, InQueue
  <2>2. QED
    BY <1>0, <1>14, <2>1 DEF vars, signalv, futv, Shape
<1>15. QED
  BY <1>1, <1>2, <1>3, <1>4, <1>5, <1>6, <1>7, <1>8, <1>9, <1>10, <1>11, <1>12, <1>13, <1>14
  DEF Next, WaitersStep, Waking, FutureStep, Polled, DropFuture

(***************************************************************************)
(* Counting the notifications on their way.                                *)
(***************************************************************************)
\* There are finitely many of them.
LEMMA UndeliveredFinite ==
  IsFiniteSet(Undelivered) /\ Cardinality(Undelivered) \in Nat
<1>1. Undelivered \in SUBSET Futures
  BY DEF Undelivered
<1>2. IsFiniteSet(Undelivered)
  BY <1>1, FuturesAssumption, FS_Subset
<1>3. QED
  BY <1>2, FS_CardinalityType

\* How the number changes with the set.
LEMMA UndeliveredCount ==
  ASSUME NEW S, IsFiniteSet(S), NEW f
  PROVE  /\ f \notin S => Cardinality(S \cup {f}) = Cardinality(S) + 1
         /\ f \in S => Cardinality(S \ {f}) = Cardinality(S) - 1
BY FS_AddElement, FS_RemoveElement

\* deliver_one passes one notification on: to a waiter or to the store.  D is
\* what was on the way to others.
LEMMA DeliverCount ==
  ASSUME TypeOK, Shape, deliver_one,
         NEW D, D \subseteq Undelivered,
         Undelivered' = D \cup {f \in Futures : flag'[f] = "NOTIFIED_ONE" /\ flag[f] = "PENDING"}
  PROVE  permit' + Cardinality(Undelivered') = permit + Cardinality(D) + 1
<1>1. IsFiniteSet(D) /\ Cardinality(D) \in Nat
  BY UndeliveredFinite, FS_Subset, FS_CardinalityType
<1>2. permit \in Nat
  BY DEF TypeOK
<1>3. CASE Dequeue("NOTIFIED_ONE")
  <2> DEFINE h == Head(queue)
  <2>1. h \in Futures /\ flag[h] = "PENDING" /\ permit' = permit /\ flag' = [flag EXCEPT ![h] = "NOTIFIED_ONE"]
    BY <1>3, DequeueFacts DEF Dequeue
  <2> HIDE DEF h
  <2>2. h \notin D
    BY <2>1 DEF Undelivered
  <2>3. Undelivered' = D \cup {h}
    BY <2>1 DEF TypeOK
  <2>4. Cardinality(Undelivered') = Cardinality(D) + 1
    BY <1>1, <2>2, <2>3, UndeliveredCount
  <2>5. QED
    BY <1>1, <1>2, <2>1, <2>4
<1>4. CASE signal_stored /\ UNCHANGED flag
  <2>1. Undelivered' = D /\ permit' = permit + 1
    BY <1>4 DEF signal_stored
  <2>2. QED
    BY <1>1, <1>2, <2>1
<1>5. QED
  BY <1>3, <1>4 DEF deliver_one

\* Every step keeps the account of notify_one's notifications.
LEMMA CountStep == IInv /\ [Next]_vars => NotificationsConserved'
<1> SUFFICES ASSUME IInv, [Next]_vars PROVE NotificationsConserved'
  OBVIOUS
<1> USE DEF NotificationsConserved
<1>0. /\ TypeOK /\ Shape /\ NotificationsConserved
      /\ IsFiniteSet(Undelivered) /\ Cardinality(Undelivered) \in Nat
      /\ \A f \in Futures : FutureOK(f)
      /\ flag \in [Futures -> Flags] /\ fut \in [Futures -> FutStates]
  BY UndeliveredFinite DEF IInv, Shape, TypeOK
<1> DEFINE C == Cardinality(Undelivered)
<1>n. permit \in Nat /\ sent \in Nat /\ consumed \in Nat
  BY <1>0 DEF TypeOK
<1>1. CASE notify_one
  <2>1. sent' = sent + 1 /\ UNCHANGED <<fut, consumed>> /\ deliver_one
    BY <1>1 DEF notify_one
  <2>2. \A f \in Futures : flag[f] # "PENDING" => flag'[f] = flag[f]
    BY <1>0, <2>1, DequeueFacts DEF deliver_one, Dequeue
  <2>3. \A f \in Futures : flag'[f] # flag[f] => fut[f] \in {"polling", "pending"}
    BY <1>0, <2>1, DequeueFacts DEF deliver_one, Dequeue
  <2>4. Undelivered' = Undelivered \cup {f \in Futures : flag'[f] = "NOTIFIED_ONE" /\ flag[f] = "PENDING"}
    BY <1>0, <2>1, <2>2, <2>3 DEF Undelivered, Flags
  <2>5. permit' + Cardinality(Undelivered') = permit + C + 1
    BY <1>0, <2>1, <2>4, DeliverCount
  <2>6. permit' \in Nat /\ Cardinality(Undelivered') \in Nat
    <3>1. Undelivered' \subseteq Futures
      BY DEF Undelivered
    <3>2. QED
      BY <1>0, <2>1, <3>1, DeliverFacts, FuturesAssumption, FS_Subset, FS_CardinalityType
  <2>7. QED
    BY <1>0, <1>n, <2>1, <2>5, <2>6
<1>2. CASE FlagWaiter
  <2>1. Undelivered' = Undelivered /\ UNCHANGED <<permit, sent, consumed>>
    BY <1>0, <1>2, DequeueFacts DEF FlagWaiter, Dequeue, counts, Undelivered
  <2>2. QED
    BY <1>0, <2>1
<1>3. CASE notify_waiters \/ Unlock \/ Waking \/ UNCHANGED vars
  <2>1. Undelivered' = Undelivered /\ UNCHANGED <<permit, sent, consumed>>
    BY <1>3 DEF notify_waiters, Unlock, Waking, Wake, vars, kernel, futv, counts, Undelivered
  <2>2. QED
    BY <1>0, <2>1
<1>4. ASSUME NEW f \in Futures, NEW w \in Wakers, PollLoad(f, w) PROVE NotificationsConserved'
  <2>1. UNCHANGED <<permit, sent, flag>>
    BY <1>4 DEF PollLoad, kernel
  <2>2. CASE flag[f] = "NOTIFIED_ONE"
    <3>1. fut' = [fut EXCEPT ![f] = "ready"] /\ consumed' = consumed + 1 /\ fut[f] = "pending"
      BY <1>0, <1>4, <2>2 DEF PollLoad, FutureOK
    <3>2. Undelivered' = Undelivered \ {f} /\ f \in Undelivered
      BY <1>0, <2>1, <2>2, <3>1 DEF Undelivered
    <3>3. Cardinality(Undelivered') = C - 1
      BY <1>0, <3>2, UndeliveredCount
    <3>4. QED
      BY <1>0, <1>n, <2>1, <3>1, <3>3
  <2>3. CASE flag[f] # "NOTIFIED_ONE"
    <3>1. Undelivered' = Undelivered /\ consumed' = consumed
      BY <1>0, <1>4, <2>1, <2>3 DEF PollLoad, Undelivered
    <3>2. QED
      BY <1>0, <2>1, <3>1
  <2>4. QED
    BY <2>2, <2>3
<1>5. ASSUME NEW f \in Futures, PollReady(f) PROVE NotificationsConserved'
  <2>1. /\ permit' = permit - 1 /\ consumed' = consumed + 1
        /\ fut' = [fut EXCEPT ![f] = "ready"] /\ UNCHANGED <<sent, flag>>
    BY <1>5 DEF PollReady, take_step
  <2>2. flag[f] = "PENDING"
    BY <1>0, <1>5 DEF PollReady, FutureOK
  <2>3. Undelivered' = Undelivered
    BY <1>0, <2>1, <2>2 DEF Undelivered
  <2>4. QED
    BY <1>0, <1>n, <2>1, <2>3
<1>6. ASSUME NEW f \in Futures,
             notified(f) \/ PollPark(f) \/ PollAgain(f) \/ DropIdle(f) \/ DropParked(f)
      PROVE  NotificationsConserved'
  <2>1. UNCHANGED <<permit, sent, consumed>>
    BY <1>6 DEF notified, PollPark, PollAgain, DropIdle, DropParked, park_step, remove_step, kernel, counts
  <2>2. CASE notified(f)
    BY <1>0, <2>1, <2>2 DEF notified, Undelivered
  <2>3. CASE PollPark(f) \/ PollAgain(f)
    BY <1>0, <2>1, <2>3 DEF PollPark, PollAgain, Undelivered
  <2>4. CASE DropIdle(f)
    BY <1>0, <2>1, <2>4 DEF DropIdle, Undelivered
  <2>5. CASE DropParked(f)
    <3>1. flag[f] = "PENDING"
      BY <1>0, <2>5 DEF DropParked, remove_step, Shape, QueueMatchesWakers
    <3>2. Undelivered' = Undelivered
      BY <1>0, <2>5, <3>1 DEF DropParked, Undelivered
    <3>3. QED
      BY <1>0, <2>1, <3>2
  <2>6. QED
    BY <1>6, <2>2, <2>3, <2>4, <2>5
<1>7. ASSUME NEW f \in Futures, DropNotified(f) PROVE NotificationsConserved'
  <2>1. /\ fut' = [fut EXCEPT ![f] = "gone"] /\ fut[f] = "pending" /\ UNCHANGED <<sent, consumed>>
    BY <1>7 DEF DropNotified, counts
  <2>2. CASE flag[f] = "NOTIFIED_ONE"
    <3>1. deliver_one /\ f \in Undelivered
      BY <1>7, <2>1, <2>2 DEF DropNotified, Undelivered
    <3>2. \A g \in Futures : flag[g] # "PENDING" => flag'[g] = flag[g]
      BY <1>0, <3>1, DequeueFacts DEF deliver_one, Dequeue
    <3>3. \A g \in Futures : flag'[g] # flag[g] => fut[g] \in {"polling", "pending"}
      BY <1>0, <3>1, DequeueFacts DEF deliver_one, Dequeue
    <3> DEFINE D == Undelivered \ {f}
    <3>4. Undelivered' = D \cup {g \in Futures : flag'[g] = "NOTIFIED_ONE" /\ flag[g] = "PENDING"}
      BY <1>0, <2>1, <2>2, <3>2, <3>3 DEF Undelivered, Flags
    <3>5. Cardinality(D) = C - 1
      BY <1>0, <3>1, UndeliveredCount
    <3>6. permit' + Cardinality(Undelivered') = permit + Cardinality(D) + 1
      BY <1>0, <3>1, <3>4, DeliverCount
    <3>7. permit' \in Nat /\ Cardinality(Undelivered') \in Nat
      <4>1. Undelivered' \subseteq Futures
        BY DEF Undelivered
      <4>2. QED
        BY <1>0, <3>1, <4>1, DeliverFacts, FuturesAssumption, FS_Subset, FS_CardinalityType
    <3> HIDE DEF D
    <3>8. QED
      BY <1>0, <1>n, <2>1, <3>5, <3>6, <3>7
  <2>3. CASE flag[f] # "NOTIFIED_ONE"
    <3>1. Undelivered' = Undelivered /\ permit' = permit
      BY <1>0, <1>7, <2>1, <2>3 DEF DropNotified, kernel, Undelivered
    <3>2. QED
      BY <1>0, <2>1, <3>1
  <2>4. QED
    BY <2>2, <2>3
<1>8. QED
  BY <1>1, <1>2, <1>3, <1>4, <1>5, <1>6, <1>7
  DEF Next, WaitersStep, FutureStep, Polled, DropFuture

(***************************************************************************)
(* The theorems.                                                           *)
(***************************************************************************)
\* The invariant holds in a new Notify.
LEMMA IInvInit == Init => IInv
<1> SUFFICES ASSUME Init PROVE IInv
  OBVIOUS
<1>1. queue = <<>> /\ permit = 0
  BY DEF Init, with_permits
<1>2. TypeOK
  <2>1. /\ entry \in [Futures -> Wakers \cup {NoWaker}] /\ ctx \in [Futures -> Wakers \cup {NoWaker}]
        /\ fut \in [Futures -> FutStates] /\ flag \in [Futures -> Flags]
    BY DEF Init, FutStates, Flags
  <2>2. queue \in Seq(Futures)
    BY <1>1
  <2>3. QED
    BY <1>1, <2>1, <2>2 DEF Init, TypeOK
<1>3. InQueue = {} /\ QueueOK
  BY <1>1 DEF InQueue, QueueOK, Distinct
<1>4. Shape
  BY <1>3 DEF Init, Shape, FutureOK, Reached, QueueMatchesWakers
<1>5. Undelivered = {}
  BY DEF Init, Undelivered
<1>6. NotificationsConserved
  BY <1>1, <1>5, FS_EmptySet DEF Init, NotificationsConserved
<1>7. QED
  BY <1>2, <1>4, <1>6 DEF IInv

\* Every step keeps the invariant.
LEMMA IInvStep == IInv /\ [Next]_vars => IInv'
BY TypeStep, ShapeStep, CountStep DEF IInv

\* The state of a Notify and of its futures stays well typed.
THEOREM NotifyTypes == Spec => []TypeOK
<1>1. IInv => TypeOK
  BY DEF IInv
<1>2. QED
  BY <1>1, IInvInit, IInvStep, PTL DEF Spec

\* Whatever is notified, polled and dropped in whatever order, queue and waker
\* list agree and every notify_one is stored, on its way to one future or has
\* completed one -- for any number of futures, wakers and calls.
THEOREM NotifySound == Spec => []NotificationsSound
<1>1. IInv => NotificationsSound
  BY DEF IInv, Shape, NotificationsSound
<1>2. QED
  BY <1>1, IInvInit, IInvStep, PTL DEF Spec

(***************************************************************************)
(* No notification goes unnoticed, as long as every future is polled with  *)
(* one waker.                                                              *)
(***************************************************************************)
\* A flag that is set between a poll's look at it and the poll's end counts too.
WakeArmed ==
  \A f \in Futures : fut[f] \in {"polling", "pending"} /\ flag[f] # "PENDING" =>
     f \in woken \/ <<f, ctx[f]>> \in waking \cup collected

\* Every step keeps the wake on its way until the next poll.
LEMMA WakeArmedStep ==
  ASSUME \A v, w \in Wakers : v = w
  PROVE  IInv /\ WakeArmed /\ [Next]_vars => WakeArmed'
<1> SUFFICES ASSUME IInv, WakeArmed, [Next]_vars PROVE WakeArmed'
  OBVIOUS
<1> USE DEF WakeArmed
<1>0. /\ TypeOK /\ Shape
      /\ fut \in [Futures -> FutStates] /\ ctx \in [Futures -> Wakers \cup {NoWaker}]
      /\ flag \in [Futures -> Flags]
      /\ \A f \in Futures : FutureOK(f)
  BY DEF IInv, Shape, TypeOK
<1>1. ASSUME signal_woke PROVE Taken = <<Head(queue), ctx[Head(queue)]>>
  BY <1>0, <1>1, DequeueFacts DEF FutureOK, Taken
<1>2. CASE notify_one
  BY <1>0, <1>1, <1>2 DEF notify_one, deliver_one, Dequeue, signalv
<1>3. CASE notify_waiters \/ Unlock
  BY <1>3 DEF notify_waiters, Unlock, futv
<1>4. CASE FlagWaiter
  BY <1>0, <1>1, <1>4 DEF FlagWaiter, Dequeue
<1>5. ASSUME NEW f \in Futures, NEW w \in Wakers, Wake(f, w) PROVE WakeArmed'
  BY <1>0, <1>5 DEF Wake, signalv, futv
<1>6. ASSUME NEW f \in Futures, notified(f) PROVE WakeArmed'
  BY <1>0, <1>6 DEF notified, signalv
<1>7. ASSUME NEW f \in Futures, NEW w \in Wakers, PollLoad(f, w) PROVE WakeArmed'
  BY <1>0, <1>7 DEF PollLoad, signalv
<1>8. ASSUME NEW f \in Futures, PollReady(f) PROVE WakeArmed'
  BY <1>0, <1>8 DEF PollReady, signalv
<1>9. ASSUME NEW f \in Futures, PollPark(f) \/ PollAgain(f) PROVE WakeArmed'
  BY <1>0, <1>9 DEF PollPark, PollAgain, signalv
<1>10. ASSUME NEW f \in Futures, DropIdle(f) \/ DropParked(f) PROVE WakeArmed'
  BY <1>0, <1>10 DEF DropIdle, DropParked, signalv
<1>11. ASSUME NEW f \in Futures, DropNotified(f) PROVE WakeArmed'
  BY <1>0, <1>1, <1>11 DEF DropNotified, deliver_one, Dequeue, signalv
<1>12. CASE UNCHANGED vars
  BY <1>12 DEF vars, signalv, futv
<1>13. QED
  BY <1>2, <1>3, <1>4, <1>5, <1>6, <1>7, <1>8, <1>9, <1>10, <1>11, <1>12
  DEF Next, WaitersStep, Waking, FutureStep, Polled, DropFuture

\* With one waker per future, notify_waiters reaches every future that was
\* parked and a flagged future that is suspended has been or is being woken,
\* although poll reads its flag outside the lock.
THEOREM NotificationsNoticed ==
  ASSUME \A v, w \in Wakers : v = w
  PROVE  Spec => []NotificationsArrive
<1>1. Init => WakeArmed
  BY DEF Init, WakeArmed
<1>2. IInv /\ WakeArmed => NotificationsArrive
  BY DEF IInv, Shape, Reached, WakeArmed, NotificationsArrive, BroadcastReachesAll, NoLostNotification
<1>3. IInv /\ WakeArmed /\ [Next]_vars => WakeArmed'
  BY WakeArmedStep
<1>4. QED
  BY <1>1, <1>2, <1>3, IInvInit, IInvStep, PTL DEF Spec

(***************************************************************************)
(* Notify serves its waiters in turn: it implements WaitLine.              *)
(***************************************************************************)
\* What the abstract line's state is, in a state of Notify.
LEMMA LineFacts ==
  IInv => /\ queue \in Seq(Futures) /\ permit \in Nat /\ consumed \in Nat
          /\ lock \in BOOLEAN
          /\ ~lock => WaitingLine = queue
          /\ lock => WaitingLine = <<>>
BY DEF IInv, TypeOK, WaitingLine

\* deliver_one hands one permit to the head of the line, or leaves it free; g
\* are those who were handed one before and keep it.
LEMMA DeliverHands ==
  ASSUME IInv, ~lock, ~lock', deliver_one, NEW g,
         Undelivered' = g \cup {f \in Futures : flag'[f] = "NOTIFIED_ONE" /\ flag[f] = "PENDING"}
  PROVE  NotifyLine!Hand(1, g)
<1>1. WaitingLine = queue /\ WaitingLine' = queue' /\ queue \in Seq(Futures) /\ permit \in Nat
  BY LineFacts DEF WaitingLine
<1>2. TypeOK /\ Shape
  BY DEF IInv
<1>3. CASE Dequeue("NOTIFIED_ONE")
  <2>1. /\ queue # <<>> /\ queue' = Tail(queue) /\ permit' = permit
        /\ flag' = [flag EXCEPT ![Head(queue)] = "NOTIFIED_ONE"]
        /\ Head(queue) \in Futures /\ flag[Head(queue)] = "PENDING"
    BY <1>2, <1>3, DequeueFacts DEF Dequeue, signal_woke
  <2>2. Len(queue) \in Nat /\ Len(queue) >= 1 /\ Head(queue) = queue[1]
    BY <1>1, <2>1
  <2>3. Undelivered' = g \cup {queue[1]}
    BY <1>2, <2>1, <2>2 DEF TypeOK
  <2>4. queue' = SubSeq(queue, 2, Len(queue))
    BY <1>1, <2>1, TailIsSubSeq
  <2>5. {queue[i] : i \in 1 .. 1} = {queue[1]}
    OBVIOUS
  <2>6. QED
    BY <1>1, <2>1, <2>2, <2>3, <2>4, <2>5 DEF NotifyLine!Hand
<1>4. CASE signal_stored /\ UNCHANGED flag
  <2>1. queue = <<>> /\ queue' = <<>> /\ permit' = permit + 1 /\ Undelivered' = g
    BY <1>4 DEF signal_stored
  <2>2. SubSeq(queue, 1, Len(queue)) = queue
    BY <1>1, SubSeqFull
  <2>3. {queue[i] : i \in 1 .. 0} = {}
    OBVIOUS
  <2>4. QED
    BY <1>1, <2>1, <2>2, <2>3 DEF NotifyLine!Hand
<1>5. QED
  BY <1>3, <1>4 DEF deliver_one

\* No notification is stored while a future waits.
NoBarging == permit > 0 => queue = <<>>

\* A permit is stored only when the queue is empty, and parked only without one.
LEMMA NoBargingStep == IInv /\ NoBarging /\ [Next]_vars => NoBarging'
<1> SUFFICES ASSUME IInv, NoBarging, [Next]_vars PROVE NoBarging'
  OBVIOUS
<1>0. QueueOK /\ permit \in Nat /\ (queue = <<>> <=> InQueue = {})
  BY InQueueEmpty DEF IInv, Shape, TypeOK
<1>1. CASE UNCHANGED <<permit, queue>>
  BY <1>1 DEF NoBarging
<1>2. CASE signal_woke \/ signal_stored
  BY <1>0, <1>2 DEF signal_woke, signal_stored, NoBarging
<1>3. CASE take_step
  BY <1>0, <1>3 DEF take_step, NoBarging
<1>4. ASSUME NEW f \in Futures, park_step(f) \/ remove_step(f) PROVE NoBarging'
  BY <1>0, <1>4 DEF park_step, remove_step, NoBarging
<1>5. CASE \E f \in Futures : FutureStep(f)
  BY <1>1, <1>2, <1>3, <1>4, <1>5 DEF FutureStep, notified, PollLoad, Polled, PollReady, PollPark, PollAgain,
     DropFuture, DropIdle, DropParked, DropNotified, deliver_one, Dequeue, kernel
<1>6. CASE notify_one \/ notify_waiters \/ WaitersStep \/ Waking \/ UNCHANGED vars
  BY <1>1, <1>2, <1>6 DEF notify_one, deliver_one, Dequeue, notify_waiters, WaitersStep, FlagWaiter, Unlock,
     Waking, Wake, vars, kernel
<1>7. QED
  BY <1>5, <1>6 DEF Next

\* The line and who was sent away do not change where queue, lock and flags do not
\* and no future begins or ceases to wait.
LEMMA LineKept ==
  ASSUME UNCHANGED <<queue, lock, flag>>
  PROVE  /\ WaitingLine' = WaitingLine /\ InQueue' = InQueue
         /\ (\A f \in Futures : fut'[f] \in {"polling", "pending"} <=> fut[f] \in {"polling", "pending"})
              => Undelivered' = Undelivered /\ SentAway' = SentAway
BY DEF WaitingLine, InQueue, Undelivered, SentAway

\* Every step of Notify is a step of the line or changes nothing of it.
LEMMA LineStep == IInv /\ NoBarging /\ [Next]_vars => [NotifyLine!LineNext]_(NotifyLine!lineVars)
<1> SUFFICES ASSUME IInv, NoBarging, [Next]_vars PROVE NotifyLine!LineNext \/ UNCHANGED NotifyLine!lineVars
  OBVIOUS
<1>0. /\ TypeOK /\ Shape /\ QueueOK /\ QueueMatchesWakers
      /\ flag \in [Futures -> Flags] /\ fut \in [Futures -> FutStates] /\ lock \in BOOLEAN
      /\ \A f \in Futures : FutureOK(f)
      /\ InQueue \subseteq Futures /\ (queue = <<>> <=> InQueue = {})
      /\ queue \in Seq(Futures) /\ permit \in Nat /\ consumed \in Nat
  BY LineFacts, InQueueType, InQueueEmpty DEF IInv, Shape, TypeOK
<1> DEFINE Same == UNCHANGED <<permit, WaitingLine, Undelivered, SentAway, consumed>>
<1>s. Same => UNCHANGED NotifyLine!lineVars
  BY DEF NotifyLine!lineVars
<1> HIDE DEF Same
<1>1. CASE notify_one
  <2>1. ~lock /\ ~lock' /\ UNCHANGED <<fut, consumed>> /\ deliver_one
    BY <1>1 DEF notify_one, signalv
  <2>2. \A f \in Futures : /\ flag[f] # "PENDING" => flag'[f] = flag[f]
                           /\ flag'[f] # flag[f] => fut[f] \in {"polling", "pending"} /\ flag'[f] = "NOTIFIED_ONE"
    BY <1>0, <2>1, DequeueFacts DEF deliver_one, Dequeue
  <2>3. Undelivered' = Undelivered \cup {f \in Futures : flag'[f] = "NOTIFIED_ONE" /\ flag[f] = "PENDING"}
    BY <1>0, <2>1, <2>2 DEF Undelivered, Flags
  <2>4. SentAway' = SentAway
    BY <1>0, <2>1, <2>2 DEF SentAway
  <2>5. NotifyLine!Hand(1, Undelivered)
    BY <2>1, <2>3, DeliverHands
  <2>6. NotifyLine!Supply(1)
    BY <2>1, <2>4, <2>5 DEF NotifyLine!Supply
  <2>7. QED
    BY <2>6 DEF NotifyLine!LineNext
<1>2. CASE notify_waiters
  <2>1. ~lock /\ lock' /\ UNCHANGED <<permit, queue, fut, flag, consumed>> /\ InQueue' = InQueue
    BY <1>2 DEF notify_waiters, kernel, futv, counts, InQueue
  <2>2. WaitingLine = queue /\ WaitingLine' = <<>>
    BY <2>1 DEF WaitingLine
  <2>3. NotifyLine!Waiting = InQueue
    BY <2>2 DEF NotifyLine!Waiting, InQueue
  <2>4. SentAway' = SentAway \cup InQueue /\ Undelivered' = Undelivered
    BY <1>0, <2>1 DEF SentAway, Undelivered
  <2>5. NotifyLine!Dismiss
    BY <2>1, <2>2, <2>3, <2>4 DEF NotifyLine!Dismiss
  <2>6. QED
    BY <2>5 DEF NotifyLine!LineNext
<1>3. CASE FlagWaiter
  <2>1. /\ lock /\ lock' /\ UNCHANGED <<permit, fut, consumed>>
        /\ flag' = [flag EXCEPT ![Head(queue)] = "NOTIFIED_ALL"]
        /\ Head(queue) \in Futures /\ Head(queue) \in InQueue
        /\ InQueue' = InQueue \ {Head(queue)}
        /\ flag[Head(queue)] = "PENDING" /\ fut[Head(queue)] \in {"polling", "pending"}
    BY <1>0, <1>3, DequeueFacts DEF FlagWaiter, Dequeue, counts
  <2>2. WaitingLine' = WaitingLine
    BY <2>1 DEF WaitingLine
  <2>3. Undelivered' = Undelivered
    BY <1>0, <2>1 DEF Undelivered
  <2>4. SentAway' = SentAway
    BY <1>0, <2>1 DEF SentAway
  <2>5. QED
    BY <1>s, <2>1, <2>2, <2>3, <2>4 DEF Same
<1>4. CASE Unlock
  <2>1. lock /\ ~lock' /\ queue = <<>> /\ UNCHANGED <<permit, queue, flag, fut, consumed>>
    BY <1>4 DEF Unlock, kernel, futv, counts
  <2>2. InQueue = {}
    BY <1>0, <2>1
  <2>3. WaitingLine' = WaitingLine /\ Undelivered' = Undelivered /\ SentAway' = SentAway
    BY <2>1, <2>2 DEF WaitingLine, Undelivered, SentAway
  <2>4. QED
    BY <1>s, <2>1, <2>3 DEF Same
<1>5. CASE Waking \/ UNCHANGED vars
  <2>1. UNCHANGED <<permit, queue, lock, flag, fut, consumed>>
    BY <1>5 DEF Waking, Wake, vars, kernel, signalv, futv, counts
  <2>2. QED
    BY <1>s, <2>1, LineKept DEF Same
<1>6. ASSUME NEW f \in Futures, notified(f) PROVE UNCHANGED NotifyLine!lineVars
  <2>1. /\ UNCHANGED <<permit, queue, lock, consumed>> /\ fut[f] = "gone"
        /\ fut' = [fut EXCEPT ![f] = "new"] /\ flag' = [flag EXCEPT ![f] = "PENDING"]
    BY <1>6 DEF notified, kernel, signalv, counts
  <2>2. Undelivered' = Undelivered
    BY <1>0, <2>1 DEF Undelivered
  <2>3. InQueue' = InQueue /\ WaitingLine' = WaitingLine
    BY <2>1 DEF InQueue, WaitingLine
  <2>4. SentAway' = SentAway
    BY <1>0, <2>1, <2>3 DEF SentAway
  <2>5. QED
    BY <1>s, <2>1, <2>2, <2>3, <2>4 DEF Same
<1>7. ASSUME NEW f \in Futures, NEW w \in Wakers, PollLoad(f, w)
      PROVE  NotifyLine!LineNext \/ UNCHANGED NotifyLine!lineVars
  <2>1. /\ UNCHANGED <<permit, queue, lock, flag>> /\ fut[f] \in {"new", "pending"}
        /\ fut' = [fut EXCEPT ![f] = IF flag[f] # "PENDING" THEN "ready" ELSE "polling"]
        /\ consumed' = IF flag[f] = "NOTIFIED_ONE" THEN consumed + 1 ELSE consumed
    BY <1>7 DEF PollLoad, kernel, signalv
  <2>2. WaitingLine' = WaitingLine /\ InQueue' = InQueue
    BY <2>1, LineKept
  <2>3. f \in InQueue => flag[f] = "PENDING"
    BY <1>0 DEF QueueMatchesWakers
  <2>4. fut[f] = "new" => flag[f] = "PENDING" /\ f \notin InQueue
    BY <1>0 DEF FutureOK
  <2>5. CASE flag[f] = "NOTIFIED_ONE"
    <3>1. /\ Undelivered' = Undelivered \ {f} /\ f \in Undelivered /\ SentAway' = SentAway
          /\ consumed' = consumed + 1
      BY <1>0, <2>1, <2>2, <2>3, <2>4, <2>5 DEF Undelivered, SentAway
    <3>2. NotifyLine!Claim(f)
      BY <2>1, <2>2, <3>1 DEF NotifyLine!Claim
    <3>3. QED
      BY <3>2 DEF NotifyLine!LineNext
  <2>6. CASE flag[f] = "NOTIFIED_ALL"
    <3>1. /\ Undelivered' = Undelivered /\ f \in SentAway /\ SentAway' = SentAway \ {f}
          /\ consumed' = consumed
      BY <1>0, <2>1, <2>2, <2>3, <2>4, <2>6 DEF Undelivered, SentAway
    <3>2. NotifyLine!Hear(f)
      BY <2>1, <2>2, <3>1 DEF NotifyLine!Hear
    <3>3. QED
      BY <3>2 DEF NotifyLine!LineNext
  <2>7. CASE flag[f] = "PENDING"
    <3>1. Undelivered' = Undelivered /\ SentAway' = SentAway /\ consumed' = consumed
      BY <1>0, <2>1, <2>2, <2>7 DEF Undelivered, SentAway
    <3>2. QED
      BY <1>s, <2>1, <2>2, <3>1 DEF Same
  <2>8. QED
    BY <1>0, <2>5, <2>6, <2>7 DEF Flags
<1>8. ASSUME NEW f \in Futures, PollReady(f) PROVE NotifyLine!LineNext
  <2>1. /\ permit > 0 /\ permit' = permit - 1 /\ UNCHANGED <<queue, lock, flag>> /\ ~lock
        /\ fut[f] = "polling" /\ f \notin parked /\ consumed' = consumed + 1
        /\ fut' = [fut EXCEPT ![f] = "ready"]
    BY <1>8 DEF PollReady, take_step, signalv
  <2>2. flag[f] = "PENDING" /\ f \notin InQueue
    BY <1>0, <2>1 DEF FutureOK
  <2>3. WaitingLine' = WaitingLine /\ InQueue' = InQueue
    BY <2>1, LineKept
  <2>4. Undelivered' = Undelivered /\ SentAway' = SentAway
    BY <1>0, <2>1, <2>2, <2>3 DEF Undelivered, SentAway
  <2>5. WaitingLine = <<>>
    BY <2>1 DEF NoBarging, WaitingLine
  <2>6. NotifyLine!Take
    BY <2>1, <2>3, <2>4, <2>5 DEF NotifyLine!Take
  <2>7. QED
    BY <2>6 DEF NotifyLine!LineNext
<1>9. ASSUME NEW f \in Futures, PollPark(f) PROVE NotifyLine!LineNext
  <2>1. /\ permit = 0 /\ permit' = permit /\ UNCHANGED <<lock, flag, consumed>> /\ ~lock
        /\ fut[f] = "polling" /\ f \notin parked /\ queue' = Append(queue, f)
        /\ fut' = [fut EXCEPT ![f] = "pending"]
    BY <1>9 DEF PollPark, park_step, signalv, counts
  <2>2. flag[f] = "PENDING" /\ f \notin InQueue
    BY <1>0, <2>1 DEF FutureOK
  <2>3. WaitingLine = queue /\ WaitingLine' = queue'
    BY <2>1 DEF WaitingLine
  <2>4. Undelivered' = Undelivered /\ SentAway' = SentAway
    BY <1>0, <2>1 DEF Undelivered, SentAway
  <2>5. f \notin NotifyLine!Waiting \cup Undelivered \cup SentAway
    BY <2>1, <2>2, <2>3 DEF NotifyLine!Waiting, InQueue, Undelivered, SentAway
  <2>6. NotifyLine!Join(f)
    BY <2>1, <2>3, <2>4, <2>5 DEF NotifyLine!Join
  <2>7. QED
    BY <2>6 DEF NotifyLine!LineNext
<1>10. ASSUME NEW f \in Futures, PollAgain(f) \/ DropIdle(f) PROVE UNCHANGED NotifyLine!lineVars
  <2>1. /\ UNCHANGED <<permit, queue, lock, flag, consumed>>
        /\ \/ fut[f] = "polling" /\ fut' = [fut EXCEPT ![f] = "pending"]
           \/ fut[f] \in {"new", "ready"} /\ fut' = [fut EXCEPT ![f] = "gone"]
    BY <1>10 DEF PollAgain, DropIdle, kernel, signalv, counts
  <2>2. \A g \in Futures : fut'[g] \in {"polling", "pending"} <=> fut[g] \in {"polling", "pending"}
    BY <1>0, <2>1
  <2>3. QED
    BY <1>s, <2>1, <2>2, LineKept DEF Same
<1>11. ASSUME NEW f \in Futures, DropParked(f) PROVE NotifyLine!LineNext
  <2>1. /\ UNCHANGED <<permit, lock, flag, consumed>> /\ ~lock /\ remove_step(f) /\ fut[f] = "pending"
        /\ fut' = [fut EXCEPT ![f] = "gone"]
    BY <1>11 DEF DropParked, remove_step, signalv, counts
  <2>2. flag[f] = "PENDING"
    BY <1>0, <2>1 DEF QueueMatchesWakers, remove_step
  <2>3. Undelivered' = Undelivered /\ SentAway' = SentAway
    BY <1>0, <2>1, <2>2 DEF Undelivered, SentAway
  <2>4. WaitingLine = queue /\ WaitingLine' = queue'
    BY <2>1 DEF WaitingLine
  <2>5. find_first(f) \in 1 .. Len(queue)
    BY <1>0, <2>1, FirstPlace DEF remove_step
  <2>6. NotifyLine!Leave(find_first(f))
    BY <2>1, <2>3, <2>4 DEF NotifyLine!Leave, remove_step, Without
  <2>7. QED
    BY <2>4, <2>5, <2>6 DEF NotifyLine!LineNext
<1>12. ASSUME NEW f \in Futures, DropNotified(f) PROVE NotifyLine!LineNext
  <2>1. /\ ~lock /\ ~lock' /\ fut[f] = "pending" /\ f \notin InQueue /\ consumed' = consumed
        /\ fut' = [fut EXCEPT ![f] = "gone"]
    BY <1>12 DEF DropNotified, signalv, counts
  <2>2. flag[f] # "PENDING"
    BY <1>0, <2>1 DEF FutureOK
  <2>3. CASE flag[f] = "NOTIFIED_ONE"
    <3>1. deliver_one /\ f \in Undelivered
      BY <1>12, <2>1, <2>3 DEF DropNotified, Undelivered
    <3>2. \A g \in Futures : /\ flag[g] # "PENDING" => flag'[g] = flag[g]
                             /\ flag'[g] # flag[g] => fut[g] \in {"polling", "pending"} /\ flag'[g] = "NOTIFIED_ONE"
      BY <1>0, <3>1, DequeueFacts DEF deliver_one, Dequeue
    <3>3. Undelivered' = (Undelivered \ {f})
                         \cup {g \in Futures : flag'[g] = "NOTIFIED_ONE" /\ flag[g] = "PENDING"}
      BY <1>0, <2>1, <2>2, <3>2 DEF Undelivered, Flags
    <3>4. SentAway' = SentAway
      BY <1>0, <2>1, <2>3, <3>2 DEF SentAway
    <3>5. NotifyLine!Hand(1, Undelivered \ {f})
      BY <2>1, <3>1, <3>3, DeliverHands
    <3>6. NotifyLine!Refuse(f)
      BY <2>1, <3>1, <3>4, <3>5 DEF NotifyLine!Refuse
    <3>7. QED
      BY <3>6 DEF NotifyLine!LineNext
  <2>4. CASE flag[f] = "NOTIFIED_ALL"
    <3>1. UNCHANGED <<permit, queue, flag>>
      BY <1>12, <2>4 DEF DropNotified, kernel
    <3>2. WaitingLine' = WaitingLine
      BY <2>1, <3>1 DEF WaitingLine
    <3>3. Undelivered' = Undelivered /\ SentAway' = SentAway \ {f} /\ f \in SentAway
      BY <1>0, <2>1, <2>4, <3>1 DEF Undelivered, SentAway
    <3>4. NotifyLine!Hear(f)
      BY <2>1, <3>1, <3>2, <3>3 DEF NotifyLine!Hear
    <3>5. QED
      BY <3>4 DEF NotifyLine!LineNext
  <2>5. QED
    BY <1>0, <2>2, <2>3, <2>4 DEF Flags
<1>13. QED
  BY <1>1, <1>2, <1>3, <1>4, <1>5, <1>6, <1>7, <1>8, <1>9, <1>10, <1>11, <1>12
  DEF Next, WaitersStep, FutureStep, Polled, DropFuture

\* A new Notify is an empty line.
LEMMA LineInitially == Init => NotifyLine!LineInit /\ NoBarging
BY DEF NoBarging, Init, with_permits, NotifyLine!LineInit, WaitingLine, Undelivered, SentAway, InQueue

\* For any number of futures and calls, notify_one reaches the future that has
\* waited longest and no stored notification is taken past a waiting future,
\* with cancellation and notify_waiters: Notify implements WaitLine.
THEOREM NotifyInTurn == Spec => ImplementsLine
<1>1. QED
  BY LineInitially, LineStep, IInvInit, IInvStep, NoBargingStep, PTL DEF Spec, ImplementsLine, NotifyLine!LineSpec

=============================================================================

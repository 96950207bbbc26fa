-------------------------- MODULE SemaphoreProofs --------------------------
(***************************************************************************)
(* Proofs about Semaphore for every number of futures, wakers and permits, *)
(* and about Mutex for every number of lock futures and wakers.            *)
(***************************************************************************)
EXTENDS Mutex, WaiterKernelProofs, FiniteSetTheorems, SequenceTheorems

(***************************************************************************)
(* The inductive invariant.                                                *)
(***************************************************************************)
\* A queued waiter is parked, alive and without a grant; a stored waker belongs
\* to a queued waiter; a future that fails has seen the semaphore closed.
FutureOK(f) ==
  /\ f \in InQueue => f \in parked /\ f \notin granted /\ fut[f] \in {"polling", "pending", "err"}
  /\ entry[f] # NoWaker => f \in InQueue /\ ~closed
  /\ f \in parked => fut[f] # "new"
  /\ fut[f] = "pending" => f \in parked
  /\ fut[f] = "err" => closed
  /\ fut[f] \in {"polling", "pending"} => ctx[f] \in Wakers

Shape ==
  /\ QueueOK
  /\ ~lock => todo = 0
  /\ granted \subseteq parked
  /\ \A f \in Futures : FutureOK(f)

IInv == TypeOK /\ Shape /\ NoBarging /\ WaitersReachable /\ PermitsConserved

(***************************************************************************)
(* Counting the unclaimed grants.                                          *)
(***************************************************************************)
\* There are finitely many of them.
LEMMA UnclaimedFinite ==
  TypeOK => IsFiniteSet(Unclaimed) /\ Cardinality(Unclaimed) \in Nat
<1> SUFFICES ASSUME TypeOK PROVE IsFiniteSet(Unclaimed) /\ Cardinality(Unclaimed) \in Nat
  OBVIOUS
<1>1. Unclaimed \in SUBSET Futures
  BY DEF Unclaimed, TypeOK
<1>2. IsFiniteSet(Unclaimed)
  BY <1>1, FuturesAssumption, FS_Subset
<1>3. QED
  BY <1>2, FS_CardinalityType

\* A grant adds one, a claimed or forwarded grant takes one away.
LEMMA UnclaimedCount ==
  ASSUME TypeOK, NEW f \in Futures
  PROVE  /\ Unclaimed' = Unclaimed => Cardinality(Unclaimed') = Cardinality(Unclaimed)
         /\ Unclaimed' = Unclaimed \cup {f} /\ f \notin Unclaimed
              => Cardinality(Unclaimed') = Cardinality(Unclaimed) + 1
         /\ Unclaimed' = Unclaimed \ {f} /\ f \in Unclaimed
              => Cardinality(Unclaimed') = Cardinality(Unclaimed) - 1
<1>1. IsFiniteSet(Unclaimed)
  BY UnclaimedFinite
<1>2. QED
  BY <1>1, FS_AddElement, FS_RemoveElement

(***************************************************************************)
(* Every step keeps the shape of the queue, the wakers and the futures.    *)
(***************************************************************************)
\* Each operation, poll and drop, one by one.
LEMMA ShapeStep == IInv /\ [Next]_vars => (Shape /\ NoBarging /\ WaitersReachable)'
<1> SUFFICES ASSUME IInv, [Next]_vars PROVE (Shape /\ NoBarging /\ WaitersReachable)'
  OBVIOUS
<1> USE DEF FutureOK, Shape, NoBarging, WaitersReachable
<1>0. TypeOK /\ Shape /\ NoBarging /\ WaitersReachable /\ InQueue \subseteq Futures
      /\ (queue = <<>> <=> InQueue = {})
  BY InQueueType, InQueueEmpty DEF IInv
<1>1. CASE SignalWoke
  <2>1. /\ QueueOK' /\ Head(queue) \in InQueue /\ InQueue' = InQueue \ {Head(queue)}
    BY <1>0, <1>1, SignalWokeStep DEF SignalWoke
  <2>2. permit' = 0
    BY <1>0, <1>1 DEF SignalWoke, signal_woke, TypeOK
  <2>3. QED
    BY <1>0, <1>1, <2>1, <2>2 DEF SignalWoke, TypeOK
<1>2. CASE SignalStored
  <2>1. QueueOK' /\ InQueue' = InQueue /\ queue' = <<>>
    BY <1>0, <1>2 DEF SignalStored, signal_stored, QueueOK, InQueue
  <2>2. QED
    BY <1>0, <1>2, <2>1 DEF SignalStored, futv
<1>3. CASE Unlock
  <2>1. QueueOK' /\ InQueue' = InQueue /\ UNCHANGED kernel
    BY <1>0, <1>3 DEF Unlock, inner, kernel, QueueOK, InQueue
  <2>2. QED
    BY <1>0, <1>3, <2>1 DEF Unlock, inner, kernel, futv
<1>4. ASSUME NEW f \in Futures, NEW w \in Wakers, Wake(f, w)
      PROVE  (Shape /\ NoBarging /\ WaitersReachable)'
  <2>1. QueueOK' /\ InQueue' = InQueue /\ UNCHANGED kernel
    BY <1>0, <1>4 DEF Wake, inner, kernel, QueueOK, InQueue
  <2>2. QED
    BY <1>0, <1>4, <2>1 DEF Wake, inner, kernel, futv, signalv
<1>5. ASSUME NEW f \in Futures, FutureStep(f)
      PROVE  (Shape /\ NoBarging /\ WaitersReachable)'
  <2>1. CASE UNCHANGED inner /\ (Acquire(f) \/ (\E w \in Wakers : PollLoad(f, w)) \/ PollClosed(f)
                                 \/ DropIdle(f) \/ DropGranted(f))
    <3>1. QueueOK' /\ InQueue' = InQueue /\ UNCHANGED <<queue, permit, closed, entry>>
      BY <1>0, <2>1 DEF inner, kernel, QueueOK, InQueue
    <3>2. CASE Acquire(f)
      BY <1>0, <3>1, <3>2 DEF Acquire, signalv, TypeOK
    <3>3. CASE \E w \in Wakers : PollLoad(f, w)
      BY <1>0, <3>1, <3>3 DEF PollLoad, signalv, TypeOK
    <3>4. CASE PollClosed(f)
      BY <1>0, <3>1, <3>4 DEF PollClosed, signalv, TypeOK
    <3>5. CASE DropIdle(f)
      BY <1>0, <3>1, <3>5 DEF DropIdle, signalv, TypeOK
    <3>6. CASE DropGranted(f)
      BY <1>0, <3>1, <3>6 DEF DropGranted, Cancellable, signal_n, signalv, TypeOK
    <3>7. QED
      BY <2>1, <3>2, <3>3, <3>4, <3>5, <3>6
  <2>2. CASE PollReady(f)
    <3>1. QueueOK' /\ InQueue' = InQueue /\ queue' = <<>>
      BY <1>0, <2>2 DEF PollReady, take_step, QueueOK, InQueue
    <3>2. QED
      BY <1>0, <2>2, <3>1 DEF PollReady, take_step, signalv, TypeOK
  <2>3. CASE PollPark(f)
    <3>1. f \notin InQueue
      BY <1>0, <2>3 DEF PollPark
    <3>2. QueueOK' /\ InQueue' = InQueue \cup {f}
      BY <1>0, <2>3, <3>1, ParkStep DEF PollPark
    <3>3. permit' = 0
      BY <2>3 DEF PollPark, park_step
    <3>4. QED
      BY <1>0, <2>3, <3>2, <3>3, WakersAssumption DEF PollPark, signalv, TypeOK
  <2>4. CASE PollAgain(f)
    <3>1. QueueOK' /\ InQueue' = InQueue /\ UNCHANGED <<queue, permit>>
      BY <1>0, <2>4 DEF PollAgain, kernel, QueueOK, InQueue
    <3>2. QED
      BY <1>0, <2>4, <3>1, WakersAssumption DEF PollAgain, signalv, TypeOK
  <2>5. CASE DropParked(f)
    <3>1. QueueOK' /\ InQueue' = InQueue \ {f}
      BY <1>0, <2>5, RemoveStep DEF DropParked
    <3>2. permit' = 0
      BY <1>0, <2>5 DEF DropParked, remove_step, TypeOK
    <3>3. QED
      BY <1>0, <2>5, <3>1, <3>2 DEF DropParked, signalv, TypeOK
  <2>6. QED
    BY <1>5, <2>1, <2>2, <2>3, <2>4, <2>5
    DEF FutureStep, Polled, DropFuture, Acquire, PollLoad, PollClosed, DropIdle, DropGranted
<1>6. CASE try_acquire
  <2>1. QueueOK' /\ InQueue' = InQueue /\ queue' = <<>>
    BY <1>0, <1>6 DEF try_acquire, take_step, QueueOK, InQueue
  <2>2. QED
    BY <1>0, <1>6, <2>1 DEF try_acquire, signalv, futv
<1>7. CASE Release \/ Forget \/ \E n \in 0 .. MaxPermits : add_permits(n)
  <2>1. QueueOK' /\ InQueue' = InQueue /\ UNCHANGED <<queue, permit, closed, entry, futv>>
    BY <1>0, <1>7 DEF Release, Forget, add_permits, inner, kernel, QueueOK, InQueue
  <2>2. ~lock' => todo' = 0
    BY <1>0, <1>7 DEF Release, Forget, add_permits, signal_n, signalv
  <2>3. QED
    BY <1>0, <2>1, <2>2 DEF futv
<1>8. CASE Close
  <2>1. QueueOK' /\ InQueue' = InQueue /\ UNCHANGED <<queue, permit>>
    BY <1>0, <1>8 DEF Close, kernel, QueueOK, InQueue
  <2>2. QED
    BY <1>0, <1>8, <2>1 DEF Close, signalv, futv, TypeOK
<1>9. CASE UNCHANGED vars
  <2>1. QueueOK' /\ InQueue' = InQueue
    BY <1>0, <1>9 DEF vars, inner, kernel, QueueOK, InQueue
  <2>2. QED
    BY <1>0, <1>9, <2>1 DEF vars, inner, kernel, signalv, futv
<1>10. QED
  BY <1>1, <1>2, <1>3, <1>4, <1>5, <1>6, <1>7, <1>8, <1>9 DEF Next, SignalStep, Waking, OwnerStep

(***************************************************************************)
(* Every step keeps the types and the number of permits.                   *)
(***************************************************************************)
\* Each operation, poll and drop, one by one.
LEMMA CountStep == IInv /\ [Next]_vars => TypeOK' /\ PermitsConserved'
<1> SUFFICES ASSUME IInv, [Next]_vars PROVE TypeOK' /\ PermitsConserved'
  OBVIOUS
<1> USE DEF PermitsConserved
<1>0. /\ TypeOK /\ Shape /\ PermitsConserved /\ InQueue \subseteq Futures
      /\ IsFiniteSet(Unclaimed) /\ Cardinality(Unclaimed) \in Nat
      /\ \A f \in Futures : FutureOK(f)
  BY InQueueType, UnclaimedFinite DEF IInv, Shape
<1> DEFINE C == Cardinality(Unclaimed)
<1>q. queue' \in Seq(Futures)
  BY ShapeStep DEF Shape, QueueOK
<1>n. permit \in Nat /\ todo \in Nat /\ held \in Nat /\ total \in Nat
  BY <1>0 DEF TypeOK
<1>1. CASE SignalWoke
  <2> DEFINE h == Head(queue)
  <2>1. h \in InQueue
    BY <1>0, <1>1, SignalWokeStep DEF SignalWoke, Shape
  <2>2. h \in Futures /\ h \notin granted /\ fut[h] \in {"polling", "pending", "err"}
    BY <1>0, <2>1 DEF FutureOK
  <2>3. UNCHANGED <<permit, held, total, fut>>
    BY <1>1 DEF SignalWoke, signal_woke
  <2> HIDE DEF h
  <2>4. CASE entry[h] # NoWaker
    <3>1. granted' = granted \cup {h} /\ todo' = todo - 1 /\ todo > 0
      BY <1>1, <2>4 DEF SignalWoke, h
    <3>2. Unclaimed' = Unclaimed \cup {h} /\ h \notin Unclaimed
      BY <2>2, <2>3, <3>1 DEF Unclaimed
    <3>3. Cardinality(Unclaimed') = C + 1
      BY <1>0, <2>2, <3>2, UnclaimedCount
    <3>4. PermitsConserved'
      BY <1>0, <1>n, <2>3, <3>1, <3>3
    <3>5. entry[h] \in Wakers
      BY <1>0, <2>2, <2>4 DEF TypeOK
    <3>6. collected' = collected \cup {<<h, entry[h]>>} /\ entry' = [entry EXCEPT ![h] = NoWaker]
          /\ UNCHANGED <<closed, lock, waking, parked, ctx, woken>>
      BY <1>1, <2>4 DEF SignalWoke, h
    <3>7. TypeOK'
      BY <1>0, <1>q, <2>2, <2>3, <3>1, <3>5, <3>6 DEF TypeOK
    <3>8. QED
      BY <3>4, <3>7
  <2>5. CASE entry[h] = NoWaker
    <3>1. UNCHANGED <<granted, todo, collected, closed, lock, waking, parked, ctx, woken>>
          /\ entry' = [entry EXCEPT ![h] = NoWaker]
      BY <1>1, <2>5 DEF SignalWoke, h
    <3>2. Unclaimed' = Unclaimed
      BY <2>3, <3>1 DEF Unclaimed
    <3>3. QED
      BY <1>0, <1>q, <2>2, <2>3, <3>1, <3>2 DEF TypeOK
  <2>6. QED
    BY <2>4, <2>5
<1>2. CASE SignalStored
  <2>1. Unclaimed' = Unclaimed /\ permit' = permit + 1 /\ todo' = todo - 1 /\ todo > 0
        /\ UNCHANGED <<held, total>>
    BY <1>2 DEF SignalStored, signal_stored, futv, Unclaimed
  <2>2. TypeOK'
    BY <1>0, <1>2, <1>q, <2>1 DEF SignalStored, futv, TypeOK
  <2>3. QED
    BY <1>0, <2>1, <2>2 DEF TypeOK
<1>3. CASE Unlock
  <2>1. Unclaimed' = Unclaimed /\ UNCHANGED <<permit, todo, held, total>>
    BY <1>3 DEF Unlock, inner, kernel, futv, Unclaimed
  <2>2. TypeOK'
    BY <1>0, <1>3, <2>1 DEF Unlock, inner, kernel, futv, TypeOK
  <2>3. QED
    BY <1>0, <2>1, <2>2
<1>4. ASSUME NEW f \in Futures, NEW w \in Wakers, Wake(f, w) PROVE TypeOK' /\ PermitsConserved'
  <2>1. Unclaimed' = Unclaimed /\ UNCHANGED <<permit, todo, held, total>>
    BY <1>4 DEF Wake, inner, kernel, signalv, futv, Unclaimed
  <2>2. TypeOK'
    BY <1>0, <1>4, <2>1 DEF Wake, inner, kernel, signalv, futv, TypeOK
  <2>3. QED
    BY <1>0, <2>1, <2>2
<1>5. ASSUME NEW f \in Futures, Acquire(f) \/ PollClosed(f) \/ PollPark(f) \/ PollAgain(f)
                                \/ DropIdle(f) \/ DropParked(f)
      PROVE  TypeOK' /\ PermitsConserved'
  <2>1. UNCHANGED <<permit, todo, held, total, lock, collected, waking, closed>>
    BY <1>5 DEF Acquire, PollClosed, PollPark, PollAgain, DropIdle, DropParked, inner, kernel,
                signalv, park_step, remove_step
  <2>2. Unclaimed' = Unclaimed
    <3>1. FutureOK(f) /\ granted \subseteq parked /\ fut \in [Futures -> FutStates]
      BY <1>0 DEF Shape, TypeOK
    <3>2. CASE Acquire(f)
      BY <1>0, <3>1, <3>2 DEF Acquire, Unclaimed, TypeOK
    <3>3. CASE PollClosed(f)
      BY <1>0, <3>1, <3>3 DEF PollClosed, Unclaimed, TypeOK
    <3>4. CASE PollPark(f)
      BY <1>0, <3>1, <3>4 DEF PollPark, Unclaimed, TypeOK
    <3>5. CASE PollAgain(f)
      BY <1>0, <3>1, <3>5 DEF PollAgain, Unclaimed, TypeOK
    <3>6. CASE DropIdle(f)
      BY <1>0, <3>1, <3>6 DEF DropIdle, Unclaimed, TypeOK
    <3>7. CASE DropParked(f)
      BY <1>0, <3>1, <3>7 DEF DropParked, remove_step, FutureOK, Unclaimed, TypeOK
    <3>8. QED
      BY <1>5, <3>2, <3>3, <3>4, <3>5, <3>6, <3>7
  <2>3. TypeOK'
    <3>1. /\ entry' \in [Futures -> Wakers \cup {NoWaker}]
          /\ ctx' \in [Futures -> Wakers \cup {NoWaker}]
      BY <1>0, <1>5 DEF Acquire, PollClosed, PollPark, PollAgain, DropIdle, DropParked, inner, TypeOK
    <3>2. /\ fut' \in [Futures -> FutStates]
          /\ granted' \subseteq Futures /\ parked' \subseteq Futures /\ woken' \subseteq Futures
      BY <1>0, <1>5 DEF Acquire, PollClosed, PollPark, PollAgain, DropIdle, DropParked, TypeOK, FutStates
    <3>3. QED
      BY <1>0, <1>q, <2>1, <3>1, <3>2 DEF TypeOK
  <2>4. QED
    BY <1>0, <2>1, <2>2, <2>3
<1>6. ASSUME NEW f \in Futures, NEW w \in Wakers, PollLoad(f, w) PROVE TypeOK' /\ PermitsConserved'
  <2>1. /\ UNCHANGED <<permit, todo, total, lock, collected, waking, closed, entry, granted, parked, queue>>
        /\ woken' \subseteq Futures /\ ctx' \in [Futures -> Wakers \cup {NoWaker}]
    BY <1>0, <1>6 DEF PollLoad, inner, kernel, signalv, TypeOK
  <2>2. CASE f \in granted
    <3>1. fut' = [fut EXCEPT ![f] = "ok"] /\ held' = held + 1
      BY <1>6, <2>2 DEF PollLoad
    <3>2. f \in Unclaimed
      BY <1>0, <1>6, <2>2 DEF PollLoad, Shape, FutureOK, Unclaimed
    <3>3. Unclaimed' = Unclaimed \ {f}
      BY <1>0, <2>1, <3>1 DEF Unclaimed, TypeOK
    <3>4. Cardinality(Unclaimed') = C - 1
      BY <1>0, <3>2, <3>3, UnclaimedCount
    <3>5. fut' \in [Futures -> FutStates] /\ held' \in Nat
      BY <1>0, <3>1 DEF TypeOK, FutStates
    <3>6. TypeOK'
      BY <1>0, <2>1, <3>5 DEF TypeOK
    <3>7. QED
      BY <1>0, <1>n, <2>1, <3>1, <3>4, <3>6
  <2>3. CASE f \notin granted
    <3>1. fut' = [fut EXCEPT ![f] = "polling"] /\ held' = held
      BY <1>6, <2>3 DEF PollLoad
    <3>2. Unclaimed' = Unclaimed
      BY <1>0, <2>1, <2>3, <3>1 DEF Unclaimed, TypeOK
    <3>3. fut' \in [Futures -> FutStates]
      BY <1>0, <3>1 DEF TypeOK, FutStates
    <3>4. TypeOK'
      BY <1>0, <2>1, <3>1, <3>3 DEF TypeOK
    <3>5. QED
      BY <1>0, <2>1, <3>1, <3>2, <3>4
  <2>4. QED
    BY <2>2, <2>3
<1>7. ASSUME NEW f \in Futures, PollReady(f) PROVE TypeOK' /\ PermitsConserved'
  <2>1. /\ permit' = permit - 1 /\ permit > 0 /\ held' = held + 1 /\ fut' = [fut EXCEPT ![f] = "ok"]
        /\ UNCHANGED <<todo, total, lock, collected, waking, closed, entry, granted, parked, ctx, woken>>
    BY <1>7 DEF PollReady, take_step, signalv
  <2>2. f \notin granted
    BY <1>0, <1>7 DEF PollReady, Shape
  <2>3. Unclaimed' = Unclaimed
    BY <1>0, <2>1, <2>2 DEF Unclaimed, TypeOK
  <2>4. TypeOK'
    BY <1>0, <1>q, <2>1 DEF TypeOK, FutStates
  <2>5. QED
    BY <1>0, <1>n, <2>1, <2>3, <2>4
<1>8. ASSUME NEW f \in Futures, DropGranted(f) PROVE TypeOK' /\ PermitsConserved'
  <2>1. /\ UNCHANGED <<permit, held, total, waking, closed, entry, granted, parked, ctx, woken, queue>>
        /\ fut' = [fut EXCEPT ![f] = "gone"] /\ fut[f] \in {"pending", "err"} /\ ~lock
    BY <1>8 DEF DropGranted, Cancellable, inner, kernel
  <2>2. fut' \in [Futures -> FutStates] /\ todo = 0
    BY <1>0, <2>1 DEF TypeOK, FutStates, Shape
  <2>3. CASE f \in granted
    <3>1. lock' = TRUE /\ todo' = 1 /\ collected' = collected
      BY <1>8, <2>3 DEF DropGranted, signal_n
    <3>2. Unclaimed' = Unclaimed \ {f} /\ f \in Unclaimed
      BY <1>0, <2>1, <2>3 DEF Unclaimed, TypeOK
    <3>3. Cardinality(Unclaimed') = C - 1
      BY <1>0, <3>2, UnclaimedCount
    <3>4. TypeOK'
      BY <1>0, <2>1, <2>2, <3>1 DEF TypeOK
    <3>5. QED
      BY <1>0, <1>n, <2>1, <2>2, <3>1, <3>3, <3>4
  <2>4. CASE f \notin granted
    <3>1. UNCHANGED <<lock, todo, collected>>
      BY <1>8, <2>4 DEF DropGranted, signalv
    <3>2. Unclaimed' = Unclaimed
      BY <1>0, <2>1, <2>4 DEF Unclaimed, TypeOK
    <3>3. TypeOK'
      BY <1>0, <2>1, <2>2, <3>1 DEF TypeOK
    <3>4. QED
      BY <1>0, <2>1, <3>1, <3>2, <3>3
  <2>5. QED
    BY <2>3, <2>4
<1>9. CASE try_acquire
  <2>1. /\ permit' = permit - 1 /\ permit > 0 /\ held' = held + 1 /\ Unclaimed' = Unclaimed
        /\ UNCHANGED <<todo, total>>
    BY <1>9 DEF try_acquire, take_step, signalv, futv, Unclaimed
  <2>2. TypeOK'
    BY <1>0, <1>9, <1>q, <2>1 DEF try_acquire, signalv, futv, TypeOK
  <2>3. QED
    BY <1>0, <1>n, <2>1, <2>2
<1>10. CASE Release
  <2>1. /\ held' = held - 1 /\ held > 0 /\ todo' = 1 /\ todo = 0 /\ lock' = TRUE /\ Unclaimed' = Unclaimed
        /\ UNCHANGED <<permit, total, collected>>
    BY <1>0, <1>10 DEF Release, signal_n, inner, kernel, futv, Unclaimed, Shape
  <2>2. TypeOK'
    BY <1>0, <1>10, <2>1 DEF Release, inner, kernel, futv, TypeOK
  <2>3. QED
    BY <1>0, <2>1, <2>2 DEF TypeOK
<1>11. CASE Forget
  <2>1. /\ held' = held - 1 /\ held > 0 /\ total' = total - 1 /\ Unclaimed' = Unclaimed
        /\ UNCHANGED <<permit, todo>>
    BY <1>11 DEF Forget, inner, kernel, signalv, futv, Unclaimed
  <2>2. total > 0
    BY <1>0, <2>1 DEF TypeOK
  <2>3. TypeOK'
    BY <1>0, <1>11, <2>1, <2>2 DEF Forget, inner, kernel, signalv, futv, TypeOK
  <2>4. QED
    BY <1>0, <1>n, <2>1, <2>3
<1>12. ASSUME NEW n \in 0 .. MaxPermits, add_permits(n) PROVE TypeOK' /\ PermitsConserved'
  <2>1. /\ total' = total + n /\ todo' = n /\ todo = 0 /\ lock' = TRUE /\ Unclaimed' = Unclaimed
        /\ UNCHANGED <<permit, held, collected>>
    BY <1>0, <1>12 DEF add_permits, signal_n, inner, kernel, futv, Unclaimed, Shape
  <2>2. n \in Nat
    BY PermitsAssumption
  <2>3. TypeOK'
    BY <1>0, <1>12, <2>1, <2>2 DEF add_permits, inner, kernel, futv, TypeOK
  <2>4. QED
    BY <1>0, <1>n, <2>1, <2>2, <2>3
<1>13. CASE Close
  <2>1. Unclaimed' = Unclaimed /\ UNCHANGED <<permit, queue, todo, held, total, lock, collected>>
    BY <1>13 DEF Close, kernel, signalv, futv, Unclaimed
  <2>2. waking' \subseteq Futures \X Wakers
    BY <1>0, <1>13 DEF Close, TypeOK
  <2>3. entry' \in [Futures -> Wakers \cup {NoWaker}] /\ closed' = TRUE
    BY <1>13 DEF Close
  <2>4. TypeOK'
    BY <1>0, <1>13, <2>1, <2>2, <2>3 DEF Close, futv, TypeOK
  <2>5. QED
    BY <1>0, <2>1, <2>4
<1>14. CASE UNCHANGED vars
  <2>1. Unclaimed' = Unclaimed /\ UNCHANGED <<permit, todo, held, total>>
    BY <1>14 DEF vars, inner, kernel, signalv, futv, Unclaimed
  <2>2. TypeOK'
    BY <1>0, <1>14 DEF vars, inner, kernel, signalv, futv, TypeOK
  <2>3. QED
    BY <1>0, <2>1, <2>2
<1>15. QED
  BY <1>1, <1>2, <1>3, <1>4, <1>5, <1>6, <1>7, <1>8, <1>9, <1>10, <1>11, <1>12, <1>13, <1>14
  DEF Next, SignalStep, Waking, FutureStep, Polled, DropFuture, OwnerStep

(***************************************************************************)
(* The theorems.                                                           *)
(***************************************************************************)
\* The invariant holds in a new semaphore.
LEMMA NewIInv == ASSUME NEW p \in Nat, new(p) PROVE IInv
<1>1. queue = <<>> /\ permit = p
  BY DEF new, with_permits
<1>2. TypeOK
  <2>1. /\ entry \in [Futures -> Wakers \cup {NoWaker}] /\ ctx \in [Futures -> Wakers \cup {NoWaker}]
        /\ fut \in [Futures -> FutStates]
    BY DEF new, FutStates
  <2>2. queue \in Seq(Futures)
    BY <1>1
  <2>3. QED
    BY <1>1, <2>1, <2>2 DEF new, TypeOK
<1>3. InQueue = {} /\ QueueOK
  BY <1>1 DEF InQueue, QueueOK, Distinct
<1>4. Shape /\ NoBarging /\ WaitersReachable
  BY <1>1, <1>3 DEF new, Shape, FutureOK, NoBarging, WaitersReachable
<1>5. Unclaimed = {}
  BY DEF new, Unclaimed
<1>6. PermitsConserved
  BY <1>1, <1>5, FS_EmptySet DEF new, PermitsConserved
<1>7. QED
  BY <1>2, <1>4, <1>6 DEF IInv

\* So is one with the permits of the specification.
LEMMA IInvInit == Init => IInv
BY NewIInv, PermitsAssumption DEF Init

\* Every step keeps the invariant.
LEMMA IInvStep == IInv /\ [Next]_vars => IInv'
BY ShapeStep, CountStep DEF IInv

\* The state of a Semaphore and of its futures stays well typed: no counter of
\* permits is ever taken below zero.
THEOREM SemaphoreTypes == Spec => []TypeOK
<1>1. IInv => TypeOK
  BY DEF IInv
<1>2. QED
  BY <1>1, IInvInit, IInvStep, PTL DEF Spec

\* For any number of futures, wakers and permits, with cancellation in whatever
\* place of the queue, add_permits, forget and close: permits are neither lost
\* nor duplicated, none lies idle while somebody waits, and every waiter can be
\* reached by the next release.
THEOREM SemaphoreSafe == Spec => []SemaphoreSound
<1>1. IInv => SemaphoreSound
  BY DEF IInv, SemaphoreSound
<1>2. QED
  BY <1>1, IInvInit, IInvStep, PTL DEF Spec

(***************************************************************************)
(* No grant is lost, as long as every future is polled with one waker.     *)
(***************************************************************************)
\* A grant that comes between a poll's look at the flag and its end counts too.
WakeArmed ==
  \A f \in Futures :
     (fut[f] = "polling" /\ f \in granted) \/ (fut[f] = "pending" /\ Settled(f)) =>
        f \in woken \/ <<f, ctx[f]>> \in waking \cup collected

\* Every step keeps the wake on its way until the next poll.
LEMMA WakeArmedStep ==
  ASSUME \A v, w \in Wakers : v = w
  PROVE  IInv /\ WakeArmed /\ [Next]_vars => WakeArmed'
<1> SUFFICES ASSUME IInv, WakeArmed, [Next]_vars PROVE WakeArmed'
  OBVIOUS
<1> USE DEF WakeArmed, Settled
<1>0. /\ TypeOK /\ granted \subseteq parked /\ WaitersReachable /\ QueueOK
      /\ fut \in [Futures -> FutStates] /\ ctx \in [Futures -> Wakers \cup {NoWaker}]
      /\ \A f \in Futures : FutureOK(f)
  BY DEF IInv, Shape, TypeOK
<1>1. CASE SignalWoke
  <2>1. Head(queue) \in InQueue /\ InQueue \subseteq Futures
    BY <1>0, <1>1, SignalWokeStep, InQueueType DEF SignalWoke
  <2>2. entry[Head(queue)] # NoWaker => entry[Head(queue)] = ctx[Head(queue)]
    BY <1>0, <2>1 DEF FutureOK, TypeOK
  <2>3. QED
    BY <1>0, <1>1, <2>1, <2>2 DEF SignalWoke
<1>2. CASE SignalStored \/ Unlock
  BY <1>2 DEF SignalStored, Unlock, inner, futv
<1>3. ASSUME NEW f \in Futures, NEW w \in Wakers, Wake(f, w) PROVE WakeArmed'
  BY <1>0, <1>3 DEF Wake, inner, signalv, futv
<1>4. ASSUME NEW f \in Futures, Acquire(f) PROVE WakeArmed'
  BY <1>0, <1>4 DEF Acquire, inner, signalv
<1>5. ASSUME NEW f \in Futures, NEW w \in Wakers, PollLoad(f, w) PROVE WakeArmed'
  BY <1>0, <1>5 DEF PollLoad, inner, signalv
<1>6. ASSUME NEW f \in Futures, PollClosed(f) \/ PollReady(f) PROVE WakeArmed'
  BY <1>0, <1>6 DEF PollClosed, PollReady, inner, signalv
<1>7. ASSUME NEW f \in Futures, PollPark(f) \/ PollAgain(f) PROVE WakeArmed'
  BY <1>0, <1>7 DEF PollPark, PollAgain, signalv
<1>8. ASSUME NEW f \in Futures, DropFuture(f) PROVE WakeArmed'
  BY <1>0, <1>8 DEF DropFuture, DropIdle, DropParked, DropGranted, signal_n, inner, signalv
<1>9. CASE try_acquire \/ Release \/ Forget \/ \E n \in 0 .. MaxPermits : add_permits(n)
  BY <1>9 DEF try_acquire, Release, Forget, add_permits, signal_n, inner, signalv, futv
<1>10. CASE Close
  <2> SUFFICES ASSUME NEW f \in Futures,
                      (fut[f] = "polling" /\ f \in granted) \/ fut[f] = "pending"
               PROVE  f \in woken \/ <<f, ctx[f]>> \in waking' \cup collected
    BY <1>10 DEF Close, signalv, futv
  <2>1. waking \subseteq waking'
    BY <1>10 DEF Close
  <2>2. CASE f \in granted \/ closed
    BY <2>1, <2>2
  <2>3. CASE f \notin granted /\ ~closed
    <3>1. CASE f \in parked
      <4>1. entry[f] # NoWaker
        BY <1>0, <2>3, <3>1 DEF WaitersReachable
      <4>2. entry[f] = ctx[f]
        BY <1>0, <2>3, <4>1 DEF FutureOK, TypeOK
      <4>3. QED
        BY <1>10, <4>1, <4>2 DEF Close
    <3>2. CASE f \notin parked
      BY <1>0, <2>3, <3>2 DEF FutureOK
    <3>3. QED
      BY <3>1, <3>2
  <2>4. QED
    BY <2>2, <2>3
<1>11. CASE UNCHANGED vars
  BY <1>11 DEF vars, inner, signalv, futv
<1>12. QED
  BY <1>1, <1>2, <1>3, <1>4, <1>5, <1>6, <1>7, <1>8, <1>9, <1>10, <1>11
  DEF Next, SignalStep, Waking, FutureStep, Polled, OwnerStep

\* With one waker per future, a suspended Acquire never misses its grant or the
\* close, although poll reads the granted flag outside the lock.
THEOREM GrantsKept ==
  ASSUME \A v, w \in Wakers : v = w
  PROVE  Spec => []NoLostGrant
<1>1. Init => WakeArmed
  BY DEF Init, new, WakeArmed
<1>2. WakeArmed => NoLostGrant
  BY DEF WakeArmed, NoLostGrant
<1>3. IInv /\ WakeArmed /\ [Next]_vars => WakeArmed'
  BY WakeArmedStep
<1>4. QED
  BY <1>1, <1>2, <1>3, IInvInit, IInvStep, PTL DEF Spec

(***************************************************************************)
(* The mutex, a semaphore of one permit.                                   *)
(***************************************************************************)
\* Nothing in the mutex makes or destroys a permit.
OneTotal == total = 1

\* A step of the mutex is a step of the semaphore.
LEMMA MutexStep == [MutexNext]_vars => [Next]_vars
BY DEF MutexNext, Next, Locking, try_lock, DropGuard, OwnerStep

\* No step of the mutex changes the number of permits.
LEMMA OneTotalStep == OneTotal /\ [MutexNext]_vars => OneTotal'
<1> SUFFICES ASSUME OneTotal, [MutexNext]_vars PROVE total' = total
  BY DEF OneTotal
<1>1. CASE SignalStep
  BY <1>1 DEF SignalStep, SignalWoke, SignalStored, Unlock
<1>2. CASE Waking
  BY <1>2 DEF Waking, Wake
<1>3. ASSUME NEW f \in Futures, Locking(f) PROVE total' = total
  BY <1>3 DEF Locking, FutureStep, Acquire, PollLoad, Polled, PollClosed, PollReady, PollPark,
              PollAgain, DropFuture, DropIdle, DropParked, DropGranted
<1>4. CASE try_lock \/ DropGuard
  BY <1>4 DEF try_lock, DropGuard, try_acquire, Release
<1>5. CASE UNCHANGED vars
  BY <1>5 DEF vars
<1>6. QED
  BY <1>1, <1>2, <1>3, <1>4, <1>5 DEF MutexNext

\* Never two guards at once: lock, lock_owned, try_lock, their cancellation and
\* the forwarding of an unpolled grant.
THEOREM MutexExcludes == MutexSpec => []MutualExclusion
<1>1. MutexInit => IInv /\ OneTotal
  BY NewIInv DEF MutexInit, new, OneTotal
<1>2. IInv /\ OneTotal /\ [MutexNext]_vars => (IInv /\ OneTotal)'
  BY IInvStep, MutexStep, OneTotalStep
<1>3. IInv /\ OneTotal => MutualExclusion
  <2> SUFFICES ASSUME IInv, OneTotal PROVE held <= 1
    BY DEF MutualExclusion
  <2>1. permit \in Nat /\ todo \in Nat /\ held \in Nat
    BY DEF IInv, TypeOK
  <2>2. Cardinality(Unclaimed) \in Nat
    BY UnclaimedFinite DEF IInv
  <2>3. permit + todo + held + Cardinality(Unclaimed) = 1
    BY DEF IInv, PermitsConserved, OneTotal
  <2>4. QED
    BY <2>1, <2>2, <2>3
<1>4. QED
  BY <1>1, <1>2, <1>3, PTL DEF MutexSpec

\* The tail of a sequence begins one place later.
LEMMA SubSeqOfTail ==
  ASSUME NEW S, NEW q \in Seq(S), q # <<>>, NEW k \in 1 .. Len(q)
  PROVE  SubSeq(Tail(q), k, Len(Tail(q))) = SubSeq(q, k + 1, Len(q))
<1> DEFINE t == Tail(q)
           n == Len(q)
           a == SubSeq(t, k, Len(t))
           b == SubSeq(q, k + 1, n)
<1>1. /\ n \in Nat /\ k \in 1 .. n /\ t \in Seq(S) /\ Len(t) = n - 1
      /\ \A i \in 1 .. n - 1 : t[i] = q[i + 1]
  OBVIOUS
<1>q. \A i \in 1 .. n : q[i] \in S
  OBVIOUS
<1>t. \A i \in 1 .. Len(t) : t[i] \in S
  BY <1>1
<1> HIDE DEF t, n
<1>2. /\ a \in Seq(S) /\ Len(a) = (IF k <= Len(t) THEN Len(t) - k + 1 ELSE 0)
      /\ \A i \in 1 .. Len(t) - k + 1 : a[i] = t[k + i - 1]
  <2>1. \A i \in k .. Len(t) : t[i] \in S
    BY <1>1, <1>t
  <2>2. k \in Int /\ Len(t) \in Int
    BY <1>1
  <2>3. QED
    BY <2>1, <2>2, SubSeqProperties
<1>3. /\ b \in Seq(S) /\ Len(b) = (IF k + 1 <= n THEN n - (k + 1) + 1 ELSE 0)
      /\ \A i \in 1 .. n - (k + 1) + 1 : b[i] = q[k + 1 + i - 1]
  <2>1. \A i \in k + 1 .. n : q[i] \in S
    BY <1>1, <1>q
  <2>2. k + 1 \in Int /\ n \in Int
    BY <1>1
  <2>3. QED
    BY <2>1, <2>2, SubSeqProperties
<1> HIDE DEF a, b
<1>4. Len(a) = n - k /\ Len(b) = n - k
  BY <1>1, <1>2, <1>3
<1>5. \A i \in 1 .. n - k : a[i] = b[i]
  <2> SUFFICES ASSUME NEW i \in 1 .. n - k PROVE a[i] = b[i]
    OBVIOUS
  <2>1. k + i - 1 \in 1 .. n - 1 /\ (k + i - 1) + 1 = k + i /\ k + 1 + i - 1 = k + i
    BY <1>1
  <2>2. t[k + i - 1] = q[k + i]
    BY <1>1, <2>1
  <2>3. i \in 1 .. Len(t) - k + 1 /\ i \in 1 .. n - (k + 1) + 1
    BY <1>1
  <2>4. a[i] = t[k + i - 1] /\ b[i] = q[k + 1 + i - 1]
    BY <1>2, <1>3, <2>3
  <2>5. QED
    BY <2>1, <2>2, <2>4
<1>6. a = b
  BY <1>2, <1>3, <1>4, <1>5, SeqEqual
<1>7. QED
  BY <1>6 DEF a, b, t, n

(***************************************************************************)
(* The semaphore serves its waiters in turn: it implements WaitLine.       *)
(***************************************************************************)
\* The abstract line, in states of the semaphore: outside signal_n nobody is
\* being settled, and in an open semaphore every queued waiter has a waker and
\* waits.
LEMMA LineFacts ==
  ASSUME IInv
  PROVE  /\ queue \in Seq(Futures) /\ Len(queue) \in Nat /\ todo \in Nat /\ permit \in Nat /\ held \in Nat
         /\ closed \in BOOLEAN /\ Settling \in 0 .. Len(queue) /\ Settling <= todo
         /\ todo = 0 => Settling = 0
         /\ Settling = 0 => /\ WaitingLine = IF closed THEN <<>> ELSE queue
                            /\ HandedOut = Unclaimed
         /\ InQueue \subseteq Futures /\ (queue = <<>> <=> InQueue = {})
         /\ ~closed => \A f \in InQueue : /\ entry[f] # NoWaker /\ f \in parked /\ f \notin granted
                                          /\ fut[f] \in {"polling", "pending"}
<1>1. /\ TypeOK /\ Shape /\ WaitersReachable /\ QueueOK /\ \A f \in Futures : FutureOK(f)
  BY DEF IInv, Shape
<1>2. /\ queue \in Seq(Futures) /\ Len(queue) \in Nat /\ todo \in Nat /\ permit \in Nat /\ held \in Nat
      /\ closed \in BOOLEAN
  BY <1>1 DEF TypeOK
<1>3. Settling \in 0 .. Len(queue) /\ Settling <= todo /\ (todo = 0 => Settling = 0)
  BY <1>2 DEF Settling
<1>4. SubSeq(queue, 1, Len(queue)) = queue
  BY <1>2, SubSeqFull
<1>5. Settling = 0 => WaitingLine = (IF closed THEN <<>> ELSE queue) /\ HandedOut = Unclaimed
  <2> SUFFICES ASSUME Settling = 0
               PROVE  WaitingLine = (IF closed THEN <<>> ELSE queue) /\ HandedOut = Unclaimed
    OBVIOUS
  <2>1. SubSeq(queue, Settling + 1, Len(queue)) = queue
    BY <1>4
  <2>2. {queue[i] : i \in 1 .. Settling} = {}
    OBVIOUS
  <2>3. QED
    BY <2>1, <2>2, Zenon DEF WaitingLine, HandedOut
<1>6. InQueue \subseteq Futures /\ (queue = <<>> <=> InQueue = {})
  BY <1>1, InQueueType, InQueueEmpty
<1>7. ~closed => \A f \in InQueue : /\ entry[f] # NoWaker /\ f \in parked /\ f \notin granted
                                    /\ fut[f] \in {"polling", "pending"}
  BY <1>1, <1>6 DEF FutureOK, WaitersReachable
<1>8. QED
  BY <1>2, <1>3, <1>5, <1>6, <1>7

\* Nothing of the line changes with the queue, the permits and the close left
\* alone, but for the futures.
LEMMA LineKept ==
  ASSUME UNCHANGED <<queue, todo, closed, permit>>
  PROVE  /\ WaitingLine' = WaitingLine /\ FreePermits' = FreePermits /\ Settling' = Settling
         /\ InQueue' = InQueue
         /\ HandedOut' = Unclaimed' \cup {queue[i] : i \in 1 .. Settling}
BY DEF WaitingLine, FreePermits, Settling, HandedOut, InQueue

\* Entering signal_n with n permits settles the first n of the line; g are those
\* who were handed one before and keep it.
LEMMA SignalHands ==
  ASSUME IInv, todo = 0, NEW n \in Nat, todo' = n, UNCHANGED <<permit, queue, closed>>,
         NEW g, Unclaimed' = g
  PROVE  SemaphoreLine!Hand(n, g)
<1>1. /\ queue \in Seq(Futures) /\ Len(queue) \in Nat /\ permit \in Nat /\ closed \in BOOLEAN
      /\ WaitingLine = (IF closed THEN <<>> ELSE queue) /\ Settling = 0
  BY LineFacts
<1> DEFINE k == IF n <= Len(WaitingLine) THEN n ELSE Len(WaitingLine)
<1>2. k = Settling' /\ k \in Nat
  BY <1>1 DEF Settling
<1>3. WaitingLine' = SubSeq(WaitingLine, k + 1, Len(WaitingLine))
  <2>1. CASE closed
    <3>1. k = 0 /\ WaitingLine = <<>> /\ WaitingLine' = <<>>
      BY <1>1, <2>1 DEF WaitingLine
    <3>2. SubSeq(WaitingLine, k + 1, Len(WaitingLine)) = <<>>
      BY <3>1, SubSeqEmpty
    <3>3. QED
      BY <3>1, <3>2
  <2>2. CASE ~closed
    BY <1>1, <1>2, <2>2 DEF WaitingLine
  <2>3. QED
    BY <2>1, <2>2
<1>4. HandedOut' = g \cup {WaitingLine[i] : i \in 1 .. k}
  <2>1. HandedOut' = g \cup {queue[i] : i \in 1 .. k}
    BY <1>2 DEF HandedOut
  <2>2. CASE closed
    <3>1. k = 0
      BY <1>1, <2>2
    <3>2. QED
      BY <2>1, <3>1
  <2>3. CASE ~closed
    BY <1>1, <2>1, <2>3
  <2>4. QED
    BY <2>2, <2>3
<1>5. FreePermits' = FreePermits + n - k
  <2> HIDE DEF k
  <2>1. FreePermits = permit /\ FreePermits' = permit + n - k
    BY <1>1, <1>2 DEF FreePermits
  <2>2. QED
    BY <1>1, <1>2, <2>1
<1>6. QED
  BY <1>3, <1>4, <1>5 DEF SemaphoreLine!Hand

\* A step of the thread in signal_n changes nothing that is seen from outside.
LEMMA SignalHidden ==
  ASSUME IInv, SignalStep
  PROVE  UNCHANGED <<FreePermits, WaitingLine, HandedOut, SentAway, held, closed>>
<1>0. /\ queue \in Seq(Futures) /\ Len(queue) \in Nat /\ todo \in Nat /\ permit \in Nat
      /\ closed \in BOOLEAN /\ Settling \in 0 .. Len(queue) /\ Settling <= todo
      /\ TypeOK /\ QueueOK /\ \A f \in Futures : FutureOK(f)
  BY LineFacts DEF IInv, Shape
<1>1. CASE SignalWoke
  <2> DEFINE h == Head(queue)
  <2>1. /\ queue # <<>> /\ queue' = Tail(queue) /\ permit' = permit /\ todo > 0
        /\ UNCHANGED <<closed, parked, fut, held>>
        /\ granted' = IF entry[h] # NoWaker THEN granted \cup {h} ELSE granted
        /\ todo' = IF entry[h] # NoWaker THEN todo - 1 ELSE todo
    BY <1>1 DEF SignalWoke, signal_woke
  <2>2. /\ Len(queue) >= 1 /\ h = queue[1] /\ Len(queue') = Len(queue) - 1
        /\ \A i \in 1 .. Len(queue) - 1 : queue'[i] = queue[i + 1]
        /\ h \in InQueue /\ h \in Futures
    BY <1>0, <2>1, InQueueType DEF InQueue
  <2> HIDE DEF h
  <2>3. CASE closed
    <3>1. entry[h] = NoWaker
      BY <1>0, <2>2, <2>3 DEF FutureOK
    <3>2. UNCHANGED <<granted, todo, permit, closed, parked, fut>>
      BY <2>1, <3>1
    <3>3. Settling = 0 /\ Settling' = 0
      BY <2>3, <3>2 DEF Settling
    <3>4. UNCHANGED <<WaitingLine, FreePermits, Unclaimed, SentAway>>
      BY <2>3, <3>2, <3>3 DEF WaitingLine, FreePermits, Unclaimed, SentAway
    <3>5. HandedOut' = HandedOut
      BY <3>3, <3>4 DEF HandedOut
    <3>6. QED
      BY <2>1, <3>4, <3>5
  <2>4. CASE ~closed
    <3>1. entry[h] # NoWaker /\ h \in parked /\ h \notin granted /\ fut[h] \in {"polling", "pending"}
      BY <2>2, <2>4, LineFacts
    <3>2. granted' = granted \cup {h} /\ todo' = todo - 1
      BY <2>1, <3>1
    <3>3. Settling' = Settling - 1 /\ Settling >= 1
      BY <1>0, <2>1, <2>2, <2>4, <3>2 DEF Settling
    <3>4. FreePermits' = FreePermits
      BY <1>0, <2>1, <3>2, <3>3 DEF FreePermits
    <3>5. WaitingLine' = WaitingLine
      BY <1>0, <2>1, <2>4, <3>3, SubSeqOfTail DEF WaitingLine
    <3>6. Unclaimed' = Unclaimed \cup {h}
      BY <2>1, <3>1, <3>2 DEF Unclaimed
    <3>7. {queue'[i] : i \in 1 .. Settling'} \cup {h} = {queue[i] : i \in 1 .. Settling}
      <4> DEFINE k == Settling
      <4>1. k \in 1 .. Len(queue) /\ Settling' = k - 1
        BY <1>0, <3>3
      <4> HIDE DEF k
      <4>2. \A i \in 1 .. k - 1 : queue'[i] = queue[i + 1] /\ i + 1 \in 1 .. k
        BY <1>0, <2>2, <4>1
      <4>3. \A i \in 1 .. k : i # 1 => i - 1 \in 1 .. k - 1 /\ queue[i] = queue'[i - 1]
        BY <1>0, <2>2, <4>1
      <4>4. 1 \in 1 .. k
        BY <1>0, <4>1
      <4>5. {queue'[i] : i \in 1 .. k - 1} \cup {queue[1]} = {queue[i] : i \in 1 .. k}
        BY <4>2, <4>3, <4>4
      <4>6. QED
        BY <2>2, <4>1, <4>5, Zenon DEF k
    <3>8. HandedOut' = HandedOut
      BY <3>6, <3>7 DEF HandedOut
    <3>9. SentAway' = SentAway
      BY <2>1, <2>4 DEF SentAway
    <3>10. QED
      BY <2>1, <3>4, <3>5, <3>8, <3>9
  <2>5. QED
    BY <2>3, <2>4
<1>2. CASE SignalStored
  <2>1. /\ queue = <<>> /\ queue' = queue /\ permit' = permit + 1 /\ todo > 0 /\ todo' = todo - 1
        /\ UNCHANGED <<closed, granted, parked, fut, held>>
    BY <1>2 DEF SignalStored, signal_stored, futv
  <2>2. Settling = 0 /\ Settling' = 0
    BY <1>0, <2>1 DEF Settling
  <2>3. UNCHANGED <<WaitingLine, FreePermits, Unclaimed, SentAway>>
    BY <1>0, <2>1, <2>2 DEF WaitingLine, FreePermits, Unclaimed, SentAway
  <2>4. HandedOut' = HandedOut
    BY <2>2, <2>3 DEF HandedOut
  <2>5. QED
    BY <2>1, <2>3, <2>4
<1>3. CASE Unlock
  BY <1>3 DEF Unlock, inner, kernel, futv, WaitingLine, FreePermits, HandedOut, Settling, Unclaimed, SentAway
<1>4. QED
  BY <1>1, <1>2, <1>3 DEF SignalStep

\* Every step of the semaphore is a step of the line or changes nothing of it.
LEMMA LineStep == IInv /\ [Next]_vars => [SemaphoreLine!LineNext]_(SemaphoreLine!lineVars)
<1> SUFFICES ASSUME IInv, [Next]_vars
             PROVE  SemaphoreLine!LineNext \/ UNCHANGED SemaphoreLine!lineVars
  OBVIOUS
<1>0. /\ TypeOK /\ NoBarging /\ WaitersReachable /\ QueueOK /\ granted \subseteq parked /\ (~lock => todo = 0)
      /\ fut \in [Futures -> FutStates] /\ parked \subseteq Futures /\ closed \in BOOLEAN
      /\ \A f \in Futures : FutureOK(f)
      /\ permit \in Nat /\ held \in Nat /\ queue \in Seq(Futures)
  BY DEF IInv, Shape, TypeOK
<1>f. ~lock => todo = 0 /\ Settling = 0 /\ FreePermits = permit /\ HandedOut = Unclaimed
               /\ WaitingLine = IF closed THEN <<>> ELSE queue
  BY <1>0, LineFacts DEF FreePermits
<1> DEFINE Same == UNCHANGED <<FreePermits, WaitingLine, HandedOut, SentAway, held, closed>>
<1>s. Same => UNCHANGED SemaphoreLine!lineVars
  BY DEF SemaphoreLine!lineVars
<1> HIDE DEF Same
<1>1. CASE SignalStep
  BY <1>1, <1>s, SignalHidden DEF Same
<1>2. CASE Waking \/ UNCHANGED vars
  <2>1. UNCHANGED <<queue, todo, closed, permit, granted, parked, fut, held>>
    BY <1>2 DEF Waking, Wake, vars, inner, kernel, signalv, futv
  <2>2. Unclaimed' = Unclaimed /\ SentAway' = SentAway
    BY <2>1 DEF Unclaimed, SentAway
  <2>3. QED
    BY <1>s, <2>1, <2>2, LineKept DEF Same, HandedOut
<1>3. ASSUME NEW f \in Futures, Acquire(f) PROVE UNCHANGED SemaphoreLine!lineVars
  <2>1. /\ UNCHANGED <<queue, todo, closed, permit, held>> /\ fut[f] = "gone"
        /\ fut' = [fut EXCEPT ![f] = "new"] /\ granted' = granted \ {f} /\ parked' = parked \ {f}
    BY <1>3 DEF Acquire, inner, kernel, signalv
  <2>2. Unclaimed' = Unclaimed /\ SentAway' = SentAway
    BY <1>0, <2>1 DEF Unclaimed, SentAway
  <2>3. QED
    BY <1>s, <2>1, <2>2, LineKept DEF Same, HandedOut
<1>4. ASSUME NEW f \in Futures, NEW w \in Wakers, PollLoad(f, w)
      PROVE  SemaphoreLine!LineNext \/ UNCHANGED SemaphoreLine!lineVars
  <2>1. /\ UNCHANGED <<queue, todo, closed, permit, granted, parked>> /\ fut[f] \in {"new", "pending"}
    BY <1>4 DEF PollLoad, inner, kernel, signalv
  <2>2. CASE f \in granted
    <3>1. fut' = [fut EXCEPT ![f] = "ok"] /\ held' = held + 1 /\ fut[f] = "pending"
      BY <1>0, <1>4, <2>2 DEF PollLoad, FutureOK
    <3>2. f \in Unclaimed /\ Unclaimed' = Unclaimed \ {f} /\ SentAway' = SentAway
      BY <1>0, <2>1, <2>2, <3>1 DEF Unclaimed, SentAway
    <3>3. f \notin {queue[i] : i \in 1 .. Settling}
      BY <1>0, <2>2, LineFacts DEF FutureOK, InQueue
    <3>4. HandedOut' = HandedOut \ {f} /\ f \in HandedOut
      BY <2>1, <3>2, <3>3, LineKept DEF HandedOut
    <3>5. SemaphoreLine!Claim(f)
      BY <2>1, <3>1, <3>2, <3>4, LineKept DEF SemaphoreLine!Claim
    <3>6. QED
      BY <3>5 DEF SemaphoreLine!LineNext
  <2>3. CASE f \notin granted
    <3>1. fut' = [fut EXCEPT ![f] = "polling"] /\ held' = held
      BY <1>4, <2>3 DEF PollLoad
    <3>2. f \in parked => fut[f] = "pending"
      BY <1>0, <2>1 DEF FutureOK
    <3>3. Unclaimed' = Unclaimed /\ SentAway' = SentAway
      BY <1>0, <2>1, <2>3, <3>1, <3>2 DEF Unclaimed, SentAway
    <3>4. QED
      BY <1>s, <2>1, <3>1, <3>3, LineKept DEF Same, HandedOut
  <2>4. QED
    BY <2>2, <2>3
<1>5. ASSUME NEW f \in Futures, PollClosed(f)
      PROVE  SemaphoreLine!LineNext \/ UNCHANGED SemaphoreLine!lineVars
  <2>1. /\ UNCHANGED <<queue, todo, closed, permit, granted, parked, held>> /\ fut[f] = "polling" /\ closed
        /\ fut' = [fut EXCEPT ![f] = "err"]
    BY <1>5 DEF PollClosed, inner, kernel, signalv
  <2>2. Unclaimed' = Unclaimed /\ SentAway' = SentAway \ {f}
    BY <1>0, <2>1 DEF Unclaimed, SentAway
  <2>3. UNCHANGED <<FreePermits, WaitingLine, HandedOut>>
    BY <2>1, <2>2, LineKept DEF HandedOut
  <2>4. CASE f \in SentAway
    <3>1. SemaphoreLine!Hear(f)
      BY <2>1, <2>2, <2>3, <2>4 DEF SemaphoreLine!Hear
    <3>2. QED
      BY <3>1 DEF SemaphoreLine!LineNext
  <2>5. CASE f \notin SentAway
    BY <1>s, <2>1, <2>2, <2>3, <2>5 DEF Same
  <2>6. QED
    BY <2>4, <2>5
<1>6. ASSUME ~lock, ~closed, take_step, held' = held + 1, UNCHANGED <<todo, closed, granted, parked>>,
             Unclaimed' = Unclaimed
      PROVE  SemaphoreLine!LineNext
  <2>1. /\ permit > 0 /\ permit' = permit - 1 /\ queue' = queue /\ queue = <<>>
    BY <1>0, <1>6 DEF take_step, NoBarging
  <2>2. Settling' = Settling /\ WaitingLine' = WaitingLine /\ WaitingLine = <<>>
    BY <1>6, <1>f, <2>1 DEF Settling, WaitingLine
  <2>3. FreePermits' = FreePermits - 1 /\ FreePermits > 0
    BY <1>0, <1>6, <1>f, <2>1, <2>2 DEF FreePermits
  <2>4. HandedOut' = HandedOut
    BY <1>6, <2>1, <2>2 DEF HandedOut
  <2>5. SentAway = {} /\ SentAway' = {}
    BY <1>6 DEF SentAway
  <2>6. SemaphoreLine!Take
    BY <1>6, <2>2, <2>3, <2>4, <2>5 DEF SemaphoreLine!Take
  <2>7. QED
    BY <2>6 DEF SemaphoreLine!LineNext
<1>7. ASSUME NEW f \in Futures, PollReady(f) PROVE SemaphoreLine!LineNext
  <2>1. /\ ~lock /\ ~closed /\ take_step /\ held' = held + 1 /\ UNCHANGED <<todo, closed, granted, parked>>
        /\ f \notin parked /\ fut' = [fut EXCEPT ![f] = "ok"]
    BY <1>7 DEF PollReady, signalv
  <2>2. Unclaimed' = Unclaimed
    BY <1>0, <2>1 DEF Unclaimed
  <2>3. QED
    BY <1>6, <2>1, <2>2
<1>8. CASE try_acquire
  <2>1. /\ ~lock /\ ~closed /\ take_step /\ held' = held + 1 /\ UNCHANGED <<todo, closed, granted, parked, fut>>
    BY <1>8 DEF try_acquire, signalv, futv
  <2>2. Unclaimed' = Unclaimed
    BY <2>1 DEF Unclaimed
  <2>3. QED
    BY <1>6, <2>1, <2>2
<1>9. ASSUME NEW f \in Futures, PollPark(f) PROVE SemaphoreLine!LineNext
  <2>1. /\ ~lock /\ ~closed /\ f \notin parked /\ permit = 0 /\ permit' = permit /\ queue' = Append(queue, f)
        /\ UNCHANGED <<todo, closed, granted, held>> /\ fut[f] = "polling"
        /\ fut' = [fut EXCEPT ![f] = "pending"]
    BY <1>9 DEF PollPark, park_step, signalv
  <2>2. f \notin granted /\ f \notin InQueue
    BY <1>0, <2>1 DEF FutureOK
  <2>3. queue' \in Seq(Futures) /\ Len(queue') \in Nat
    BY <1>0, <2>1
  <2>4. Settling' = 0
    BY <1>f, <2>1, <2>3 DEF Settling
  <2>5. SubSeq(queue', 1, Len(queue')) = queue'
    BY <2>3, SubSeqFull
  <2>6. WaitingLine = queue /\ WaitingLine' = Append(queue, f)
    BY <1>f, <2>1, <2>4, <2>5 DEF WaitingLine
  <2>7. FreePermits = 0 /\ FreePermits' = 0
    BY <1>f, <2>1, <2>4 DEF FreePermits
  <2>8. Unclaimed' = Unclaimed
    BY <1>0, <2>1, <2>2 DEF Unclaimed
  <2>9. HandedOut' = Unclaimed
    BY <2>4, <2>8 DEF HandedOut
  <2>10. SentAway = {} /\ SentAway' = {}
    BY <2>1 DEF SentAway
  <2>11. f \notin SemaphoreLine!Waiting \cup HandedOut \cup SentAway
    BY <1>f, <2>1, <2>2, <2>6, <2>10 DEF SemaphoreLine!Waiting, InQueue, Unclaimed
  <2>12. SemaphoreLine!Join(f)
    BY <1>f, <2>1, <2>6, <2>7, <2>9, <2>10, <2>11 DEF SemaphoreLine!Join
  <2>13. QED
    BY <2>12 DEF SemaphoreLine!LineNext
<1>10. ASSUME NEW f \in Futures, PollAgain(f) \/ DropIdle(f) PROVE UNCHANGED SemaphoreLine!lineVars
  <2>1. /\ UNCHANGED <<queue, todo, closed, permit, granted, parked, held>>
        /\ \/ fut[f] = "polling" /\ fut' = [fut EXCEPT ![f] = "pending"]
           \/ /\ fut[f] = "ok" \/ f \notin parked
              /\ fut' = [fut EXCEPT ![f] = "gone"]
    BY <1>10 DEF PollAgain, DropIdle, inner, kernel, signalv
  <2>2. Unclaimed' = Unclaimed /\ SentAway' = SentAway
    BY <1>0, <2>1 DEF Unclaimed, SentAway
  <2>3. QED
    BY <1>s, <2>1, <2>2, LineKept DEF Same, HandedOut
<1>11. ASSUME NEW f \in Futures, DropParked(f)
       PROVE  SemaphoreLine!LineNext \/ UNCHANGED SemaphoreLine!lineVars
  <2>1. /\ UNCHANGED <<todo, closed, permit, granted, parked, held>> /\ remove_step(f) /\ ~lock
        /\ fut[f] \in {"pending", "err"} /\ f \in parked /\ fut' = [fut EXCEPT ![f] = "gone"] /\ f \in InQueue
    BY <1>11 DEF DropParked, Cancellable, remove_step, signalv
  <2>2. f \notin granted
    BY <1>0, <2>1 DEF FutureOK
  <2>3. Unclaimed' = Unclaimed /\ SentAway' = SentAway \ {f}
    BY <1>0, <2>1, <2>2 DEF Unclaimed, SentAway
  <2>4. queue' \in Seq(Futures) /\ Len(queue') \in Nat
    BY <1>0, <2>1, RemoveStep DEF QueueOK
  <2>5. Settling' = 0
    BY <1>f, <2>1, <2>4 DEF Settling
  <2>6. HandedOut' = HandedOut /\ FreePermits' = FreePermits
    BY <1>0, <1>f, <2>1, <2>3, <2>5 DEF HandedOut, FreePermits
  <2>7. CASE closed
    <3>1. WaitingLine' = WaitingLine
      BY <2>1, <2>7 DEF WaitingLine
    <3>2. CASE f \in SentAway
      <4>1. SemaphoreLine!Hear(f)
        BY <2>1, <2>3, <2>6, <3>1, <3>2 DEF SemaphoreLine!Hear
      <4>2. QED
        BY <4>1 DEF SemaphoreLine!LineNext
    <3>3. CASE f \notin SentAway
      BY <1>s, <2>1, <2>3, <2>6, <3>1, <3>3 DEF Same
    <3>4. QED
      BY <3>2, <3>3
  <2>8. CASE ~closed
    <3>1. SubSeq(queue', 1, Len(queue')) = queue'
      BY <2>4, SubSeqFull
    <3>2. WaitingLine = queue /\ WaitingLine' = queue'
      BY <1>f, <2>1, <2>5, <2>8, <3>1 DEF WaitingLine
    <3>3. SentAway' = SentAway
      BY <2>3, <2>8 DEF SentAway
    <3>4. find_first(f) \in 1 .. Len(queue)
      BY <1>0, <2>1, FirstPlace
    <3>5. SemaphoreLine!Leave(find_first(f))
      BY <2>1, <2>6, <3>2, <3>3 DEF SemaphoreLine!Leave, remove_step, Without
    <3>6. QED
      BY <3>2, <3>4, <3>5 DEF SemaphoreLine!LineNext
  <2>9. QED
    BY <2>7, <2>8
<1>12. ASSUME NEW f \in Futures, DropGranted(f)
       PROVE  SemaphoreLine!LineNext \/ UNCHANGED SemaphoreLine!lineVars
  <2>1. /\ UNCHANGED <<queue, closed, permit, granted, parked, held>> /\ ~lock /\ f \notin InQueue
        /\ fut[f] \in {"pending", "err"} /\ f \in parked /\ fut' = [fut EXCEPT ![f] = "gone"]
        /\ todo' = IF f \in granted THEN 1 ELSE todo
    BY <1>12 DEF DropGranted, Cancellable, signal_n, inner, kernel, signalv
  <2>2. CASE f \in granted
    <3>1. Unclaimed' = Unclaimed \ {f} /\ f \in Unclaimed /\ SentAway' = SentAway /\ todo' = 1
      BY <1>0, <2>1, <2>2 DEF Unclaimed, SentAway
    <3>2. HandedOut = Unclaimed /\ todo = 0
      BY <1>f, <2>1
    <3>3. SemaphoreLine!Hand(1, Unclaimed \ {f})
      BY <2>1, <3>1, <3>2, SignalHands
    <3>4. SemaphoreLine!Refuse(f)
      BY <2>1, <3>1, <3>2, <3>3 DEF SemaphoreLine!Refuse
    <3>5. QED
      BY <3>4 DEF SemaphoreLine!LineNext
  <2>3. CASE f \notin granted
    <3>1. Unclaimed' = Unclaimed /\ SentAway' = SentAway \ {f} /\ todo' = todo
      BY <1>0, <2>1, <2>3 DEF Unclaimed, SentAway
    <3>2. UNCHANGED <<FreePermits, WaitingLine, HandedOut>>
      BY <2>1, <3>1, LineKept DEF HandedOut
    <3>3. CASE f \in SentAway
      <4>1. SemaphoreLine!Hear(f)
        BY <2>1, <3>1, <3>2, <3>3 DEF SemaphoreLine!Hear
      <4>2. QED
        BY <4>1 DEF SemaphoreLine!LineNext
    <3>4. CASE f \notin SentAway
      BY <1>s, <2>1, <3>1, <3>2, <3>4 DEF Same
    <3>5. QED
      BY <3>3, <3>4
  <2>4. QED
    BY <2>2, <2>3
<1>13. CASE Release
  <2>1. /\ held > 0 /\ held' = held - 1 /\ todo' = 1 /\ ~lock
        /\ UNCHANGED <<queue, closed, permit, granted, parked, fut>>
    BY <1>13 DEF Release, signal_n, inner, kernel, futv
  <2>2. Unclaimed' = Unclaimed /\ SentAway' = SentAway /\ HandedOut = Unclaimed /\ todo = 0
    BY <1>f, <2>1 DEF Unclaimed, SentAway
  <2>3. SemaphoreLine!Hand(1, Unclaimed)
    BY <2>1, <2>2, SignalHands
  <2>4. SemaphoreLine!Return
    BY <2>1, <2>2, <2>3 DEF SemaphoreLine!Return
  <2>5. QED
    BY <2>4 DEF SemaphoreLine!LineNext
<1>14. CASE Forget
  <2>1. /\ held > 0 /\ held' = held - 1
        /\ UNCHANGED <<queue, todo, closed, permit, granted, parked, fut>>
    BY <1>14 DEF Forget, inner, kernel, signalv, futv
  <2>2. Unclaimed' = Unclaimed /\ SentAway' = SentAway
    BY <2>1 DEF Unclaimed, SentAway
  <2>3. SemaphoreLine!Spend
    BY <2>1, <2>2, LineKept DEF SemaphoreLine!Spend, HandedOut
  <2>4. QED
    BY <2>3 DEF SemaphoreLine!LineNext
<1>15. ASSUME NEW n \in 0 .. MaxPermits, add_permits(n) PROVE SemaphoreLine!LineNext
  <2>1. /\ todo' = n /\ ~lock /\ n \in Nat
        /\ UNCHANGED <<queue, closed, permit, granted, parked, fut, held>>
    BY <1>15, PermitsAssumption DEF add_permits, signal_n, inner, kernel, futv
  <2>2. Unclaimed' = Unclaimed /\ SentAway' = SentAway /\ HandedOut = Unclaimed /\ todo = 0
    BY <1>f, <2>1 DEF Unclaimed, SentAway
  <2>3. SemaphoreLine!Hand(n, Unclaimed)
    BY <2>1, <2>2, SignalHands
  <2>4. SemaphoreLine!Supply(n)
    BY <2>1, <2>2, <2>3 DEF SemaphoreLine!Supply
  <2>5. QED
    BY <2>4 DEF SemaphoreLine!LineNext
<1>16. CASE Close
  <2>1. /\ ~lock /\ closed' = TRUE /\ UNCHANGED <<queue, todo, permit, granted, parked, fut, held>>
    BY <1>16 DEF Close, kernel, signalv, futv
  <2>2. Settling' = 0 /\ WaitingLine' = <<>>
    BY <2>1 DEF Settling, WaitingLine
  <2>3. Unclaimed' = Unclaimed
    BY <2>1 DEF Unclaimed
  <2>4. HandedOut' = HandedOut /\ FreePermits' = FreePermits
    BY <1>0, <1>f, <2>1, <2>2, <2>3 DEF HandedOut, FreePermits
  <2>5. SentAway' = SentAway \cup SemaphoreLine!Waiting
    <3>1. CASE closed
      <4>1. WaitingLine = <<>>
        BY <1>f, <2>1, <3>1
      <4>2. SemaphoreLine!Waiting = {}
        BY <4>1 DEF SemaphoreLine!Waiting
      <4>3. SentAway' = SentAway
        BY <2>1, <3>1 DEF SentAway
      <4>4. QED
        BY <4>2, <4>3
    <3>2. CASE ~closed
      <4>1. WaitingLine = queue
        BY <1>f, <2>1, <3>2
      <4>2. SemaphoreLine!Waiting = InQueue
        BY <4>1 DEF SemaphoreLine!Waiting, InQueue
      <4>3. SentAway = {}
        BY <3>2 DEF SentAway
      <4>4. SentAway' = {f \in parked : f \notin granted /\ fut[f] \in {"polling", "pending"}}
        BY <2>1 DEF SentAway
      <4>5. InQueue \subseteq SentAway'
        BY <3>2, <4>4, LineFacts
      <4>6. SentAway' \subseteq InQueue
        BY <1>0, <3>2, <4>4 DEF WaitersReachable
      <4>7. QED
        BY <4>2, <4>3, <4>5, <4>6
    <3>3. QED
      BY <3>1, <3>2
  <2>6. SemaphoreLine!Dismiss
    BY <2>1, <2>2, <2>4, <2>5 DEF SemaphoreLine!Dismiss
  <2>7. QED
    BY <2>6 DEF SemaphoreLine!LineNext
<1>17. QED
  BY <1>1, <1>2, <1>3, <1>4, <1>5, <1>7, <1>8, <1>9, <1>10, <1>11, <1>12, <1>13, <1>14, <1>15, <1>16
  DEF Next, FutureStep, Polled, DropFuture, OwnerStep

\* A new semaphore is an empty line with its permits free.
LEMMA LineInitially == ASSUME new(Permits) PROVE SemaphoreLine!LineInit
<1>1. IInv
  BY NewIInv, PermitsAssumption
<1>2. /\ permit = Permits /\ queue = <<>> /\ closed = FALSE /\ todo = 0 /\ held = 0 /\ granted = {} /\ parked = {}
  BY DEF new, with_permits
<1>3. Unclaimed = {} /\ SentAway = {}
  BY <1>2 DEF Unclaimed, SentAway
<1>4. Settling = 0 /\ WaitingLine = <<>> /\ HandedOut = {}
  BY <1>1, <1>2, <1>3, LineFacts
<1>5. FreePermits = Permits
  BY <1>2, <1>4, PermitsAssumption DEF FreePermits
<1>6. QED
  BY <1>2, <1>3, <1>4, <1>5 DEF SemaphoreLine!LineInit

\* For any number of futures and permits, waiters get their permits in the order
\* in which they parked and nobody takes one past them, although signal_n serves
\* them one by one while others poll, waiters are cancelled before and after
\* their grant, and close leaves dead ids in the queue.
THEOREM SemaphoreInTurn == Spec => ImplementsLine
<1>1. QED
  BY LineInitially, LineStep, IInvInit, IInvStep, PTL
  DEF Spec, Init, ImplementsLine, SemaphoreLine!LineSpec

\* The mutex as well: lock futures are served in the order in which they parked,
\* and a try_lock never gets in before them.
THEOREM MutexInTurn ==
  ASSUME Permits = 1
  PROVE  MutexSpec => ImplementsLine
<1>1. MutexInit => Init
  BY DEF MutexInit, Init
<1>2. Init => SemaphoreLine!LineInit
  BY LineInitially DEF Init
<1>3. QED
  BY <1>1, <1>2, LineStep, IInvInit, IInvStep, MutexStep, PTL
  DEF MutexSpec, ImplementsLine, SemaphoreLine!LineSpec

=============================================================================

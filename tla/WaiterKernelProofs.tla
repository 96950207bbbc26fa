------------------------- MODULE WaiterKernelProofs -------------------------
(***************************************************************************)
(* What the steps of the WaiterKernel do to the set of parked waiters, for *)
(* queues without duplicates.                                              *)
(***************************************************************************)
EXTENDS WaiterKernel, TLAPS

\* No waiter is queued twice.
Distinct(q) == \A i, j \in 1 .. Len(q) : q[i] = q[j] => i = j

\* The queue is well-formed.
QueueOK == queue \in Seq(Futures) /\ Distinct(queue)

\* Only futures are parked.
LEMMA InQueueType == QueueOK => InQueue \subseteq Futures
BY DEF QueueOK, InQueue

\* A queue is empty exactly when nobody is in it.
LEMMA InQueueEmpty == QueueOK => (queue = <<>> <=> InQueue = {})
<1> SUFFICES ASSUME QueueOK PROVE queue = <<>> <=> InQueue = {}
  OBVIOUS
<1>1. queue = <<>> => InQueue = {}
  BY DEF InQueue
<1>2. queue # <<>> => queue[1] \in InQueue
  <2>1. queue # <<>> => Len(queue) \in Nat \ {0}
    BY DEF QueueOK
  <2>2. QED
    BY <2>1 DEF InQueue
<1>3. QED
  BY <1>1, <1>2

\* wait_step parks a future that is not queued yet behind the others.
LEMMA ParkStep ==
  ASSUME QueueOK, NEW f \in Futures, f \notin InQueue, park_step(f)
  PROVE  QueueOK' /\ InQueue' = InQueue \cup {f}
<1>1. /\ queue' \in Seq(Futures) /\ Len(queue') = Len(queue) + 1 /\ Len(queue) \in Nat
      /\ \A i \in 1 .. Len(queue) : queue'[i] = queue[i]
      /\ queue'[Len(queue) + 1] = f
  BY DEF park_step, QueueOK
<1>2. Distinct(queue')
  BY <1>1 DEF QueueOK, InQueue, Distinct
<1>3. InQueue' = InQueue \cup {f}
  BY <1>1 DEF InQueue
<1>4. QED
  BY <1>1, <1>2, <1>3 DEF QueueOK

\* signal_step takes exactly the head out.
LEMMA SignalWokeStep ==
  ASSUME QueueOK, signal_woke
  PROVE  /\ QueueOK' /\ Head(queue) \in InQueue
         /\ InQueue' = InQueue \ {Head(queue)}
<1>1. /\ Head(queue) = queue[1] /\ Len(queue) \in Nat \ {0} /\ queue' \in Seq(Futures)
      /\ Len(queue') = Len(queue) - 1
      /\ \A i \in 1 .. Len(queue) - 1 : queue'[i] = queue[i + 1]
  BY DEF signal_woke, QueueOK
<1>2. Distinct(queue')
  <2> SUFFICES ASSUME NEW i \in 1 .. Len(queue'), NEW j \in 1 .. Len(queue'), queue'[i] = queue'[j]
               PROVE  i = j
    BY DEF Distinct
  <2>1. i + 1 \in 1 .. Len(queue) /\ j + 1 \in 1 .. Len(queue) /\ queue[i + 1] = queue[j + 1]
    BY <1>1
  <2>2. i + 1 = j + 1
    BY <2>1 DEF QueueOK, Distinct
  <2>3. QED
    BY <1>1, <2>2
<1>3. ASSUME NEW e \in InQueue' PROVE e \in InQueue \ {Head(queue)}
  <2>1. PICK i \in 1 .. Len(queue') : e = queue'[i]
    BY <1>3 DEF InQueue
  <2>2. i + 1 \in 1 .. Len(queue) /\ queue[i + 1] = e /\ 1 \in 1 .. Len(queue) /\ i + 1 # 1
    BY <1>1, <2>1
  <2>3. QED
    BY <1>1, <2>2 DEF QueueOK, Distinct, InQueue
<1>4. ASSUME NEW e \in InQueue \ {Head(queue)} PROVE e \in InQueue'
  <2>1. PICK i \in 1 .. Len(queue) : e = queue[i]
    BY <1>4 DEF InQueue
  <2>2. i - 1 \in 1 .. Len(queue') /\ queue'[i - 1] = e
    BY <1>1, <1>4, <2>1
  <2>3. QED
    BY <2>2 DEF InQueue
<1>5. Head(queue) \in InQueue
  BY <1>1 DEF InQueue
<1>6. QED
  BY <1>1, <1>2, <1>3, <1>4, <1>5 DEF QueueOK

\* find_first finds a queued waiter.
LEMMA FirstPlace ==
  ASSUME QueueOK, NEW f \in InQueue
  PROVE  find_first(f) \in 1 .. Len(queue) /\ queue[find_first(f)] = f
<1>1. PICK i \in 1 .. Len(queue) : queue[i] = f
  BY DEF InQueue
<1>2. \A j \in 1 .. i - 1 : queue[j] # f
  <2>1. Len(queue) \in Nat
    BY DEF QueueOK
  <2>2. QED
    BY <1>1, <2>1 DEF QueueOK, Distinct
<1>3. QED
  BY <1>1, <1>2 DEF find_first

\* remove_step takes exactly f out.
LEMMA RemoveStep ==
  ASSUME QueueOK, NEW f \in Futures, remove_step(f)
  PROVE  QueueOK' /\ InQueue' = InQueue \ {f}
<1> DEFINE k == find_first(f)
<1>1. Len(queue) \in Nat
  BY DEF QueueOK
<1>2. k \in 1 .. Len(queue) /\ queue[k] = f
  BY FirstPlace DEF remove_step
<1> HIDE DEF k
<1>3. queue' = [j \in 1 .. Len(queue) - 1 |-> IF j < k THEN queue[j] ELSE queue[j + 1]]
  BY DEF remove_step, Without, k
<1>4. queue' \in [1 .. Len(queue) - 1 -> Futures]
  <2>1. \A j \in 1 .. Len(queue) - 1 : queue[j] \in Futures /\ queue[j + 1] \in Futures
    BY <1>1 DEF QueueOK
  <2>2. QED
    BY <1>3, <2>1
<1>5. queue' \in Seq(Futures) /\ Len(queue') = Len(queue) - 1
  <2>1. Len(queue) - 1 \in Nat
    BY <1>1, <1>2
  <2>2. QED
    BY <1>4, <2>1
<1>6. Distinct(queue')
  <2> SUFFICES ASSUME NEW i \in 1 .. Len(queue) - 1, NEW j \in 1 .. Len(queue) - 1, queue'[i] = queue'[j]
               PROVE  i = j
    BY <1>5 DEF Distinct
  <2> DEFINE p(n) == IF n < k THEN n ELSE n + 1
  <2>1. /\ p(i) \in 1 .. Len(queue) /\ p(j) \in 1 .. Len(queue)
        /\ queue'[i] = queue[p(i)] /\ queue'[j] = queue[p(j)]
    BY <1>1, <1>2, <1>3
  <2>2. p(i) = p(j)
    BY <2>1 DEF QueueOK, Distinct
  <2>3. QED
    BY <1>1, <1>2, <2>2
<1>7. ASSUME NEW e \in InQueue' PROVE e \in InQueue \ {f}
  <2>1. PICK i \in 1 .. Len(queue) - 1 : e = queue'[i]
    BY <1>5, <1>7 DEF InQueue
  <2>2. PICK j \in 1 .. Len(queue) : e = queue[j] /\ j # k
    <3>1. CASE i < k
      <4>1. i \in 1 .. Len(queue) /\ e = queue[i] /\ i # k
        BY <1>1, <1>2, <1>3, <2>1, <3>1
      <4>2. QED
        BY <4>1
    <3>2. CASE ~(i < k)
      <4>1. i + 1 \in 1 .. Len(queue) /\ e = queue[i + 1] /\ i + 1 # k
        BY <1>1, <1>2, <1>3, <2>1, <3>2
      <4>2. QED
        BY <4>1
    <3>3. QED
      BY <3>1, <3>2
  <2>3. QED
    BY <1>2, <2>2 DEF QueueOK, Distinct, InQueue
<1>8. ASSUME NEW e \in InQueue \ {f} PROVE e \in InQueue'
  <2>1. PICK i \in 1 .. Len(queue) : e = queue[i]
    BY <1>8 DEF InQueue
  <2>2. i # k
    BY <1>2, <1>8, <2>1
  <2>3. CASE i < k
    <3>1. i \in 1 .. Len(queue) - 1 /\ queue'[i] = e
      BY <1>1, <1>2, <1>3, <2>1, <2>3
    <3>2. QED
      BY <1>5, <3>1 DEF InQueue
  <2>4. CASE i > k
    <3>1. i - 1 \in 1 .. Len(queue) - 1 /\ queue'[i - 1] = e
      BY <1>1, <1>2, <1>3, <2>1, <2>4
    <3>2. QED
      BY <1>5, <3>1 DEF InQueue
  <2>5. QED
    BY <1>1, <1>2, <2>1, <2>2, <2>3, <2>4
<1>9. QED
  BY <1>5, <1>6, <1>7, <1>8 DEF QueueOK

=============================================================================

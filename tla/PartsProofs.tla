---------------------------- MODULE PartsProofs ----------------------------
(***************************************************************************)
(* Proofs about the parts that MCParts puts side by side, for every number *)
(* of receivers, channels, jobs, threads, timers, levels and slots: the    *)
(* watch and broadcast channels, the oneshot, JoinHandle, BlockingPool,    *)
(* MultiRuntime and the timer wheel, each on its own, and at the end all of*)
(* them as MCParts composes them.                                          *)
(*                                                                         *)
(* The wheel is a map: TimersInv says where every timer is; advance_to     *)
(* keeps it by draining level by level the slots that time passes.  The    *)
(* loops are recursive functions of the number of rounds, and what holds   *)
(* round after round is shown by the least round where it would fail.      *)
(***************************************************************************)
EXTENDS MCParts, WaiterKernelProofs, FiniteSetTheorems, WellFoundedInduction

(***************************************************************************)
(* Subscribers: the inductive invariant, receiver by receiver.  A queued   *)
(* receiver has seen everything, and a cursor never runs ahead: without    *)
(* these two, a send could turn "something to see" into "nothing to see".  *)
(***************************************************************************)
RxOK(f) ==
  /\ f \in InQueue <=> entry[f] # NoWaker
  /\ f \in InQueue => fut[f] = "pending" /\ seen[f] = version /\ ~closed
  /\ fut[f] = "pending" => ctx[f] \in Wakers
  /\ fut[f] = "pending" /\ (seen[f] # version \/ closed) => f \in woken \/ <<f, ctx[f]>> \in waking
  /\ fut[f] = "pending" /\ seen[f] = version /\ ~closed => entry[f] = ctx[f]
  /\ fut[f] = "closed" => closed /\ seen[f] = version
  /\ seen[f] <= version

SInv == SubscribersTypeOK /\ QueueOK /\ permit = 0 /\ \A f \in Futures : RxOK(f)

\* The invariant implies what the runs check.
LEMMA SInvImplies == SInv => UpdatesArrive
BY DEF SInv, RxOK, UpdatesArrive, WaitersMatch, NoMissedUpdate, ClosedSeenAll, SubscribersTypeOK

\* A new channel satisfies it.
LEMMA SInvInit == ASSUME NEW first \in Nat, SubscribersInit(first) PROVE SInv
<1>1. queue = <<>> /\ permit = 0 /\ queue \in Seq(Futures) /\ Len(queue) = 0
  BY DEF SubscribersInit, with_permits
<1>2. QueueOK /\ InQueue = {}
  BY <1>1 DEF QueueOK, Distinct, InQueue
<1>3. SubscribersTypeOK
  BY <1>1 DEF SubscribersInit, SubscribersTypeOK
<1>4. \A f \in Futures : RxOK(f)
  BY <1>2, WakersAssumption DEF SubscribersInit, RxOK
<1>5. QED
  BY <1>1, <1>2, <1>3, <1>4 DEF SInv

\* Everything about a receiver that an action on another one leaves alone.
Same(g) ==
  /\ (g \in InQueue)' <=> g \in InQueue
  /\ entry'[g] = entry[g] /\ fut'[g] = fut[g] /\ seen'[g] = seen[g] /\ ctx'[g] = ctx[g]
  /\ g \in woken => g \in woken'
  /\ <<g, ctx[g]>> \in waking => <<g, ctx[g]>> \in waking' \/ g \in woken'

\* An action on one receiver has to keep its own part only.
LEMMA OneReceiver ==
  ASSUME SInv, NEW f \in Futures, UNCHANGED <<version, closed, permit>>,
         SubscribersTypeOK', QueueOK', RxOK(f)', \A g \in Futures \ {f} : Same(g)
  PROVE  SInv'
<1>1. ASSUME NEW g \in Futures \ {f} PROVE RxOK(g)'
  BY <1>1 DEF SInv, RxOK, Same
<1>2. QED
  BY <1>1 DEF SInv

\* wake_all, after a new version or the end of the sender: every queued receiver is
\* taken off and its waker is about to be called.
LEMMA WakeAllKeeps ==
  ASSUME SInv, wake_all, UNCHANGED rxs, version' \in Nat, closed' \in BOOLEAN, version' >= version,
         version' > version \/ closed', closed => version' = version /\ closed'
  PROVE  SInv'
<1>1. /\ permit' = 0 /\ queue' = <<>> /\ queue' \in Seq(Futures) /\ Len(queue') = 0
      /\ seen' = seen /\ fut' = fut /\ ctx' = ctx /\ woken' = woken
  BY DEF SInv, wake_all, rxs
<1>2. QueueOK' /\ InQueue' = {}
  BY <1>1 DEF QueueOK, Distinct, InQueue
<1>3. waking' \subseteq Futures \X Wakers
  <2>1. \A f \in InQueue : f \in Futures /\ entry[f] \in Wakers
    BY InQueueType DEF SInv, SubscribersTypeOK, RxOK
  <2>2. QED
    BY <2>1 DEF wake_all, SInv, SubscribersTypeOK
<1>4. SubscribersTypeOK'
  BY <1>1, <1>3 DEF SInv, SubscribersTypeOK, wake_all
<1>5. ASSUME NEW f \in Futures PROVE RxOK(f)'
  <2>1. RxOK(f) /\ seen[f] \in Nat /\ version \in Nat
    BY DEF SInv, SubscribersTypeOK
  <2>2. entry'[f] = NoWaker
    BY <2>1 DEF wake_all, RxOK
  <2>3. fut[f] = "pending" => f \in woken \/ <<f, ctx[f]>> \in waking'
    <3>1. CASE fut[f] = "pending" /\ (seen[f] # version \/ closed)
      BY <2>1, <3>1 DEF RxOK, wake_all
    <3>2. CASE fut[f] = "pending" /\ seen[f] = version /\ ~closed
      <4>1. entry[f] = ctx[f] /\ entry[f] # NoWaker /\ f \in InQueue
        BY <2>1, <3>2, WakersAssumption DEF RxOK
      <4>2. QED
        BY <4>1 DEF wake_all
    <3>3. QED
      BY <3>1, <3>2, <2>1 DEF SInv, SubscribersTypeOK
  <2>4. seen[f] # version' \/ closed'
    BY <2>1 DEF RxOK
  <2>5. seen[f] <= version'
    BY <2>1 DEF RxOK
  <2>6. fut[f] = "closed" => closed' /\ seen[f] = version'
    BY <2>1 DEF RxOK
  <2>7. QED
    BY <1>1, <1>2, <2>1, <2>2, <2>3, <2>4, <2>5, <2>6 DEF RxOK
<1>6. QED
  BY <1>1, <1>2, <1>4, <1>5 DEF SInv

\* A waker is called.
LEMMA WakeKeeps ==
  ASSUME SInv, NEW f \in Futures, NEW w \in Wakers, Wake(f, w)
  PROVE  SInv'
<1>1. UNCHANGED <<version, closed, permit, queue, entry, seen, fut, ctx>>
  BY DEF Wake, kernel
<1>2. QueueOK' /\ InQueue' = InQueue
  BY <1>1 DEF SInv, QueueOK, Distinct, InQueue
<1>3. SubscribersTypeOK'
  BY <1>1 DEF SInv, SubscribersTypeOK, Wake
<1>4. \A g \in Futures : Same(g)
  BY <1>1, <1>2 DEF Wake, Same
<1>5. RxOK(f)'
  BY <1>1, <1>2, <1>4 DEF SInv, RxOK, Same
<1>6. QED
  BY <1>1, <1>2, <1>3, <1>4, <1>5, OneReceiver

\* A poll that answers Closed; the receiver has seen everything.
LEMMA ClosedKeeps ==
  ASSUME SInv, NEW f \in Futures, Closed(f), seen[f] = version
  PROVE  SInv'
<1>1. UNCHANGED <<version, closed, permit, queue, entry, waking, seen>>
  BY DEF Closed, wait, kernel
<1>2. QueueOK' /\ InQueue' = InQueue
  BY <1>1 DEF SInv, QueueOK, Distinct, InQueue
<1>3. SubscribersTypeOK'
  BY <1>1 DEF SInv, SubscribersTypeOK, Closed, Become, Ended
<1>4. \A g \in Futures \ {f} : Same(g)
  BY <1>1, <1>2 DEF SInv, SubscribersTypeOK, Closed, Become, Ended, Same
<1>5. fut'[f] = "closed" /\ closed
  BY DEF Closed, Become, SInv, SubscribersTypeOK
<1>6. RxOK(f)'
  BY <1>1, <1>2, <1>5 DEF SInv, RxOK
<1>7. QED
  BY <1>1, <1>2, <1>3, <1>4, <1>6, OneReceiver

\* A first poll that is told to wait.
LEMMA ParkKeeps ==
  ASSUME SInv, NEW f \in Futures, NEW w \in Wakers, Park(f, w), seen[f] = version
  PROVE  SInv'
<1>1. UNCHANGED <<version, closed, permit, waking, seen>>
  BY DEF Park, park_step
<1>2. f \notin InQueue
  BY DEF SInv, RxOK, Park
<1>3. QueueOK' /\ InQueue' = InQueue \cup {f}
  BY <1>2, ParkStep DEF SInv, Park
<1>4. SubscribersTypeOK'
  BY <1>1, <1>3 DEF SInv, SubscribersTypeOK, QueueOK, Park, Become, Polled
<1>5. \A g \in Futures \ {f} : Same(g)
  BY <1>1, <1>3 DEF SInv, SubscribersTypeOK, Park, Become, Polled, Same
<1>6. fut'[f] = "pending" /\ ctx'[f] = w /\ entry'[f] = w /\ ~closed
  BY DEF Park, Become, Polled, SInv, SubscribersTypeOK
<1>7. version \in Nat
  BY DEF SInv, SubscribersTypeOK
<1>8. RxOK(f)'
  BY <1>1, <1>3, <1>6, <1>7, WakersAssumption DEF RxOK
<1>9. QED
  BY <1>1, <1>3, <1>4, <1>5, <1>8, OneReceiver

\* A later poll that is told to wait again: the receiver is still queued, and its
\* waker is replaced.
LEMMA AgainKeeps ==
  ASSUME SInv, NEW f \in Futures, NEW w \in Wakers, Again(f, w), seen[f] = version
  PROVE  SInv'
<1>1. UNCHANGED <<version, closed, permit, queue, waking, seen, fut>>
  BY DEF Again, kernel
<1>2. QueueOK' /\ InQueue' = InQueue
  BY <1>1 DEF SInv, QueueOK, Distinct, InQueue
<1>3. SubscribersTypeOK'
  BY <1>1 DEF SInv, SubscribersTypeOK, Again, Polled
<1>4. \A g \in Futures \ {f} : Same(g)
  BY <1>1, <1>2 DEF SInv, SubscribersTypeOK, Again, Polled, Same
<1>5. fut[f] = "pending" /\ ~closed /\ entry[f] # NoWaker /\ f \in InQueue
  BY WakersAssumption DEF SInv, RxOK, Again
<1>6. ctx'[f] = w /\ entry'[f] = w
  BY <1>5 DEF Again, Polled, SInv, SubscribersTypeOK
<1>7. version \in Nat
  BY DEF SInv, SubscribersTypeOK
<1>8. RxOK(f)'
  BY <1>1, <1>2, <1>5, <1>6, <1>7, WakersAssumption DEF RxOK
<1>9. QED
  BY <1>1, <1>2, <1>3, <1>4, <1>8, OneReceiver

\* A poll that answers: the receiver, which had something to see, moves its cursor.
LEMMA ReadyKeeps ==
  ASSUME SInv, NEW f \in Futures, NEW v \in Nat, fut[f] \in {"idle", "pending"}, seen[f] # version,
         v <= version, See(f, v), Become(f, "done"), Ended(f), UNCHANGED <<version, closed, wait>>
  PROVE  SInv'
<1>1. UNCHANGED <<version, closed, permit, queue, entry, waking>>
  BY DEF wait, kernel
<1>2. QueueOK' /\ InQueue' = InQueue
  BY <1>1 DEF SInv, QueueOK, Distinct, InQueue
<1>3. SubscribersTypeOK'
  BY <1>1 DEF SInv, SubscribersTypeOK, See, Become, Ended
<1>4. \A g \in Futures \ {f} : Same(g)
  BY <1>1, <1>2 DEF SInv, SubscribersTypeOK, See, Become, Ended, Same
<1>5. fut'[f] = "done" /\ seen'[f] = v /\ f \notin InQueue
  BY DEF See, Become, SInv, SubscribersTypeOK, RxOK
<1>6. RxOK(f)'
  BY <1>1, <1>2, <1>5 DEF SInv, RxOK
<1>7. QED
  BY <1>1, <1>2, <1>3, <1>4, <1>6, OneReceiver

\* A receiver without a pending future gets a new cursor and a new state: it looks at
\* the channel, is made, or is dropped.
LEMMA CursorKeeps ==
  ASSUME SInv, NEW f \in Futures, NEW v \in Nat, v <= version, See(f, v),
         fut[f] \notin {"pending", "closed"}, fut' \in [Futures -> {"none", "idle", "pending", "done", "closed"}],
         fut'[f] \notin {"pending", "closed"}, \A g \in Futures \ {f} : fut'[g] = fut[g],
         UNCHANGED <<version, closed, wait, ctx, woken>>
  PROVE  SInv'
<1>1. UNCHANGED <<version, closed, permit, queue, entry, waking, ctx, woken>>
  BY DEF wait, kernel
<1>2. QueueOK' /\ InQueue' = InQueue
  BY <1>1 DEF SInv, QueueOK, Distinct, InQueue
<1>3. SubscribersTypeOK'
  BY <1>1 DEF SInv, SubscribersTypeOK, See
<1>4. \A g \in Futures \ {f} : Same(g)
  BY <1>1, <1>2 DEF SInv, SubscribersTypeOK, See, Same
<1>5. seen'[f] = v /\ f \notin InQueue
  BY DEF See, SInv, SubscribersTypeOK, RxOK
<1>6. RxOK(f)'
  BY <1>1, <1>2, <1>5 DEF SInv, RxOK
<1>7. QED
  BY <1>1, <1>2, <1>3, <1>4, <1>6, OneReceiver

\* A future is dropped: if it is queued it leaves the queue, and nobody else does.
LEMMA DropFutureKeeps ==
  ASSUME SInv, NEW f \in Futures, DropFuture(f)
  PROVE  SInv'
<1>1. UNCHANGED <<version, closed, waking, seen>> /\ permit' = permit
  BY DEF DropFuture, Withdraw, remove_step, kernel
<1>2. QueueOK' /\ InQueue' = InQueue \ {f} /\ entry' = [entry EXCEPT ![f] = NoWaker]
  <2>1. CASE remove_step(f) /\ entry' = [entry EXCEPT ![f] = NoWaker]
    BY <2>1, RemoveStep DEF SInv
  <2>2. CASE f \notin InQueue /\ UNCHANGED <<kernel, entry>>
    <3>1. queue' = queue /\ entry' = entry /\ entry[f] = NoWaker
      BY <2>2 DEF kernel, SInv, RxOK
    <3>2. entry' = [entry EXCEPT ![f] = NoWaker]
      BY <3>1 DEF SInv, SubscribersTypeOK
    <3>3. QueueOK' /\ InQueue' = InQueue
      BY <3>1 DEF SInv, QueueOK, Distinct, InQueue
    <3>4. InQueue = InQueue \ {f}
      BY <2>2
    <3>5. QED
      BY <3>2, <3>3, <3>4
  <2>3. QED
    BY <2>1, <2>2 DEF DropFuture, Withdraw
<1>3. SubscribersTypeOK'
  BY <1>1, <1>2 DEF SInv, SubscribersTypeOK, QueueOK, DropFuture, Become, Ended
<1>4. \A g \in Futures \ {f} : Same(g)
  BY <1>1, <1>2 DEF SInv, SubscribersTypeOK, DropFuture, Become, Ended, Same
<1>5. fut'[f] = "idle" /\ entry'[f] = NoWaker
  BY <1>2 DEF DropFuture, Become, SInv, SubscribersTypeOK
<1>6. RxOK(f)'
  BY <1>1, <1>2, <1>5 DEF SInv, RxOK
<1>7. QED
  BY <1>1, <1>2, <1>3, <1>4, <1>6, OneReceiver

\* A receiver is made, with a cursor that is not ahead of the counter.
LEMMA NewReceiverKeeps ==
  ASSUME SInv, NEW f \in Futures, NEW v \in Nat, v <= version, NewReceiver(f, v)
  PROVE  SInv'
<1>1. /\ See(f, v) /\ fut[f] = "none" /\ fut' = [fut EXCEPT ![f] = "idle"]
      /\ UNCHANGED <<version, closed, wait, ctx, woken>>
  BY DEF NewReceiver, Become
<1>2. fut \in [Futures -> {"none", "idle", "pending", "done", "closed"}]
  BY DEF SInv, SubscribersTypeOK
<1>3. /\ fut' \in [Futures -> {"none", "idle", "pending", "done", "closed"}]
      /\ fut'[f] = "idle" /\ \A g \in Futures \ {f} : fut'[g] = fut[g]
  BY <1>1, <1>2
<1>4. QED
  BY <1>1, <1>3, CursorKeeps

\* Sender::subscribe, Clone for Receiver and the drop of a receiver.
LEMMA ReceiversKeep ==
  ASSUME SInv, NEW f \in Futures,
         \/ NewReceiver(f, version) \/ DropReceiver(f) \/ \E g \in Futures : CloneReceiver(f, g)
  PROVE  SInv'
<1>1. version \in Nat /\ \A g \in Futures : seen[g] \in Nat /\ seen[g] <= version
  BY DEF SInv, SubscribersTypeOK, RxOK
<1>2. CASE NewReceiver(f, version)
  BY <1>1, <1>2, NewReceiverKeeps
<1>3. CASE \E g \in Futures : CloneReceiver(f, g)
  BY <1>1, <1>3, NewReceiverKeeps DEF CloneReceiver
<1>4. CASE DropReceiver(f)
  <2>1. /\ fut[f] = "idle" /\ fut' = [fut EXCEPT ![f] = "none"] /\ seen' = seen
        /\ UNCHANGED <<version, closed, wait, ctx, woken>>
    BY <1>4 DEF DropReceiver, Become
  <2>2. See(f, seen[f])
    BY <2>1 DEF See, SInv, SubscribersTypeOK
  <2>3. fut \in [Futures -> {"none", "idle", "pending", "done", "closed"}]
    BY DEF SInv, SubscribersTypeOK
  <2>4. /\ fut' \in [Futures -> {"none", "idle", "pending", "done", "closed"}]
        /\ fut'[f] = "none" /\ \A g \in Futures \ {f} : fut'[g] = fut[g]
    BY <2>1, <2>3
  <2>5. QED
    BY <1>1, <2>1, <2>2, <2>4, CursorKeeps
<1>5. QED
  BY <1>2, <1>3, <1>4

(***************************************************************************)
(* Watch.  A receiver inside wait_for has no future of its own while it    *)
(* looks at the value or holds it.                                         *)
(***************************************************************************)
Between == {"look", "take", "got"}

WInv == SInv /\ WatchTypeOK /\ \A f \in Futures : call[f] \in Between => fut[f] = "idle"

\* A step of one receiver keeps the types and wait_for's states.
LEMMA WatchCalls ==
  ASSUME WInv, SInv', NEW f \in Futures, value' = value,
         call' \in [Futures -> {"none", "look", "change", "take", "got"}],
         \A g \in Futures \ {f} : call'[g] = call[g] /\ fut'[g] = fut[g],
         call'[f] \in Between => fut'[f] = "idle"
  PROVE  WInv'
<1>1. WatchTypeOK'
  BY DEF WInv, SInv, WatchTypeOK
<1>2. \A g \in Futures : call'[g] \in Between => fut'[g] = "idle"
  BY DEF WInv
<1>3. QED
  BY <1>1, <1>2 DEF WInv

\* The sender's operations.
LEMMA WatchSender ==
  ASSUME WInv, (\E v \in BOOLEAN : watch_send(v)) \/ watch_drop_sender
  PROVE  WInv'
<1>1. SInv /\ version \in Nat /\ closed \in BOOLEAN
  BY DEF WInv, SInv, SubscribersTypeOK
<1>2. CASE \E v \in BOOLEAN : watch_send(v)
  <2>1. PICK v \in BOOLEAN : watch_send(v)
    BY <1>2
  <2>2. /\ wake_all /\ UNCHANGED rxs /\ version' = version + 1 /\ closed' = closed /\ ~closed
        /\ call' = call /\ value' = v
    BY <2>1 DEF watch_send
  <2>3. SInv'
    BY <1>1, <2>2, WakeAllKeeps
  <2>4. QED
    BY <2>2, <2>3 DEF WInv, SInv, WatchTypeOK, rxs
<1>3. CASE watch_drop_sender
  <2>1. /\ wake_all /\ UNCHANGED rxs /\ version' = version /\ closed' = TRUE /\ ~closed
        /\ call' = call /\ value' = value
    BY <1>3 DEF watch_drop_sender, watchv
  <2>2. SInv'
    BY <1>1, <2>1, WakeAllKeeps
  <2>3. QED
    BY <2>1, <2>2 DEF WInv, SInv, WatchTypeOK, rxs
<1>4. QED
  BY <1>2, <1>3

\* A receiver looks at the value, inside wait_for or with borrow_and_update.
LEMMA WatchLook ==
  ASSUME WInv, NEW f \in Futures,
         fut[f] = "idle", See(f, version), UNCHANGED <<version, closed, wait, fut, ctx, woken>>
  PROVE  SInv'
<1>1. SInv /\ version \in Nat /\ fut \in [Futures -> {"none", "idle", "pending", "done", "closed"}]
  BY DEF WInv, SInv, SubscribersTypeOK
<1>2. QED
  BY <1>1, CursorKeeps

\* Nothing of the channel changes.
LEMMA SInvUnchanged == ASSUME SInv, UNCHANGED svars PROVE SInv'
<1>1. UNCHANGED <<version, closed, permit, queue, entry, waking, seen, fut, ctx, woken>>
  BY DEF svars, wait, rxs, kernel
<1>2. QueueOK' /\ InQueue' = InQueue
  BY <1>1 DEF SInv, QueueOK, Distinct, InQueue
<1>3. SubscribersTypeOK'
  BY <1>1 DEF SInv, SubscribersTypeOK
<1>4. \A f \in Futures : RxOK(f)'
  BY <1>1, <1>2 DEF SInv, RxOK
<1>5. QED
  BY <1>1, <1>2, <1>3, <1>4 DEF SInv

\* The receivers' operations.
LEMMA WatchReceiverStep ==
  ASSUME WInv, NEW f \in Futures, WatchReceiver(f) \/ WatchRefDrop(f)
  PROVE  WInv'
<1>1. /\ SInv /\ version \in Nat /\ call \in [Futures -> {"none", "look", "change", "take", "got"}]
      /\ fut \in [Futures -> {"none", "idle", "pending", "done", "closed"}]
      /\ seen[f] \in Nat
  BY DEF WInv, WatchTypeOK, SInv, SubscribersTypeOK
<1>2. CASE borrow_and_update(f)
  <2>1. /\ fut[f] = "idle" /\ See(f, version) /\ UNCHANGED <<version, closed, wait, fut, ctx, woken>>
        /\ fut' = fut /\ call' = call /\ value' = value
    BY <1>2 DEF borrow_and_update, watchv
  <2>2. SInv'
    BY <2>1, WatchLook
  <2>3. QED
    BY <1>1, <2>1, <2>2, WatchCalls
<1>3. CASE ChangedReady(f)
  <2>1. /\ fut[f] \in {"idle", "pending"} /\ seen[f] # version /\ See(f, version)
        /\ Become(f, "done") /\ Ended(f) /\ UNCHANGED <<version, closed, wait>>
        /\ call[f] \in {"none", "change"} /\ call' = call /\ value' = value
    BY <1>3 DEF ChangedReady, watchv
  <2>2. SInv'
    BY <1>1, <2>1, ReadyKeeps
  <2>3. \A g \in Futures \ {f} : fut'[g] = fut[g]
    BY <1>1, <2>1 DEF Become
  <2>4. QED
    BY <1>1, <2>1, <2>2, <2>3, WatchCalls DEF Between
<1>4. CASE ChangedClosed(f)
  <2>1. /\ Closed(f) /\ seen[f] = version
        /\ call[f] \in {"none", "change"} /\ call' = call /\ value' = value
    BY <1>4 DEF ChangedClosed, watchv
  <2>2. SInv'
    BY <1>1, <2>1, ClosedKeeps
  <2>3. \A g \in Futures \ {f} : fut'[g] = fut[g]
    BY <1>1, <2>1 DEF Closed, Become
  <2>4. QED
    BY <1>1, <2>1, <2>2, <2>3, WatchCalls DEF Between
<1>5. CASE DropChanged(f)
  <2>1. /\ DropFuture(f) /\ value' = value
        /\ call' = [call EXCEPT ![f] = IF call[f] = "change" /\ fut[f] = "done" THEN "look" ELSE "none"]
    BY <1>5 DEF DropChanged, Call
  <2>2. SInv'
    BY <1>1, <2>1, DropFutureKeeps
  <2>3. fut' = [fut EXCEPT ![f] = "idle"]
    BY <2>1 DEF DropFuture, Become
  <2>4. call' \in [Futures -> {"none", "look", "change", "take", "got"}]
    BY <1>1, <2>1
  <2>5. fut'[f] = "idle" /\ \A g \in Futures \ {f} : call'[g] = call[g] /\ fut'[g] = fut[g]
    BY <1>1, <2>1, <2>3
  <2>6. QED
    BY <2>1, <2>2, <2>4, <2>5, WatchCalls
<1>6. ASSUME UNCHANGED svars, value' = value, NEW s \in {"none", "look", "change", "take"},
             call' = [call EXCEPT ![f] = s], fut[f] = "idle"
      PROVE  WInv'
  <2>1. SInv'
    BY <1>1, <1>6, SInvUnchanged
  <2>2. fut' = fut
    BY <1>6 DEF svars, rxs
  <2>3. call' \in [Futures -> {"none", "look", "change", "take", "got"}]
    BY <1>1, <1>6
  <2>4. \A g \in Futures \ {f} : call'[g] = call[g] /\ fut'[g] = fut[g]
    BY <1>1, <1>6, <2>2
  <2>5. QED
    BY <1>6, <2>1, <2>2, <2>3, <2>4, WatchCalls
<1>7. CASE wait_for(f)
  BY <1>6, <1>7 DEF wait_for, Call
<1>8. CASE WaitForLook(f)
  <2>1. fut[f] = "idle"
    BY <1>8 DEF WaitForLook, WInv, Between
  <2>2. QED
    BY <1>6, <1>8, <2>1 DEF WaitForLook, Call
<1>9. CASE WatchRefDrop(f)
  <2>1. fut[f] = "idle"
    BY <1>9 DEF WatchRefDrop, WInv, Between
  <2>2. QED
    BY <1>6, <1>9, <2>1 DEF WatchRefDrop, Call
<1>10. CASE WaitForTake(f)
  <2>1. fut[f] = "idle"
    BY <1>10 DEF WaitForTake, WInv, Between
  <2>2. /\ See(f, version) /\ UNCHANGED <<version, closed, wait, fut, ctx, woken>>
        /\ fut' = fut /\ value' = value /\ call' = [call EXCEPT ![f] = "got"]
    BY <1>10 DEF WaitForTake, Call
  <2>3. SInv'
    BY <2>1, <2>2, WatchLook
  <2>4. /\ call' \in [Futures -> {"none", "look", "change", "take", "got"}]
        /\ \A g \in Futures \ {f} : call'[g] = call[g]
    BY <1>1, <2>2
  <2>5. QED
    BY <2>1, <2>2, <2>3, <2>4, WatchCalls
<1>11. CASE \E w \in Wakers : ChangedPending(f, w)
  <2>1. PICK w \in Wakers : ChangedPending(f, w)
    BY <1>11
  <2>2. /\ Park(f, w) \/ Again(f, w)
        /\ seen[f] = version /\ call[f] \in {"none", "change"} /\ call' = call /\ value' = value
    BY <2>1 DEF ChangedPending, watchv
  <2>3. SInv'
    BY <1>1, <2>2, ParkKeeps, AgainKeeps
  <2>4. \A g \in Futures \ {f} : fut'[g] = fut[g]
    BY <1>1, <2>2 DEF Park, Again, Become
  <2>5. QED
    BY <1>1, <2>2, <2>3, <2>4, WatchCalls DEF Between
<1>12. CASE /\ Free(f) /\ UNCHANGED watchv
            /\ \/ subscribe(f) \/ DropReceiver(f)
               \/ \E g \in Futures : Free(g) /\ CloneReceiver(f, g)
  <2>1. /\ call[f] = "none" /\ call' = call /\ value' = value
        /\ \/ NewReceiver(f, version) \/ DropReceiver(f) \/ \E g \in Futures : CloneReceiver(f, g)
    BY <1>12 DEF Free, watchv, subscribe
  <2>2. SInv'
    BY <1>1, <2>1, ReceiversKeep
  <2>3. \A g \in Futures \ {f} : fut'[g] = fut[g]
    BY <1>1, <2>1 DEF NewReceiver, DropReceiver, CloneReceiver, Become
  <2>4. QED
    BY <1>1, <2>1, <2>2, <2>3, WatchCalls DEF Between
<1>13. QED
  BY <1>2, <1>3, <1>4, <1>5, <1>7, <1>8, <1>9, <1>10, <1>11, <1>12 DEF WatchReceiver

\* The invariant holds at the start and is kept by every step.
LEMMA WInvInductive == (WatchInit => WInv) /\ (WInv /\ [WatchNext]_wvars => WInv')
<1>1. WatchInit => WInv
  <2> SUFFICES ASSUME WatchInit PROVE WInv
    OBVIOUS
  <2>1. SInv
    BY SInvInit DEF WatchInit
  <2>2. QED
    BY <2>1 DEF WInv, SInv, WatchTypeOK, WatchInit, CallsInit, Between
<1>2. ASSUME WInv, [WatchNext]_wvars PROVE WInv'
  <2>1. CASE UNCHANGED wvars
    <3>1. UNCHANGED svars /\ fut' = fut /\ value' = value /\ call' = call
      BY <2>1 DEF wvars, svars, rxs
    <3>2. SInv'
      BY <1>2, <3>1, SInvUnchanged DEF WInv
    <3>3. QED
      BY <1>2, <3>1, <3>2 DEF WInv, SInv, WatchTypeOK
  <2>2. CASE (\E v \in BOOLEAN : watch_send(v)) \/ watch_drop_sender
    BY <1>2, <2>2, WatchSender
  <2>3. CASE \E f \in Futures : WatchReceiver(f) \/ WatchRefDrop(f)
    BY <1>2, <2>3, WatchReceiverStep
  <2>4. CASE \E f \in Futures, w \in Wakers : Wake(f, w) /\ UNCHANGED watchv
    <3>1. PICK f \in Futures, w \in Wakers : Wake(f, w) /\ UNCHANGED watchv
      BY <2>4
    <3>2. SInv' /\ fut' = fut /\ value' = value /\ call' = call
      BY <1>2, <3>1, WakeKeeps DEF WInv, Wake, watchv
    <3>3. QED
      BY <1>2, <3>2 DEF WInv, SInv, WatchTypeOK
  <2>5. QED
    BY <1>2, <2>1, <2>2, <2>3, <2>4 DEF WatchNext
<1>3. QED
  BY <1>1, <1>2

\* Watch: the variables keep their types.
THEOREM WatchTypeCorrect == WatchSpec => []WatchTypeOK
<1>1. WInv => WatchTypeOK
  BY DEF WInv
<1>2. QED
  BY <1>1, WInvInductive, PTL DEF WatchSpec

\* Watch: a send, or the sender's drop, reaches every receiver that waits in
\* Changed::poll through the waker of its latest poll (wake_all, watch.rs), and
\* changed() answers Err only to a receiver that has seen the last version.
THEOREM WatchUpdatesArrive == WatchSpec => []UpdatesArrive
<1>1. WInv => UpdatesArrive
  BY SInvImplies DEF WInv
<1>2. QED
  BY <1>1, WInvInductive, PTL DEF WatchSpec

(***************************************************************************)
(* Broadcast.  The ring and the kernel's count move in lockstep: the slots *)
(* are the numbers from the oldest kept to the newest sent, in order.      *)
(***************************************************************************)
RingOK ==
  /\ RingTypeOK
  /\ buffered <= version /\ Len(buffer) = buffered
  /\ \A i \in 1 .. buffered : buffer[i] = Oldest + i - 1

BInv == SInv /\ RingOK

\* With the ring in lockstep, what the kernel calls Ready is there.
LEMMA BInvImplies == BInv => ReadyIsBuffered
<1> SUFFICES ASSUME BInv, NEW f \in Futures
             PROVE  /\ seen[f] <= version
                    /\ \A n \in Oldest..(version - 1) : n >= seen[f] => \E i \in DOMAIN buffer : buffer[i] = n
  BY DEF ReadyIsBuffered
<1>1. seen[f] <= version
  BY DEF BInv, SInv, RxOK
<1>2. version \in Nat /\ buffered \in Nat /\ DOMAIN buffer = 1 .. buffered
  BY RingAssumption DEF BInv, SInv, SubscribersTypeOK, RingOK, RingTypeOK
<1>3. ASSUME NEW n \in Oldest..(version - 1) PROVE \E i \in DOMAIN buffer : buffer[i] = n
  <2>1. n - Oldest + 1 \in 1 .. buffered
    BY <1>2 DEF Oldest
  <2>2. buffer[n - Oldest + 1] = Oldest + (n - Oldest + 1) - 1
    BY <2>1 DEF BInv, RingOK
  <2>3. Oldest + (n - Oldest + 1) - 1 = n
    BY <1>2 DEF Oldest
  <2>4. QED
    BY <1>2, <2>1, <2>2, <2>3
<1>4. QED
  BY <1>1, <1>3

\* Sender::send writes the next slot, after making room when the ring is full.
LEMMA BroadcastSendRing == ASSUME BInv, broadcast_send PROVE RingOK'
<1>1. /\ version \in Nat /\ buffered \in 0..Capacity /\ buffer \in Seq(Nat) /\ Len(buffer) = buffered
      /\ Capacity \in Nat \ {0} /\ buffered <= version /\ sender_count \in Nat
      /\ \A i \in 1 .. buffered : buffer[i] = version - buffered + i - 1
  BY RingAssumption DEF BInv, SInv, SubscribersTypeOK, RingOK, RingTypeOK, Oldest
<1>2. version' = version + 1 /\ sender_count' = sender_count
  BY DEF broadcast_send
<1>3. CASE buffered < Capacity
  <2>1. buffered' = buffered + 1 /\ buffer' = Append(buffer, version)
    BY <1>1, <1>3 DEF broadcast_send
  <2>2. /\ buffer' \in Seq(Nat) /\ Len(buffer') = buffered + 1
        /\ \A i \in 1 .. buffered : buffer'[i] = buffer[i]
        /\ buffer'[buffered + 1] = version
    BY <1>1, <2>1
  <2>3. \A i \in 1 .. buffered' : buffer'[i] = version' - buffered' + i - 1
    BY <1>1, <1>2, <2>1, <2>2
  <2>4. QED
    BY <1>1, <1>2, <1>3, <2>1, <2>2, <2>3 DEF RingOK, RingTypeOK, Oldest
<1>4. CASE ~(buffered < Capacity)
  <2>1. buffered' = buffered /\ buffer' = Append(Tail(buffer), version) /\ buffered = Capacity
    BY <1>1, <1>4 DEF broadcast_send
  <2>2. /\ Tail(buffer) \in Seq(Nat) /\ Len(Tail(buffer)) = buffered - 1
        /\ \A i \in 1 .. buffered - 1 : Tail(buffer)[i] = buffer[i + 1]
    BY <1>1, <2>1
  <2>3. /\ buffer' \in Seq(Nat) /\ Len(buffer') = buffered
        /\ \A i \in 1 .. buffered - 1 : buffer'[i] = buffer[i + 1]
        /\ buffer'[buffered] = version
    BY <1>1, <2>1, <2>2
  <2>4. \A i \in 1 .. buffered' : buffer'[i] = version' - buffered' + i - 1
    BY <1>1, <1>2, <2>1, <2>3
  <2>5. QED
    BY <1>1, <1>2, <2>1, <2>3, <2>4 DEF RingOK, RingTypeOK, Oldest
<1>5. QED
  BY <1>3, <1>4

\* What does not touch the ring or the counter keeps the lockstep.
LEMMA RingSame == ASSUME BInv, SInv', UNCHANGED <<version, ringv>> PROVE BInv'
BY DEF BInv, RingOK, RingTypeOK, ringv, Oldest

\* The senders' operations.
LEMMA BroadcastSender ==
  ASSUME BInv, broadcast_send \/ broadcast_clone_sender \/ broadcast_drop_sender
  PROVE  BInv'
<1>1. SInv /\ version \in Nat /\ closed \in BOOLEAN
  BY DEF BInv, SInv, SubscribersTypeOK
<1>2. CASE broadcast_send
  <2>1. wake_all /\ UNCHANGED rxs /\ version' = version + 1 /\ closed' = closed /\ ~closed
    BY <1>2 DEF broadcast_send
  <2>2. SInv'
    BY <1>1, <2>1, WakeAllKeeps
  <2>3. QED
    BY <1>2, <2>2, BroadcastSendRing DEF BInv
<1>3. CASE broadcast_clone_sender \/ broadcast_drop_sender
  <2>1. SInv' /\ version' = version
    <3>1. CASE UNCHANGED svars
      BY <1>1, <3>1, SInvUnchanged DEF svars
    <3>2. CASE closed' = TRUE /\ wake_all /\ UNCHANGED <<version, rxs>>
      BY <1>1, <3>2, WakeAllKeeps
    <3>3. QED
      BY <1>3, <3>1, <3>2 DEF broadcast_clone_sender, broadcast_drop_sender
  <2>2. sender_count' \in Nat /\ UNCHANGED <<buffered, buffer>>
    BY <1>3 DEF broadcast_clone_sender, broadcast_drop_sender, BInv, RingOK, RingTypeOK
  <2>3. QED
    BY <2>1, <2>2 DEF BInv, RingOK, RingTypeOK, Oldest
<1>4. QED
  BY <1>2, <1>3

\* The cursor after recv_step is not ahead of the counter, and it has moved.
LEMMA RecvStep ==
  ASSUME BInv, NEW f \in Futures, recv_step(f)
  PROVE  seen[f] # version /\ \E v \in Nat : v <= version /\ See(f, v)
<1>1. seen[f] \in Nat /\ version \in Nat /\ Oldest \in Nat /\ Oldest <= version
  BY RingAssumption DEF BInv, SInv, SubscribersTypeOK, RingOK, RingTypeOK, Oldest
<1>2. CASE seen[f] < Oldest /\ See(f, Oldest)
  BY <1>1, <1>2
<1>3. CASE seen[f] >= Oldest /\ seen[f] < version /\ See(f, seen[f] + 1)
  <2>1. seen[f] + 1 \in Nat /\ seen[f] + 1 <= version
    BY <1>1, <1>3
  <2>2. QED
    BY <1>1, <1>3, <2>1
<1>4. QED
  BY <1>2, <1>3 DEF recv_step

\* The receivers' operations.
LEMMA BroadcastReceiverStep ==
  ASSUME BInv, NEW f \in Futures, BroadcastReceiver(f)
  PROVE  BInv'
<1>1. SInv /\ version \in Nat /\ fut \in [Futures -> {"none", "idle", "pending", "done", "closed"}]
  BY DEF BInv, SInv, SubscribersTypeOK
<1>2. CASE try_recv(f)
  <2>1. fut[f] = "idle" /\ recv_step(f) /\ UNCHANGED <<version, closed, wait, fut, ctx, woken, ringv>>
    BY <1>2 DEF try_recv
  <2>2. PICK v \in Nat : v <= version /\ See(f, v)
    BY <2>1, RecvStep
  <2>3. SInv'
    BY <1>1, <2>1, <2>2, CursorKeeps
  <2>4. QED
    BY <2>1, <2>3, RingSame
<1>3. CASE RecvReady(f)
  <2>1. /\ fut[f] \in {"idle", "pending"} /\ recv_step(f) /\ Become(f, "done") /\ Ended(f)
        /\ UNCHANGED <<version, closed, wait>> /\ UNCHANGED <<version, ringv>>
    BY <1>3 DEF RecvReady
  <2>2. seen[f] # version
    BY <2>1, RecvStep
  <2>3. PICK v \in Nat : v <= version /\ See(f, v)
    BY <2>1, RecvStep
  <2>4. SInv'
    BY <1>1, <2>1, <2>2, <2>3, ReadyKeeps
  <2>5. QED
    BY <2>1, <2>4, RingSame
<1>4. CASE \E w \in Wakers : RecvNone(f, w)
  <2>1. PICK w \in Wakers : RecvNone(f, w)
    BY <1>4
  <2>2. seen[f] = version /\ (Closed(f) \/ Park(f, w) \/ Again(f, w)) /\ UNCHANGED ringv
    BY <2>1 DEF RecvNone
  <2>3. SInv'
    BY <1>1, <2>2, ClosedKeeps, ParkKeeps, AgainKeeps
  <2>4. version' = version
    BY <2>2 DEF Closed, Park, Again
  <2>5. QED
    BY <2>2, <2>3, <2>4, RingSame
<1>5. CASE /\ \/ DropFuture(f) \/ broadcast_subscribe(f) \/ DropReceiver(f)
              \/ \E g \in Futures : CloneReceiver(f, g)
           /\ UNCHANGED ringv
  <2>1. version' = version
    BY <1>5 DEF DropFuture, broadcast_subscribe, NewReceiver, DropReceiver, CloneReceiver
  <2>2. SInv'
    BY <1>1, <1>5, DropFutureKeeps, ReceiversKeep DEF broadcast_subscribe
  <2>3. QED
    BY <1>5, <2>1, <2>2, RingSame
<1>6. QED
  BY <1>2, <1>3, <1>4, <1>5 DEF BroadcastReceiver

\* The invariant holds at the start and is kept by every step.
LEMMA BInvInductive == (BroadcastInit => BInv) /\ (BInv /\ [BroadcastNext]_bvars => BInv')
<1>1. BroadcastInit => BInv
  <2> SUFFICES ASSUME BroadcastInit PROVE BInv
    OBVIOUS
  <2>1. SInv /\ version = 0
    BY SInvInit DEF BroadcastInit, SubscribersInit
  <2>2. RingOK
    BY <2>1, RingAssumption DEF BroadcastInit, RingInit, RingOK, RingTypeOK, Oldest
  <2>3. QED
    BY <2>1, <2>2 DEF BInv
<1>2. ASSUME BInv, [BroadcastNext]_bvars PROVE BInv'
  <2>1. CASE UNCHANGED bvars
    <3>1. UNCHANGED svars /\ UNCHANGED <<version, ringv>>
      BY <2>1 DEF bvars, svars
    <3>2. QED
      BY <1>2, <3>1, SInvUnchanged, RingSame DEF BInv
  <2>2. CASE broadcast_send \/ broadcast_clone_sender \/ broadcast_drop_sender
    BY <1>2, <2>2, BroadcastSender
  <2>3. CASE \E f \in Futures : BroadcastReceiver(f)
    BY <1>2, <2>3, BroadcastReceiverStep
  <2>4. CASE \E f \in Futures, w \in Wakers : Wake(f, w) /\ UNCHANGED ringv
    <3>1. PICK f \in Futures, w \in Wakers : Wake(f, w) /\ UNCHANGED ringv
      BY <2>4
    <3>2. SInv' /\ UNCHANGED <<version, ringv>>
      BY <1>2, <3>1, WakeKeeps DEF BInv, Wake
    <3>3. QED
      BY <1>2, <3>2, RingSame
  <2>5. QED
    BY <1>2, <2>1, <2>2, <2>3, <2>4 DEF BroadcastNext
<1>3. QED
  BY <1>1, <1>2

\* Broadcast: the variables keep their types, the ring its capacity.
THEOREM BroadcastTypeCorrect == BroadcastSpec => [](SubscribersTypeOK /\ RingTypeOK)
<1>1. BInv => SubscribersTypeOK /\ RingTypeOK
  BY DEF BInv, SInv, RingOK
<1>2. QED
  BY <1>1, BInvInductive, PTL DEF BroadcastSpec

\* Broadcast: a send, or the end of the last sender, reaches every receiver that
\* waits in Recv::poll through the waker of its latest poll, and recv answers
\* Closed only to a receiver that has received or been told to have missed
\* everything sent.
THEOREM BroadcastUpdatesArrive == BroadcastSpec => []UpdatesArrive
<1>1. BInv => UpdatesArrive
  BY SInvImplies DEF BInv
<1>2. QED
  BY <1>1, BInvInductive, PTL DEF BroadcastSpec

\* Broadcast: the slot that recv_step answers Ready for is in the ring, whatever the
\* capacity and however far behind a receiver is.
THEOREM BroadcastReadyIsBuffered == BroadcastSpec => []ReadyIsBuffered
BY BInvImplies, BInvInductive, PTL DEF BroadcastSpec

(***************************************************************************)
(* Oneshot: the inductive invariant, channel by channel.  An undecided     *)
(* channel is the only one with a queued receiver, so the waker a sender   *)
(* takes is the only one there ever is.                                    *)
(***************************************************************************)
ChanOK(c) ==
  /\ recv[c] = "pending" => rx_ctx[c] \in RxWakers
  /\ recv[c] = "pending" /\ chan[c].st = "Empty" => chan[c].queued /\ chan[c].waker = rx_ctx[c]
  /\ recv[c] = "pending" /\ chan[c].st # "Empty" => c \in rx_woken \/ rx_waking[c] = rx_ctx[c]
  /\ chan[c].value <=> chan[c].st = "Full"
  /\ chan[c].permit > 0 => chan[c].st # "Empty"
  /\ chan[c].queued => chan[c].st = "Empty" /\ recv[c] = "pending"
  /\ tx[c] = "held" => chan[c].st = "Empty"
  /\ tx[c] = "dropped" => chan[c].st # "Empty"
  /\ chan[c].rx_dropped <=> recv[c] = "dropped"

OInv == OneshotTypeOK /\ \A c \in Channels : ChanOK(c)

\* The invariant implies what the run checks.
LEMMA OInvImplies == OInv => OneshotAnswered
BY DEF OInv, ChanOK, OneshotAnswered

\* New channels satisfy it.
LEMMA OInvInit == OneshotInit => OInv
<1> SUFFICES ASSUME OneshotInit PROVE OInv
  OBVIOUS
<1>1. OneshotTypeOK
  BY DEF OneshotInit, OneshotTypeOK, Channel
<1>2. \A c \in Channels : ChanOK(c)
  BY DEF OneshotInit, ChanOK
<1>3. QED
  BY <1>1, <1>2 DEF OInv

\* An action on one channel has to keep its own part only.
LEMMA OneChannel ==
  ASSUME OInv, NEW c \in Channels, NEW k \in Channel, OneshotTypeOK', ChanOK(c)',
         chan' = [chan EXCEPT ![c] = k],
         \A d \in Channels \ {c} : /\ tx'[d] = tx[d] /\ recv'[d] = recv[d] /\ rx_ctx'[d] = rx_ctx[d]
                                   /\ rx_waking'[d] = rx_waking[d] /\ (d \in rx_woken' <=> d \in rx_woken)
  PROVE  OInv'
<1>1. ASSUME NEW d \in Channels \ {c} PROVE ChanOK(d)'
  <2>1. chan'[d] = chan[d]
    BY DEF OInv, OneshotTypeOK
  <2>2. QED
    BY <2>1 DEF OInv, ChanOK
<1>2. QED
  BY <1>1 DEF OInv

\* One signal to a channel that has just become k, decided now: the receiver that waits
\* is woken through the waker of its latest poll.
LEMMA DeliverStep ==
  ASSUME OInv, NEW c \in Channels, NEW k \in Channel, NEW t \in {"sent", "dropped"}, deliver(c, k),
         k.st # "Empty", k.value <=> k.st = "Full", k.queued = chan[c].queued,
         k.waker = chan[c].waker, k.rx_dropped = chan[c].rx_dropped,
         tx' = [tx EXCEPT ![c] = t], UNCHANGED <<recv, rx_ctx, rx_woken>>
  PROVE  OInv'
<1>1. /\ chan \in [Channels -> Channel] /\ chan[c] \in Channel /\ ChanOK(c)
      /\ rx_waking \in [Channels -> RxWakers \cup {NoRx}]
      /\ tx \in [Channels -> {"held", "sent", "dropped"}]
  BY DEF OInv, OneshotTypeOK
<1>2. tx'[c] = t /\ tx' \in [Channels -> {"held", "sent", "dropped"}] /\ \A d \in Channels \ {c} : tx'[d] = tx[d]
  BY <1>1
<1>3. CASE k.queued
  <2> DEFINE m == [k EXCEPT !.queued = FALSE, !.waker = NoRx]
  <2>1. chan' = [chan EXCEPT ![c] = m] /\ rx_waking' = [rx_waking EXCEPT ![c] = k.waker]
    BY <1>3 DEF deliver
  <2>2. /\ m \in Channel /\ m.st = k.st /\ m.value = k.value /\ m.permit = k.permit /\ m.queued = FALSE
        /\ m.rx_dropped = k.rx_dropped /\ k.waker \in RxWakers \cup {NoRx}
    BY DEF Channel
  <2> HIDE DEF m
  <2>3. chan'[c] = m /\ chan' \in [Channels -> Channel]
    BY <1>1, <2>1, <2>2
  <2>4. /\ rx_waking' \in [Channels -> RxWakers \cup {NoRx}] /\ rx_waking'[c] = k.waker
        /\ \A d \in Channels \ {c} : rx_waking'[d] = rx_waking[d]
    BY <1>1, <2>1, <2>2
  <2>5. recv[c] = "pending" /\ k.waker = rx_ctx[c]
    BY <1>1, <1>3 DEF ChanOK
  <2>6. OneshotTypeOK'
    BY <1>2, <2>3, <2>4 DEF OInv, OneshotTypeOK
  <2>7. ChanOK(c)'
    BY <1>1, <1>2, <2>2, <2>3, <2>4, <2>5 DEF ChanOK
  <2>8. QED
    BY <1>2, <2>1, <2>2, <2>4, <2>6, <2>7, OneChannel
<1>4. CASE ~k.queued
  <2> DEFINE m == [k EXCEPT !.permit = @ + 1]
  <2>1. chan' = [chan EXCEPT ![c] = m] /\ rx_waking' = rx_waking
    BY <1>4 DEF deliver
  <2>2. /\ m \in Channel /\ m.st = k.st /\ m.value = k.value /\ m.queued = k.queued
        /\ m.rx_dropped = k.rx_dropped /\ m.waker = k.waker
    BY DEF Channel
  <2> HIDE DEF m
  <2>3. chan'[c] = m /\ chan' \in [Channels -> Channel]
    BY <1>1, <2>1, <2>2
  <2>4. recv[c] = "pending" => chan[c].st # "Empty"
    BY <1>1, <1>4 DEF ChanOK
  <2>5. OneshotTypeOK'
    BY <1>2, <2>1, <2>3 DEF OInv, OneshotTypeOK
  <2>6. ChanOK(c)'
    BY <1>1, <1>2, <1>4, <2>1, <2>2, <2>3, <2>4 DEF ChanOK
  <2>7. QED
    BY <1>2, <2>1, <2>2, <2>5, <2>6, OneChannel
<1>5. QED
  BY <1>3, <1>4

\* Sender::send.
LEMMA SendKeeps == ASSUME OInv, NEW c \in Channels, oneshot_send(c) PROVE OInv'
<1>1. chan[c] \in Channel /\ ChanOK(c) /\ chan \in [Channels -> Channel]
  BY DEF OInv, OneshotTypeOK
<1>2. tx[c] = "held" /\ tx' = [tx EXCEPT ![c] = "sent"] /\ UNCHANGED <<recv, rx_ctx, rx_woken>>
  BY DEF oneshot_send
<1>3. CASE chan[c].rx_dropped
  <2>1. chan' = chan /\ rx_waking' = rx_waking /\ chan' = [chan EXCEPT ![c] = chan[c]]
    BY <1>1, <1>3 DEF oneshot_send
  <2>2. /\ tx'[c] = "sent" /\ tx' \in [Channels -> {"held", "sent", "dropped"}]
        /\ \A d \in Channels \ {c} : tx'[d] = tx[d]
    BY <1>2 DEF OInv, OneshotTypeOK
  <2>3. OneshotTypeOK'
    BY <1>2, <2>1, <2>2 DEF OInv, OneshotTypeOK
  <2>4. ChanOK(c)'
    BY <1>1, <1>2, <2>1, <2>2 DEF ChanOK
  <2>5. QED
    BY <1>1, <1>2, <2>1, <2>2, <2>3, <2>4, OneChannel
<1>4. CASE ~chan[c].rx_dropped
  <2> DEFINE k == [chan[c] EXCEPT !.st = "Full", !.value = TRUE]
  <2>1. deliver(c, k)
    BY <1>4 DEF oneshot_send
  <2>2. /\ k \in Channel /\ k.st = "Full" /\ k.value = TRUE /\ k.queued = chan[c].queued
        /\ k.waker = chan[c].waker /\ k.rx_dropped = chan[c].rx_dropped
    BY <1>1 DEF Channel
  <2> HIDE DEF k
  <2>3. QED
    BY <1>2, <2>1, <2>2, DeliverStep
<1>5. QED
  BY <1>3, <1>4

\* Drop for Sender.
LEMMA DropSenderKeeps ==
  ASSUME OInv, NEW c \in Channels, oneshot_drop_sender(c)
  PROVE  OInv' /\ tx' = [tx EXCEPT ![c] = "dropped"]
<1>1. chan[c] \in Channel /\ ChanOK(c)
  BY DEF OInv, OneshotTypeOK
<1> DEFINE k == IF chan[c].st = "Empty" THEN [chan[c] EXCEPT !.st = "Closed"] ELSE chan[c]
<1>2. deliver(c, k) /\ tx' = [tx EXCEPT ![c] = "dropped"] /\ UNCHANGED <<recv, rx_ctx, rx_woken>>
  BY DEF oneshot_drop_sender
<1>3. /\ k \in Channel /\ k.st # "Empty" /\ k.queued = chan[c].queued
      /\ k.waker = chan[c].waker /\ k.rx_dropped = chan[c].rx_dropped
  BY <1>1 DEF Channel
<1>4. k.value <=> k.st = "Full"
  <2>1. CASE chan[c].st = "Empty"
    BY <1>1, <2>1 DEF ChanOK, Channel
  <2>2. CASE chan[c].st # "Empty"
    BY <1>1, <2>2 DEF ChanOK
  <2>3. QED
    BY <2>1, <2>2
<1> HIDE DEF k
<1>5. QED
  BY <1>2, <1>3, <1>4, DeliverStep

\* The sender calls the waker it took.
LEMMA WakeRxKeeps == ASSUME OInv, NEW c \in Channels, WakeRx(c) PROVE OInv'
<1>1. UNCHANGED <<chan, tx, recv, rx_ctx>> /\ chan[c] \in Channel /\ chan' = [chan EXCEPT ![c] = chan[c]]
  BY DEF WakeRx, OInv, OneshotTypeOK
<1>2. OneshotTypeOK'
  BY <1>1 DEF WakeRx, OInv, OneshotTypeOK
<1>3. \A d \in Channels \ {c} : rx_waking'[d] = rx_waking[d] /\ (d \in rx_woken' <=> d \in rx_woken)
  BY DEF WakeRx, OInv, OneshotTypeOK
<1>4. rx_waking[c] = rx_ctx[c] \/ c \in rx_woken => c \in rx_woken'
  BY DEF WakeRx
<1>5. ChanOK(c)'
  BY <1>1, <1>4 DEF OInv, ChanOK
<1>6. QED
  BY <1>1, <1>2, <1>3, <1>5, OneChannel

\* Receiver::poll, Ready.
LEMMA RxReadyKeeps ==
  ASSUME OInv, NEW c \in Channels, RxReady(c)
  PROVE  OInv' /\ recv'[c] \in {"value", "closed"}
<1>1. chan[c] \in Channel /\ ChanOK(c) /\ chan \in [Channels -> Channel]
  BY DEF OInv, OneshotTypeOK
<1> DEFINE k == [withdrawn(chan[c]) EXCEPT !.st = IF @ = "Full" THEN "Taken" ELSE @, !.value = FALSE]
<1>2. chan' = [chan EXCEPT ![c] = k] /\ UNCHANGED <<tx, rx_ctx, rx_waking>>
  BY DEF RxReady
<1>3. /\ k \in Channel /\ k.st = (IF chan[c].st = "Full" THEN "Taken" ELSE chan[c].st)
      /\ k.value = FALSE /\ k.queued = FALSE /\ k.permit = chan[c].permit
      /\ k.rx_dropped = chan[c].rx_dropped
  BY <1>1 DEF Channel, withdrawn
<1> HIDE DEF k
<1>4. chan'[c] = k /\ chan' \in [Channels -> Channel]
  BY <1>1, <1>2, <1>3
<1>5. /\ recv'[c] \in {"value", "closed"} /\ recv' \in [Channels -> {"idle", "pending", "value", "closed", "dropped"}]
      /\ \A d \in Channels \ {c} : recv'[d] = recv[d] /\ (d \in rx_woken' <=> d \in rx_woken)
      /\ rx_woken' \subseteq Channels
  BY DEF RxReady, OInv, OneshotTypeOK
<1>6. OneshotTypeOK'
  BY <1>2, <1>4, <1>5 DEF OInv, OneshotTypeOK
<1>7. chan[c].st # "Empty" /\ recv[c] # "dropped"
  BY DEF RxReady, Polls
<1>8. ChanOK(c)'
  BY <1>1, <1>2, <1>3, <1>4, <1>5, <1>7 DEF ChanOK
<1>9. QED
  BY <1>2, <1>3, <1>5, <1>6, <1>8, OneChannel

\* Receiver::poll, Pending.
LEMMA RxPendingKeeps ==
  ASSUME OInv, NEW c \in Channels, NEW w \in RxWakers, RxPending(c, w)
  PROVE  OInv' /\ recv'[c] = "pending"
<1>1. chan[c] \in Channel /\ ChanOK(c) /\ chan \in [Channels -> Channel] /\ chan[c].st = "Empty" /\ Polls(c)
  BY DEF OInv, OneshotTypeOK, RxPending
<1> DEFINE k == [chan[c] EXCEPT !.queued = TRUE, !.waker = w]
<1>2. chan' = [chan EXCEPT ![c] = k] /\ UNCHANGED <<tx, rx_waking>>
  <2>1. CASE recv[c] = "idle"
    BY <1>1, <2>1 DEF RxPending
  <2>2. CASE recv[c] = "pending"
    <3>1. chan[c].queued = TRUE /\ chan[c].waker # NoRx
      BY <1>1, <2>2, RxWakersAssumption DEF ChanOK, Channel
    <3>2. QED
      BY <1>1, <2>2, <3>1 DEF RxPending
  <2>3. QED
    BY <1>1, <2>1, <2>2 DEF Polls
<1>3. /\ k \in Channel /\ k.st = "Empty" /\ k.value = chan[c].value /\ k.queued = TRUE /\ k.waker = w
      /\ k.permit = chan[c].permit /\ k.rx_dropped = chan[c].rx_dropped
  BY <1>1 DEF Channel
<1> HIDE DEF k
<1>4. chan'[c] = k /\ chan' \in [Channels -> Channel]
  BY <1>1, <1>2, <1>3
<1>5. /\ recv'[c] = "pending" /\ recv' \in [Channels -> {"idle", "pending", "value", "closed", "dropped"}]
      /\ rx_ctx'[c] = w /\ rx_ctx' \in [Channels -> RxWakers \cup {NoRx}] /\ rx_woken' \subseteq Channels
      /\ \A d \in Channels \ {c} : /\ recv'[d] = recv[d] /\ rx_ctx'[d] = rx_ctx[d]
                                   /\ (d \in rx_woken' <=> d \in rx_woken)
  BY DEF RxPending, OInv, OneshotTypeOK
<1>6. OneshotTypeOK'
  BY <1>2, <1>4, <1>5 DEF OInv, OneshotTypeOK
<1>7. ChanOK(c)'
  BY <1>1, <1>2, <1>3, <1>4, <1>5 DEF ChanOK, Polls
<1>8. QED
  BY <1>2, <1>3, <1>5, <1>6, <1>7, OneChannel

\* Drop for Receiver.
LEMMA DropReceiverKeeps ==
  ASSUME OInv, NEW c \in Channels, oneshot_drop_receiver(c)
  PROVE  OInv'
<1>1. chan[c] \in Channel /\ ChanOK(c) /\ chan \in [Channels -> Channel]
  BY DEF OInv, OneshotTypeOK
<1> DEFINE k == [withdrawn(chan[c]) EXCEPT !.rx_dropped = TRUE]
<1>2. chan' = [chan EXCEPT ![c] = k] /\ UNCHANGED <<tx, rx_ctx, rx_waking>>
  BY DEF oneshot_drop_receiver
<1>3. /\ k \in Channel /\ k.st = chan[c].st /\ k.value = chan[c].value /\ k.queued = FALSE
      /\ k.permit = chan[c].permit /\ k.rx_dropped = TRUE
  BY <1>1 DEF Channel, withdrawn
<1> HIDE DEF k
<1>4. chan'[c] = k /\ chan' \in [Channels -> Channel]
  BY <1>1, <1>2, <1>3
<1>5. /\ recv'[c] = "dropped" /\ recv' \in [Channels -> {"idle", "pending", "value", "closed", "dropped"}]
      /\ \A d \in Channels \ {c} : recv'[d] = recv[d] /\ (d \in rx_woken' <=> d \in rx_woken)
      /\ rx_woken' \subseteq Channels
  BY DEF oneshot_drop_receiver, OInv, OneshotTypeOK
<1>6. OneshotTypeOK'
  BY <1>2, <1>4, <1>5 DEF OInv, OneshotTypeOK
<1>7. ChanOK(c)'
  BY <1>1, <1>2, <1>3, <1>4, <1>5 DEF ChanOK
<1>8. QED
  BY <1>2, <1>3, <1>5, <1>6, <1>7, OneChannel

\* Nothing of the channels changes.
LEMMA OInvUnchanged == ASSUME OInv, UNCHANGED oneshotv PROVE OInv'
BY DEF OInv, OneshotTypeOK, ChanOK, oneshotv

\* Every step of the channels keeps the invariant.
LEMMA OInvNext == ASSUME OInv, [OneshotNext]_oneshotv PROVE OInv'
BY SendKeeps, DropSenderKeeps, WakeRxKeeps, RxReadyKeeps, RxPendingKeeps, DropReceiverKeeps, OInvUnchanged
   DEF OneshotNext

\* Oneshot: a receiver that waits is woken through the waker of its latest poll by
\* whatever decides its channel, send or the Sender's drop; take finds the value where
\* the kernel says Full; and a stored signal never makes poll loop.
THEOREM OneshotIsAnswered == OneshotSpec => []OneshotAnswered
<1>1. OInv /\ [OneshotNext]_oneshotv => OInv'
  BY OInvNext
<1>2. QED
  BY <1>1, OInvInit, OInvImplies, PTL DEF OneshotSpec

(***************************************************************************)
(* JoinHandle.  What the runs check is inductive as it is.                 *)
(***************************************************************************)
JInv == JoinTypeOK /\ JoinAnswered

\* JoinHandle::new.
LEMMA NewJoinKeeps == ASSUME JInv, NEW j \in Jobs, new_join(j) PROVE JInv'
BY DEF JInv, JoinTypeOK, JoinAnswered, new_join

\* JoinHandle::poll.
LEMMA PollJoinKeeps == ASSUME JInv, PollJoin PROVE JInv'
<1>1. CASE \E j \in Jobs : JoinReady(j)
  BY <1>1 DEF JInv, JoinTypeOK, JoinAnswered, JoinReady
<1>2. CASE \E j \in Jobs, w \in Joiners : JoinPending(j, w)
  <2>1. PICK j \in Jobs, w \in Joiners : JoinPending(j, w)
    BY <1>2
  <2>2. JoinTypeOK'
    BY <2>1 DEF JInv, JoinTypeOK, JoinPending
  <2>3. /\ jwaker'[j] = jctx'[j] /\ result' = result /\ j \notin result
        /\ \A i \in Jobs \ {j} : /\ join'[i] = join[i] /\ jwaker'[i] = jwaker[i] /\ jctx'[i] = jctx[i]
                                 /\ (i \in jwoken' <=> i \in jwoken)
    BY <2>1 DEF JInv, JoinTypeOK, JoinPending
  <2>4. JoinAnswered'
    BY <2>3 DEF JInv, JoinAnswered
  <2>5. QED
    BY <2>2, <2>4 DEF JInv
<1>3. QED
  BY <1>1, <1>2 DEF PollJoin

\* JoinSender::complete.
LEMMA CompleteKeeps == ASSUME JInv, NEW j \in Jobs, complete(j) PROVE JInv'
<1>1. JoinTypeOK'
  BY DEF JInv, JoinTypeOK, complete
<1>2. \A i \in Jobs \ {j} : jwaker'[i] = jwaker[i] /\ (i \in jwoken' <=> i \in jwoken) /\ (i \in result' <=> i \in result)
  BY DEF JInv, JoinTypeOK, complete
<1>3. join[j] = "pending" => j \in jwoken'
  BY DEF JInv, JoinAnswered, complete
<1>4. j \in result' /\ join' = join /\ jctx' = jctx
  BY DEF complete
<1>5. JoinAnswered'
  BY <1>2, <1>3, <1>4 DEF JInv, JoinAnswered
<1>6. QED
  BY <1>1, <1>5 DEF JInv

\* No handle is touched.
LEMMA JInvUnchanged == ASSUME JInv, UNCHANGED joinv PROVE JInv'
BY DEF JInv, JoinTypeOK, JoinAnswered, joinv

\* No handle is pending before a job is spawned.
LEMMA JInvInit == JoinInit => JInv
BY DEF JoinInit, JInv, JoinTypeOK, JoinAnswered

(***************************************************************************)
(* BlockingPool: the inductive invariant.  A job is in one place, a thread *)
(* that has found its queue empty and is still to park counts as one that  *)
(* sleeps, and a job that was given to the pool, or has a result, was      *)
(* spawned, so that a spawn never meets its job somewhere already.         *)
(***************************************************************************)
QElems(q) == {q[i] : i \in 1 .. Len(q)}

Apart ==
  /\ \A s, t \in Holding : sjob[s] = sjob[t] => s = t
  /\ \A p \in PoolThreads : Distinct(pqueue[p])
  /\ \A p, q \in PoolThreads : p # q => QElems(pqueue[p]) \cap QElems(pqueue[q]) = {}
  /\ \A p, q \in PoolThreads : running[p] = running[q] /\ running[p] # NoJob => p = q

Places ==
  /\ Held \cap Waiting = {} /\ Held \cap Running = {} /\ Waiting \cap Running = {}
  /\ Held \cup Waiting \cup Running \subseteq Unanswered
  /\ (\A p \in PoolThreads : pstate[p] # "ended") => Unanswered \subseteq Held \cup Waiting \cup Running

Told(p) == token[p] \/ \E s \in Spawners : spc[s] = "unpark" /\ sidx[s] = p

ThreadOK(p) ==
  /\ pstate[p] = "call" <=> running[p] # NoJob
  /\ pqueue[p] # <<>> /\ pstate[p] \in {"empty", "parked"} => Told(p)

Books == given \subseteq Jobs /\ \A j \in Jobs : j \in given \/ j \in result => join[j] # "none"

PInv ==
  /\ PoolTypeOK /\ JoinAnswered /\ Apart /\ Places /\ Books
  /\ \A p \in PoolThreads : ThreadOK(p)

\* Waiting, queue by queue.
LEMMA WaitingElems ==
  ASSUME PoolTypeOK
  PROVE  Waiting = UNION {QElems(pqueue[p]) : p \in PoolThreads}
<1>1. \A p \in PoolThreads : DOMAIN pqueue[p] = 1 .. Len(pqueue[p])
  BY DEF PoolTypeOK
<1>2. QED
  BY <1>1 DEF Waiting, QElems

\* The invariant implies what the run checks.
LEMMA PInvImplies == PInv => PoolServed
<1> SUFFICES ASSUME PInv PROVE PoolServed
  OBVIOUS
<1>1. NoSleepOnJob
  BY DEF PInv, ThreadOK, Told, NoSleepOnJob
<1>2. ASSUME NEW p \in PoolThreads, NEW q \in PoolThreads,
             NEW i \in DOMAIN pqueue[p], NEW k \in DOMAIN pqueue[q], pqueue[p][i] = pqueue[q][k]
      PROVE  p = q /\ i = k
  <2>1. /\ pqueue[p] \in Seq(Jobs) /\ pqueue[q] \in Seq(Jobs)
        /\ i \in 1 .. Len(pqueue[p]) /\ k \in 1 .. Len(pqueue[q])
    BY DEF PInv, PoolTypeOK
  <2>2. pqueue[p][i] \in QElems(pqueue[p]) /\ pqueue[p][i] \in QElems(pqueue[q])
    BY <1>2, <2>1 DEF QElems
  <2>3. p = q
    BY <2>2 DEF PInv, Apart
  <2>4. QED
    BY <1>2, <2>1, <2>3 DEF PInv, Apart, Distinct
<1>3. JobsOnce
  BY <1>2 DEF PInv, Apart, Places, JobsOnce
<1>4. QED
  BY <1>1, <1>3 DEF PoolServed

\* A new pool satisfies it.
LEMMA PInvInit == PoolInit => PInv
<1> SUFFICES ASSUME PoolInit PROVE PInv
  OBVIOUS
<1>1. PoolThreads # {} /\ 0 \in PoolThreads /\ PoolSize \in Nat
  BY PoolAssumption DEF PoolThreads
<1>2. JInv
  BY JInvInit DEF PoolInit
<1>3. PoolTypeOK
  BY <1>1, <1>2 DEF PoolInit, PoolTypeOK, JInv
<1>4. \A p \in PoolThreads : /\ pqueue[p] = <<>> /\ Len(pqueue[p]) = 0 /\ QElems(pqueue[p]) = {}
                             /\ running[p] = NoJob /\ pstate[p] = "pop"
  BY DEF PoolInit, QElems
<1>5. Waiting = {}
  BY <1>3, <1>4, WaitingElems
<1>6. Holding = {} /\ Held = {} /\ Running = {} /\ Unanswered = {}
  BY <1>4 DEF PoolInit, Holding, Held, Running, Unanswered
<1>7. Apart
  BY <1>4, <1>6 DEF Apart, Distinct
<1>8. Places
  BY <1>5, <1>6 DEF Places
<1>9. Books
  BY DEF PoolInit, JoinInit, Books
<1>10. \A p \in PoolThreads : ThreadOK(p)
  BY <1>4 DEF ThreadOK
<1>11. QED
  BY <1>2, <1>3, <1>7, <1>8, <1>9, <1>10 DEF PInv, JInv

\* Where the jobs are does not change, and neither does which are answered.
LEMMA PlacesSame ==
  ASSUME PInv, UNCHANGED <<pqueue, running>>, Holding' = Holding, \A s \in Holding : sjob'[s] = sjob[s],
         Unanswered' = Unanswered, \A p \in PoolThreads : pstate'[p] = "ended" <=> pstate[p] = "ended"
  PROVE  Apart' /\ Places'
<1>1. Held' = Held
  BY DEF Held
<1>2. Waiting' = Waiting /\ Running' = Running
  BY DEF Waiting, Running
<1>3. Apart'
  <2>1. Apart
    BY DEF PInv
  <2>2. \A s, t \in Holding' : sjob'[s] = sjob'[t] => s = t
    BY <2>1 DEF Apart
  <2>3. \A p \in PoolThreads : Distinct(pqueue'[p])
    BY <2>1 DEF Apart
  <2>4. \A p, q \in PoolThreads : p # q => QElems(pqueue'[p]) \cap QElems(pqueue'[q]) = {}
    BY <2>1 DEF Apart
  <2>5. \A p, q \in PoolThreads : running'[p] = running'[q] /\ running'[p] # NoJob => p = q
    BY <2>1 DEF Apart
  <2>6. QED
    BY <2>2, <2>3, <2>4, <2>5 DEF Apart, QElems, Distinct
<1>4. Places'
  BY <1>1, <1>2 DEF PInv, Places
<1>5. QED
  BY <1>3, <1>4

\* Appending to a queue, and taking its head, queue by queue.
LEMMA QueueSteps ==
  ASSUME NEW q \in Seq(Jobs), Distinct(q)
  PROVE  /\ \A j \in Jobs : /\ Append(q, j) \in Seq(Jobs) /\ QElems(Append(q, j)) = QElems(q) \cup {j}
                            /\ j \notin QElems(q) => Distinct(Append(q, j))
         /\ q # <<>> => /\ Head(q) \in QElems(q) /\ Tail(q) \in Seq(Jobs) /\ Distinct(Tail(q))
                        /\ QElems(Tail(q)) = QElems(q) \ {Head(q)} /\ Head(q) \in Jobs
<1>1. Len(q) \in Nat
  OBVIOUS
<1>2. ASSUME NEW j \in Jobs
      PROVE  /\ Append(q, j) \in Seq(Jobs) /\ QElems(Append(q, j)) = QElems(q) \cup {j}
             /\ j \notin QElems(q) => Distinct(Append(q, j))
  <2>1. /\ Append(q, j) \in Seq(Jobs) /\ Len(Append(q, j)) = Len(q) + 1
        /\ \A i \in 1 .. Len(q) : Append(q, j)[i] = q[i]
        /\ Append(q, j)[Len(q) + 1] = j
    OBVIOUS
  <2>2. QElems(Append(q, j)) = QElems(q) \cup {j}
    BY <1>1, <2>1 DEF QElems
  <2>3. j \notin QElems(q) => Distinct(Append(q, j))
    BY <1>1, <2>1 DEF QElems, Distinct
  <2>4. QED
    BY <2>1, <2>2, <2>3
<1>3. ASSUME q # <<>>
      PROVE  /\ Head(q) \in QElems(q) /\ Tail(q) \in Seq(Jobs) /\ Distinct(Tail(q))
             /\ QElems(Tail(q)) = QElems(q) \ {Head(q)} /\ Head(q) \in Jobs
  <2>1. /\ Head(q) = q[1] /\ Len(q) \in Nat \ {0} /\ Tail(q) \in Seq(Jobs)
        /\ Len(Tail(q)) = Len(q) - 1 /\ Head(q) \in Jobs
        /\ \A i \in 1 .. Len(q) - 1 : Tail(q)[i] = q[i + 1]
    BY <1>3
  <2>2. Distinct(Tail(q))
    <3> SUFFICES ASSUME NEW i \in 1 .. Len(q) - 1, NEW k \in 1 .. Len(q) - 1, Tail(q)[i] = Tail(q)[k]
                 PROVE  i = k
      BY <2>1 DEF Distinct
    <3>1. i + 1 \in 1 .. Len(q) /\ k + 1 \in 1 .. Len(q) /\ q[i + 1] = q[k + 1]
      BY <2>1
    <3>2. i + 1 = k + 1
      BY <3>1 DEF Distinct
    <3>3. QED
      BY <2>1, <3>2
  <2>3. ASSUME NEW e \in QElems(Tail(q)) PROVE e \in QElems(q) \ {Head(q)}
    <3>1. PICK i \in 1 .. Len(q) - 1 : e = Tail(q)[i]
      BY <2>1, <2>3 DEF QElems
    <3>2. i + 1 \in 1 .. Len(q) /\ e = q[i + 1] /\ 1 \in 1 .. Len(q) /\ i + 1 # 1
      BY <2>1, <3>1
    <3>3. QED
      BY <2>1, <3>2 DEF QElems, Distinct
  <2>4. ASSUME NEW e \in QElems(q) \ {Head(q)} PROVE e \in QElems(Tail(q))
    <3>1. PICK i \in 1 .. Len(q) : e = q[i]
      BY <2>4 DEF QElems
    <3>2. i - 1 \in 1 .. Len(Tail(q)) /\ e = Tail(q)[i - 1]
      BY <2>1, <2>4, <3>1
    <3>3. QED
      BY <3>2 DEF QElems
  <2>5. Head(q) \in QElems(q)
    BY <2>1 DEF QElems
  <2>6. QED
    BY <2>1, <2>2, <2>3, <2>4, <2>5
<1>4. QED
  BY <1>2, <1>3

\* What an action must keep besides the places of the jobs.
LEMMA PInvParts ==
  ASSUME JInv', PoolTypeOK', Apart', Places', Books', \A p \in PoolThreads : ThreadOK(p)'
  PROVE  PInv'
BY DEF PInv, JInv

\* spawn begins: a new job, in nobody's hands, is held by its spawner.
LEMMA SpawnKeeps ==
  ASSUME PInv, NEW s \in Spawners, NEW j \in Jobs, pool_spawn(s, j)
  PROVE  PInv'
<1>1. JInv'
  BY NewJoinKeeps DEF PInv, PoolTypeOK, JInv, pool_spawn
<1>2. /\ UNCHANGED <<position, pqueue, running, pstate, token, result>>
      /\ spc[s] = "idle" /\ join[j] = "none" /\ join' = [join EXCEPT ![j] = "idle"] /\ given' = given \cup {j}
      /\ spc' = [spc EXCEPT ![s] = "set"] /\ sjob' = [sjob EXCEPT ![s] = j]
      /\ sidx' = [sidx EXCEPT ![s] = position % PoolSize]
  BY DEF pool_spawn, new_join
<1>3. PoolTypeOK /\ Apart /\ Places /\ Books
  BY DEF PInv
<1>4. position % PoolSize \in PoolThreads
  BY <1>3, PoolAssumption DEF PoolTypeOK, PoolThreads
<1>5. PoolTypeOK'
  BY <1>1, <1>2, <1>3, <1>4 DEF PoolTypeOK, JInv
<1>6. j \notin given /\ j \notin result /\ j # NoJob
  BY <1>2, <1>3, PoolAssumption DEF Books
<1>7. /\ Holding' = Holding \cup {s} /\ s \notin Holding /\ sjob'[s] = j
      /\ \A t \in Holding : sjob'[t] = sjob[t] /\ sjob[t] \in Held
  BY <1>2, <1>3 DEF Holding, Held, PoolTypeOK
<1>8. Held' = Held \cup {j} /\ Waiting' = Waiting /\ Running' = Running
  BY <1>2, <1>7 DEF Held, Waiting, Running
<1>9. Unanswered' = Unanswered \cup {j} /\ j \notin Unanswered
  <2>1. join'[j] = "idle" /\ \A i \in Jobs \ {j} : join'[i] = join[i]
    BY <1>2, <1>3 DEF PoolTypeOK, JoinTypeOK
  <2>2. QED
    BY <1>2, <1>3, <1>6, <2>1 DEF Unanswered, Books
<1>10. Places'
  BY <1>2, <1>3, <1>8, <1>9 DEF Places
<1>11. j \notin Held
  BY <1>3, <1>9 DEF Places
<1>12. Apart'
  <2>1. \A t, u \in Holding' : sjob'[t] = sjob'[u] => t = u
    BY <1>3, <1>7, <1>11 DEF Apart
  <2>2. \A p \in PoolThreads : Distinct(pqueue'[p])
    BY <1>2, <1>3 DEF Apart
  <2>3. \A p, q \in PoolThreads : p # q => QElems(pqueue'[p]) \cap QElems(pqueue'[q]) = {}
    BY <1>2, <1>3 DEF Apart
  <2>4. \A p, q \in PoolThreads : running'[p] = running'[q] /\ running'[p] # NoJob => p = q
    BY <1>2, <1>3 DEF Apart
  <2>5. QED
    BY <2>1, <2>2, <2>3, <2>4 DEF Apart, QElems, Distinct
<1>13. Books'
  BY <1>2, <1>3 DEF Books, PoolTypeOK, JoinTypeOK
<1>14. ASSUME NEW p \in PoolThreads PROVE ThreadOK(p)'
  <2>1. Told(p) => Told(p)'
    <3>1. \A t \in Spawners : spc[t] = "unpark" => spc'[t] = "unpark" /\ sidx'[t] = sidx[t]
      BY <1>2, <1>3 DEF PoolTypeOK
    <3>2. QED
      BY <1>2, <3>1 DEF Told
  <2>2. QED
    BY <1>2, <2>1 DEF PInv, ThreadOK
<1>15. QED
  BY <1>1, <1>5, <1>10, <1>12, <1>13, <1>14, PInvParts

\* The position is written back; another spawn may have done so in between.
LEMMA SpawnSetKeeps == ASSUME PInv, NEW s \in Spawners, SpawnSet(s) PROVE PInv'
<1>1. /\ UNCHANGED joinv /\ UNCHANGED <<pqueue, running, pstate, token, sidx, sjob, given, join, result>>
      /\ spc[s] = "set" /\ spc' = [spc EXCEPT ![s] = "push"] /\ position' = sidx[s] + 1
  BY DEF SpawnSet, joinv
<1>2. PoolTypeOK /\ Books /\ JInv
  BY DEF PInv, PoolTypeOK, JInv
<1>3. JInv'
  BY <1>1, <1>2, JInvUnchanged
<1>4. sidx[s] + 1 \in 0..PoolSize
  BY <1>2, PoolAssumption DEF PoolTypeOK, PoolThreads
<1>5. PoolTypeOK'
  BY <1>1, <1>2, <1>3, <1>4 DEF PoolTypeOK, JInv
<1>6. Holding' = Holding /\ Unanswered' = Unanswered
  BY <1>1, <1>2 DEF Holding, Unanswered, PoolTypeOK
<1>7. Apart' /\ Places'
  BY <1>1, <1>6, PlacesSame
<1>8. Books'
  BY <1>1, <1>2 DEF Books
<1>9. ASSUME NEW p \in PoolThreads PROVE ThreadOK(p)'
  <2>1. Told(p) => Told(p)'
    BY <1>1, <1>2 DEF Told, PoolTypeOK
  <2>2. QED
    BY <1>1, <2>1 DEF PInv, ThreadOK
<1>10. QED
  BY <1>3, <1>5, <1>7, <1>8, <1>9, PInvParts

\* The job goes from its spawner's hands to the end of a queue, and from now on the
\* spawner owes that thread an unpark.
LEMMA SpawnPushKeeps == ASSUME PInv, NEW s \in Spawners, SpawnPush(s) PROVE PInv'
<1> DEFINE q == sidx[s]  j == sjob[s]
<1>1. /\ UNCHANGED joinv
      /\ UNCHANGED <<position, running, pstate, token, sidx, sjob, given, join, result>>
      /\ spc[s] = "push" /\ spc' = [spc EXCEPT ![s] = "unpark"]
      /\ pqueue' = [pqueue EXCEPT ![q] = Append(pqueue[q], j)]
  BY DEF SpawnPush, joinv
<1>2. PoolTypeOK /\ Books /\ JInv /\ Apart /\ Places
  BY DEF PInv, PoolTypeOK, JInv
<1>3. JInv'
  BY <1>1, <1>2, JInvUnchanged
<1>4. q \in PoolThreads /\ pqueue[q] \in Seq(Jobs) /\ Distinct(pqueue[q])
  BY <1>2 DEF PoolTypeOK, Apart
<1>5. s \in Holding /\ j \in Held /\ j \in Jobs /\ j \notin Waiting /\ j \notin Running
  BY <1>1, <1>2 DEF Holding, Held, Places, Unanswered, Books
<1> HIDE DEF q, j
<1>6. /\ Append(pqueue[q], j) \in Seq(Jobs) /\ QElems(Append(pqueue[q], j)) = QElems(pqueue[q]) \cup {j}
  BY <1>4, <1>5, QueueSteps
<1>7. j \notin QElems(pqueue[q]) /\ \A p \in PoolThreads : QElems(pqueue[p]) \subseteq Waiting
  BY <1>2, <1>4, <1>5, WaitingElems
<1>8. Distinct(Append(pqueue[q], j))
  BY <1>4, <1>5, <1>7, QueueSteps
<1>9. /\ pqueue' \in [PoolThreads -> Seq(Jobs)] /\ pqueue'[q] = Append(pqueue[q], j)
      /\ \A p \in PoolThreads \ {q} : pqueue'[p] = pqueue[p]
  BY <1>1, <1>2, <1>4, <1>6 DEF PoolTypeOK
<1>10. PoolTypeOK'
  BY <1>1, <1>2, <1>3, <1>9 DEF PoolTypeOK, JInv
<1>11. /\ Holding' = Holding \ {s} /\ \A t \in Holding : sjob'[t] = sjob[t]
  BY <1>1, <1>2 DEF Holding, PoolTypeOK
<1>12. Held' = Held \ {j}
  <2>1. \A t \in Holding : t # s => sjob[t] # j
    BY <1>2, <1>5 DEF Apart, j
  <2>2. QED
    BY <1>11, <2>1 DEF Held, j
<1>13. Waiting' = Waiting \cup {j}
  <2>1. Waiting' = UNION {QElems(pqueue'[p]) : p \in PoolThreads}
    BY <1>10, WaitingElems DEF PoolTypeOK, Waiting, QElems
  <2>2. \A p \in PoolThreads : QElems(pqueue'[p]) = IF p = q THEN QElems(pqueue[p]) \cup {j} ELSE QElems(pqueue[p])
    BY <1>6, <1>9
  <2>3. Waiting = UNION {QElems(pqueue[p]) : p \in PoolThreads}
    BY <1>2, WaitingElems
  <2>4. \A e : e \in Waiting' <=> \E p \in PoolThreads : e \in QElems(pqueue'[p])
    BY <2>1
  <2>5. \A e : e \in Waiting <=> \E p \in PoolThreads : e \in QElems(pqueue[p])
    BY <2>3
  <2>6. ASSUME NEW e PROVE e \in Waiting' <=> e \in Waiting \cup {j}
    BY <1>4, <2>2, <2>4, <2>5
  <2>7. QED
    BY <2>6
<1>14. Running' = Running /\ Unanswered' = Unanswered
  BY <1>1 DEF Running, Unanswered
<1>15. Places'
  BY <1>1, <1>2, <1>5, <1>12, <1>13, <1>14 DEF Places
<1>16. Apart'
  <2>1. \A t, u \in Holding' : sjob'[t] = sjob'[u] => t = u
    BY <1>2, <1>11 DEF Apart
  <2>2. \A p \in PoolThreads : Distinct(pqueue'[p])
    BY <1>2, <1>8, <1>9 DEF Apart
  <2>3. ASSUME NEW p \in PoolThreads, NEW r \in PoolThreads, p # r
        PROVE  QElems(pqueue'[p]) \cap QElems(pqueue'[r]) = {}
    <3>1. QElems(pqueue[p]) \cap QElems(pqueue[r]) = {} /\ j \notin QElems(pqueue[p]) /\ j \notin QElems(pqueue[r])
      BY <1>2, <1>5, <1>7, <2>3 DEF Apart
    <3>2. QED
      BY <1>6, <1>9, <2>3, <3>1
  <2>4. \A p, r \in PoolThreads : running'[p] = running'[r] /\ running'[p] # NoJob => p = r
    BY <1>1, <1>2 DEF Apart
  <2>5. QED
    BY <2>1, <2>2, <2>3, <2>4 DEF Apart, QElems, Distinct
<1>17. Books'
  BY <1>1, <1>2 DEF Books
<1>18. ASSUME NEW p \in PoolThreads PROVE ThreadOK(p)'
  <2>1. (Told(p) \/ p = q) => Told(p)'
    BY <1>1, <1>2 DEF Told, PoolTypeOK, q
  <2>2. QED
    BY <1>1, <1>9, <2>1 DEF PInv, ThreadOK
<1>19. QED
  BY <1>3, <1>10, <1>15, <1>16, <1>17, <1>18, PInvParts

\* The unpark is given.
LEMMA SpawnUnparkKeeps == ASSUME PInv, NEW s \in Spawners, SpawnUnpark(s) PROVE PInv'
<1>1. /\ UNCHANGED joinv /\ UNCHANGED <<position, pqueue, running, pstate, sidx, given, join, result>>
      /\ spc[s] = "unpark" /\ spc' = [spc EXCEPT ![s] = "idle"] /\ sjob' = [sjob EXCEPT ![s] = NoJob]
      /\ token' = [token EXCEPT ![sidx[s]] = TRUE]
  BY DEF SpawnUnpark, joinv
<1>2. PoolTypeOK /\ Books /\ JInv
  BY DEF PInv, PoolTypeOK, JInv
<1>3. JInv'
  BY <1>1, <1>2, JInvUnchanged
<1>4. PoolTypeOK'
  BY <1>1, <1>2, <1>3 DEF PoolTypeOK, JInv
<1>5. Holding' = Holding /\ Unanswered' = Unanswered /\ \A t \in Holding : sjob'[t] = sjob[t]
  BY <1>1, <1>2 DEF Holding, Unanswered, PoolTypeOK
<1>6. Apart' /\ Places'
  BY <1>1, <1>5, PlacesSame
<1>7. Books'
  BY <1>1, <1>2 DEF Books
<1>8. ASSUME NEW p \in PoolThreads PROVE ThreadOK(p)'
  <2>1. token'[p] = (token[p] \/ p = sidx[s]) /\ \A t \in Spawners \ {s} : spc'[t] = spc[t]
    BY <1>1, <1>2 DEF PoolTypeOK
  <2>2. Told(p) => Told(p)'
    BY <1>1, <2>1 DEF Told
  <2>3. QED
    BY <1>1, <2>2 DEF PInv, ThreadOK
<1>9. QED
  BY <1>3, <1>4, <1>6, <1>7, <1>8, PInvParts

\* A thread takes the head of its queue: the job is with the thread now.
LEMMA PoolPopKeeps == ASSUME PInv, NEW q \in PoolThreads, PoolPop(q) PROVE PInv'
<1> DEFINE j == Head(pqueue[q])
<1>1. /\ UNCHANGED joinv /\ UNCHANGED <<position, token, spc, sidx, sjob, given, join, result>>
      /\ pstate[q] = "pop" /\ pqueue[q] # <<>> /\ pstate' = [pstate EXCEPT ![q] = "call"]
      /\ running' = [running EXCEPT ![q] = j] /\ pqueue' = [pqueue EXCEPT ![q] = Tail(pqueue[q])]
  BY DEF PoolPop, joinv
<1>2. PoolTypeOK /\ Books /\ JInv /\ Apart /\ Places /\ ThreadOK(q)
  BY DEF PInv, PoolTypeOK, JInv
<1>3. JInv'
  BY <1>1, <1>2, JInvUnchanged
<1>4. pqueue[q] \in Seq(Jobs) /\ Distinct(pqueue[q]) /\ running[q] = NoJob
  BY <1>1, <1>2 DEF PoolTypeOK, Apart, ThreadOK
<1>5. /\ j \in QElems(pqueue[q]) /\ Tail(pqueue[q]) \in Seq(Jobs) /\ Distinct(Tail(pqueue[q]))
      /\ QElems(Tail(pqueue[q])) = QElems(pqueue[q]) \ {j} /\ j \in Jobs
  BY <1>1, <1>4, QueueSteps
<1> HIDE DEF j
<1>6. Waiting = UNION {QElems(pqueue[p]) : p \in PoolThreads}
  BY <1>2, WaitingElems
<1>7. j \in Waiting /\ j \notin Running /\ j \notin Held /\ j # NoJob
  BY <1>2, <1>5, <1>6, PoolAssumption DEF Places
<1>8. /\ pqueue' \in [PoolThreads -> Seq(Jobs)] /\ pqueue'[q] = Tail(pqueue[q])
      /\ \A p \in PoolThreads \ {q} : pqueue'[p] = pqueue[p]
  BY <1>1, <1>2, <1>5 DEF PoolTypeOK
<1>9. /\ running' \in [PoolThreads -> Jobs \cup {NoJob}] /\ running'[q] = j
      /\ \A p \in PoolThreads \ {q} : running'[p] = running[p]
  BY <1>1, <1>2, <1>5 DEF PoolTypeOK
<1>10. PoolTypeOK'
  BY <1>1, <1>2, <1>3, <1>8, <1>9 DEF PoolTypeOK, JInv
<1>11. Holding' = Holding /\ Held' = Held /\ Unanswered' = Unanswered
  BY <1>1 DEF Holding, Held, Unanswered
<1>12. Running' = Running \cup {j}
  BY <1>4, <1>7, <1>9 DEF Running
<1>13. Waiting' = Waiting \ {j}
  <2>1. \A e : e \in Waiting' <=> \E p \in PoolThreads : e \in QElems(pqueue'[p])
    BY <1>10, WaitingElems DEF PoolTypeOK, Waiting, QElems
  <2>2. \A e : e \in Waiting <=> \E p \in PoolThreads : e \in QElems(pqueue[p])
    BY <1>6
  <2>3. \A p \in PoolThreads \ {q} : QElems(pqueue'[p]) = QElems(pqueue[p]) /\ j \notin QElems(pqueue[p])
    BY <1>2, <1>5, <1>8 DEF Apart
  <2>4. QElems(pqueue'[q]) = QElems(pqueue[q]) \ {j}
    BY <1>5, <1>8
  <2>5. ASSUME NEW e PROVE e \in Waiting' <=> e \in Waiting \ {j}
    BY <2>1, <2>2, <2>3, <2>4
  <2>6. QED
    BY <2>5
<1>14. \A p \in PoolThreads : pstate'[p] = "ended" <=> pstate[p] = "ended"
  BY <1>1, <1>2 DEF PoolTypeOK
<1>15. Places'
  BY <1>2, <1>7, <1>11, <1>12, <1>13, <1>14 DEF Places
<1>16. Apart'
  <2>1. \A t, u \in Holding' : sjob'[t] = sjob'[u] => t = u
    BY <1>1, <1>2, <1>11 DEF Apart
  <2>2. \A p \in PoolThreads : Distinct(pqueue'[p])
    BY <1>2, <1>5, <1>8 DEF Apart
  <2>3. ASSUME NEW p \in PoolThreads, NEW r \in PoolThreads, p # r
        PROVE  QElems(pqueue'[p]) \cap QElems(pqueue'[r]) = {}
    <3>1. QElems(pqueue[p]) \cap QElems(pqueue[r]) = {}
      BY <1>2, <2>3 DEF Apart
    <3>2. QElems(pqueue'[p]) \subseteq QElems(pqueue[p]) /\ QElems(pqueue'[r]) \subseteq QElems(pqueue[r])
      BY <1>5, <1>8
    <3>3. QED
      BY <3>1, <3>2
  <2>4. \A p, r \in PoolThreads : running'[p] = running'[r] /\ running'[p] # NoJob => p = r
    BY <1>2, <1>7, <1>9 DEF Apart, Running
  <2>5. QED
    BY <2>1, <2>2, <2>3, <2>4 DEF Apart, QElems, Distinct
<1>17. Books'
  BY <1>1, <1>2 DEF Books
<1>18. ASSUME NEW p \in PoolThreads PROVE ThreadOK(p)'
  <2>1. Told(p) => Told(p)'
    BY <1>1 DEF Told
  <2>2. CASE p = q
    BY <1>1, <1>2, <1>7, <1>9, <2>2 DEF PoolTypeOK, ThreadOK
  <2>3. CASE p # q
    <3>1. pstate'[p] = pstate[p] /\ running'[p] = running[p] /\ pqueue'[p] = pqueue[p]
      BY <1>1, <1>2, <1>8, <1>9, <2>3 DEF PoolTypeOK
    <3>2. QED
      BY <2>1, <3>1 DEF PInv, ThreadOK
  <2>4. QED
    BY <2>2, <2>3
<1>19. QED
  BY <1>3, <1>10, <1>15, <1>16, <1>17, <1>18, PInvParts

\* A thread finds its queue empty, parks, or is unparked.
LEMMA PoolSleepKeeps ==
  ASSUME PInv, NEW q \in PoolThreads, PoolEmpty(q) \/ PoolPark(q) \/ PoolUnparked(q)
  PROVE  PInv'
<1>1. /\ UNCHANGED joinv /\ UNCHANGED <<position, pqueue, running, spc, sidx, sjob, given, join, result>>
      /\ pstate[q] \in {"pop", "empty", "parked"}
  BY DEF PoolEmpty, PoolPark, PoolUnparked, joinv
<1>2. PoolTypeOK /\ Books /\ JInv
  BY DEF PInv, PoolTypeOK, JInv
<1>3. JInv'
  BY <1>1, <1>2, JInvUnchanged
<1>4. PICK x \in {"pop", "empty", "parked"} : pstate' = [pstate EXCEPT ![q] = x]
  BY DEF PoolEmpty, PoolPark, PoolUnparked
<1>5. token' \in [PoolThreads -> BOOLEAN] /\ \A p \in PoolThreads \ {q} : token'[p] = token[p]
  BY <1>2 DEF PoolEmpty, PoolPark, PoolUnparked, PoolTypeOK
<1>6. PoolTypeOK'
  BY <1>1, <1>2, <1>3, <1>4, <1>5 DEF PoolTypeOK, JInv
<1>7. Holding' = Holding /\ Unanswered' = Unanswered
  BY <1>1 DEF Holding, Unanswered
<1>8. \A p \in PoolThreads : pstate'[p] = IF p = q THEN x ELSE pstate[p]
  BY <1>2, <1>4 DEF PoolTypeOK
<1>9. Apart' /\ Places'
  BY <1>1, <1>7, <1>8, PlacesSame
<1>10. Books'
  BY <1>1, <1>2 DEF Books
<1>11. ASSUME NEW p \in PoolThreads PROVE ThreadOK(p)'
  <2>1. CASE p # q
    BY <1>1, <1>5, <1>8, <2>1 DEF PInv, ThreadOK, Told
  <2>2. CASE p = q
    <3>1. pstate'[q] # "call" /\ running'[q] = NoJob
      BY <1>1, <1>8 DEF PInv, ThreadOK
    <3>2. pqueue[q] # <<>> /\ x \in {"empty", "parked"} => Told(q)'
      <4>1. CASE PoolEmpty(q)
        BY <4>1 DEF PoolEmpty
      <4>2. CASE PoolPark(q)
        BY <1>1, <4>2 DEF PoolPark, PInv, ThreadOK, Told
      <4>3. CASE PoolUnparked(q)
        <5>1. x = "pop"
          BY <1>2, <1>8, <4>3 DEF PoolUnparked, PoolTypeOK
        <5>2. QED
          BY <5>1
      <4>4. QED
        BY <4>1, <4>2, <4>3
    <3>3. QED
      BY <1>1, <1>8, <2>2, <3>1, <3>2 DEF ThreadOK
  <2>3. QED
    BY <2>1, <2>2
<1>12. QED
  BY <1>3, <1>6, <1>9, <1>10, <1>11, PInvParts

\* A closure returns, and its result is stored, or panics and ends its thread.
LEMMA PoolCallKeeps ==
  ASSUME PInv, NEW q \in PoolThreads, PoolDone(q) \/ PoolPanic(q)
  PROVE  PInv'
<1> DEFINE j == running[q]
<1>1. /\ UNCHANGED <<position, pqueue, token, spc, sidx, sjob, given, join>>
      /\ pstate[q] = "call" /\ running' = [running EXCEPT ![q] = NoJob]
  BY DEF PoolDone, PoolPanic, joinv, complete
<1>2. PoolTypeOK /\ Books /\ JInv /\ Apart /\ Places /\ ThreadOK(q)
  BY DEF PInv, PoolTypeOK, JInv
<1>3. j \in Jobs /\ j # NoJob /\ j \in Running
  BY <1>1, <1>2 DEF PoolTypeOK, ThreadOK, Running
<1>4. j \in Unanswered /\ j \notin Held /\ j \notin Waiting
  BY <1>2, <1>3 DEF Places
<1>5. JInv' /\ (result' = result \/ result' = result \cup {j})
  <2>1. CASE PoolDone(q)
    BY <1>2, <1>3, <2>1, CompleteKeeps DEF PoolDone, complete
  <2>2. CASE PoolPanic(q)
    BY <1>2, <2>2, JInvUnchanged DEF PoolPanic, joinv
  <2>3. QED
    BY <2>1, <2>2
<1>6. PICK x \in {"pop", "ended"} : pstate' = [pstate EXCEPT ![q] = x]
  BY DEF PoolDone, PoolPanic
<1> HIDE DEF j
<1>7. /\ running' \in [PoolThreads -> Jobs \cup {NoJob}] /\ running'[q] = NoJob
      /\ \A p \in PoolThreads \ {q} : running'[p] = running[p]
  BY <1>1, <1>2 DEF PoolTypeOK
<1>8. /\ pstate' \in [PoolThreads -> {"pop", "empty", "parked", "call", "ended"}] /\ pstate'[q] = x
      /\ \A p \in PoolThreads \ {q} : pstate'[p] = pstate[p]
  BY <1>2, <1>6 DEF PoolTypeOK
<1>9. PoolTypeOK'
  BY <1>1, <1>2, <1>5, <1>7, <1>8 DEF PoolTypeOK, JInv
<1>10. Holding' = Holding /\ Held' = Held /\ Waiting' = Waiting
  BY <1>1 DEF Holding, Held, Waiting
<1>11. Running' = Running \ {j}
  <2>1. \A p \in PoolThreads \ {q} : running[p] # j
    BY <1>2, <1>3 DEF Apart, j
  <2>2. QED
    BY <1>7, <2>1 DEF Running, j
<1>12. Apart'
  <2>1. \A t, u \in Holding' : sjob'[t] = sjob'[u] => t = u
    BY <1>1, <1>2, <1>10 DEF Apart
  <2>2. \A p \in PoolThreads : Distinct(pqueue'[p])
    BY <1>1, <1>2 DEF Apart
  <2>3. \A p, r \in PoolThreads : p # r => QElems(pqueue'[p]) \cap QElems(pqueue'[r]) = {}
    BY <1>1, <1>2 DEF Apart
  <2>4. \A p, r \in PoolThreads : running'[p] = running'[r] /\ running'[p] # NoJob => p = r
    BY <1>2, <1>7 DEF Apart
  <2>5. QED
    BY <2>1, <2>2, <2>3, <2>4 DEF Apart, QElems, Distinct
<1>13. Places'
  <2>1. CASE PoolDone(q)
    <3>1. result' = result \cup {j}
      BY <2>1 DEF PoolDone, complete, j
    <3>2. Unanswered' = Unanswered \ {j}
      BY <1>1, <3>1 DEF Unanswered
    <3>3. \A p \in PoolThreads : pstate'[p] = "ended" <=> pstate[p] = "ended"
      BY <1>1, <1>2, <2>1 DEF PoolDone, PoolTypeOK
    <3>4. QED
      BY <1>2, <1>3, <1>4, <1>10, <1>11, <3>2, <3>3 DEF Places
  <2>2. CASE PoolPanic(q)
    <3>1. Unanswered' = Unanswered
      BY <1>1, <2>2 DEF PoolPanic, joinv, Unanswered
    <3>2. pstate'[q] = "ended"
      BY <1>2, <2>2 DEF PoolPanic, PoolTypeOK
    <3>3. QED
      BY <1>2, <1>10, <1>11, <3>1, <3>2 DEF Places
  <2>3. QED
    BY <2>1, <2>2
<1>14. Books'
  <2>1. join[j] # "none"
    BY <1>4 DEF Unanswered
  <2>2. QED
    BY <1>1, <1>2, <1>5, <2>1 DEF Books
<1>15. ASSUME NEW p \in PoolThreads PROVE ThreadOK(p)'
  <2>1. Told(p) => Told(p)'
    BY <1>1 DEF Told
  <2>2. QED
    BY <1>1, <1>7, <1>8, <2>1 DEF PInv, ThreadOK
<1>16. QED
  BY <1>5, <1>9, <1>12, <1>13, <1>14, <1>15, PInvParts

\* A JoinHandle is polled: it takes a result or registers.
LEMMA PoolPollKeeps == ASSUME PInv, PollJoin, UNCHANGED poolv PROVE PInv'
<1>1. UNCHANGED <<position, pqueue, running, pstate, token, spc, sidx, sjob, given>>
  BY DEF poolv
<1>2. PoolTypeOK /\ Books /\ JInv
  BY DEF PInv, PoolTypeOK, JInv
<1>3. JInv'
  BY <1>2, PollJoinKeeps
<1>4. PoolTypeOK'
  BY <1>1, <1>2, <1>3 DEF PoolTypeOK, JInv
<1>5. /\ \A j \in Jobs : join'[j] # "none" \/ join'[j] = join[j]
      /\ result' \subseteq result
      /\ \A j \in Jobs : (join'[j] \in {"idle", "pending"} /\ j \notin result')
                     <=> (join[j] \in {"idle", "pending"} /\ j \notin result)
  <2>1. CASE \E j \in Jobs : JoinReady(j)
    BY <1>2, <2>1 DEF JoinReady, JInv, JoinTypeOK
  <2>2. CASE \E j \in Jobs, w \in Joiners : JoinPending(j, w)
    BY <1>2, <2>2 DEF JoinPending, JInv, JoinTypeOK
  <2>3. QED
    BY <2>1, <2>2 DEF PollJoin
<1>6. Holding' = Holding /\ Unanswered' = Unanswered
  BY <1>1, <1>2, <1>5 DEF Holding, Unanswered, Books
<1>7. Apart' /\ Places'
  BY <1>1, <1>6, PlacesSame
<1>8. Books'
  BY <1>1, <1>2, <1>5 DEF Books
<1>9. \A p \in PoolThreads : ThreadOK(p)'
  BY <1>1 DEF PInv, ThreadOK, Told
<1>10. QED
  BY <1>3, <1>4, <1>7, <1>8, <1>9, PInvParts

\* Nothing changes.
LEMMA PInvUnchanged == ASSUME PInv, UNCHANGED <<joinv, poolv>> PROVE PInv'
<1>1. /\ UNCHANGED <<position, pqueue, running, pstate, token, spc, sidx, sjob, given, join, result>>
      /\ UNCHANGED joinv
  BY DEF poolv, joinv
<1>2. PoolTypeOK /\ Books /\ JInv
  BY DEF PInv, PoolTypeOK, JInv
<1>3. JInv'
  BY <1>1, <1>2, JInvUnchanged
<1>4. PoolTypeOK' /\ Books'
  BY <1>1, <1>2, <1>3 DEF PoolTypeOK, JInv, Books
<1>5. Holding' = Holding /\ Unanswered' = Unanswered
  BY <1>1 DEF Holding, Unanswered
<1>6. Apart' /\ Places'
  BY <1>1, <1>5, PlacesSame
<1>7. \A p \in PoolThreads : ThreadOK(p)'
  BY <1>1 DEF PInv, ThreadOK, Told
<1>8. QED
  BY <1>3, <1>4, <1>6, <1>7, PInvParts

\* Every step of the pool keeps the invariant.
LEMMA PInvNext == PInv /\ [PoolNext]_<<joinv, poolv>> => PInv'
<1> SUFFICES ASSUME PInv, [PoolNext]_<<joinv, poolv>> PROVE PInv'
  OBVIOUS
<1>1. CASE \E s \in Spawners : Spawning(s) \/ \E j \in Jobs : pool_spawn(s, j)
  BY <1>1, SpawnKeeps, SpawnSetKeeps, SpawnPushKeeps, SpawnUnparkKeeps DEF Spawning
<1>2. CASE \E p \in PoolThreads : PoolThread(p) \/ PoolPanic(p)
  BY <1>2, PoolPopKeeps, PoolSleepKeeps, PoolCallKeeps DEF PoolThread
<1>3. CASE PollJoin /\ UNCHANGED poolv
  BY <1>3, PoolPollKeeps
<1>4. CASE UNCHANGED <<joinv, poolv>>
  BY <1>4, PInvUnchanged
<1>5. QED
  BY <1>1, <1>2, <1>3, <1>4 DEF PoolNext

\* BlockingPool: the variables keep their types, the torn round-robin position included.
THEOREM PoolTypeCorrect == PoolSpec => []PoolTypeOK
<1>1. PInv => PoolTypeOK
  BY DEF PInv
<1>2. QED
  BY <1>1, PInvInit, PInvNext, PTL DEF PoolSpec

\* BlockingPool: no thread sleeps on a job, however spawn's three steps fall between the
\* thread's look at its queue and its park; no closure is called twice, and none is
\* lost while no closure has panicked.
THEOREM PoolServesJobs == PoolSpec => []PoolServed
BY PInvInit, PInvNext, PInvImplies, PTL DEF PoolSpec

\* BlockingPool: a task that awaits a blocking closure is woken by its end through the
\* waker of the latest poll.
THEOREM PoolJoinAnswered == PoolSpec => []JoinAnswered
<1>1. PInv => JoinAnswered
  BY DEF PInv
<1>2. QED
  BY <1>1, PInvInit, PInvNext, PTL DEF PoolSpec

(***************************************************************************)
(* MultiRuntime: the inductive invariant.  The Senders are used up in the  *)
(* order of the workers, and a Receiver lives as long as its worker.       *)
(***************************************************************************)
OwnerOK ==
  /\ owner = "used" => turn = 1 /\ \A w \in Workers : tx[w] = "held"
  /\ owner = "sending" => \A w \in Workers : w < turn => tx[w] = "dropped"
  /\ owner \in {"joining", "gone"} => \A w \in Workers : tx[w] = "dropped"
  /\ owner = "joining" => \A w \in Workers : w < turn => worker[w] = "ended"
  /\ owner = "gone" => \A w \in Workers : worker[w] = "ended"

WorkerOK(w) ==
  /\ worker[w] = "ended" <=> recv[w] = "dropped"
  /\ worker[w] = "run" => recv[w] = "pending"

MInv == JInv /\ OInv /\ MultiTypeOK /\ OwnerOK /\ \A w \in Workers : WorkerOK(w)

\* The invariant implies what the run checks.
LEMMA MInvImplies == MInv => ShutdownHeard
<1> SUFFICES ASSUME MInv PROVE ShutdownHeard
  OBVIOUS
<1>1. ASSUME owner \in {"joining", "gone"}, NEW w \in Workers, worker[w] # "ended"
      PROVE  recv[w] \in {"value", "closed"} \/ (Polls(w) /\ chan[w].st # "Empty")
  <2>1. w \in Channels /\ tx[w] = "dropped"
    BY <1>1, ThreadsAssumption DEF MInv, OwnerOK
  <2>2. recv[w] \in {"idle", "pending", "value", "closed"}
    BY <1>1, <2>1 DEF MInv, WorkerOK, OInv, OneshotTypeOK
  <2>3. chan[w].st # "Empty"
    BY <2>1 DEF MInv, OInv, ChanOK
  <2>4. QED
    BY <2>2, <2>3 DEF Polls
<1>2. owner = "gone" => \A w \in Workers : worker[w] = "ended"
  BY DEF MInv, OwnerOK
<1>3. owner \in {"joining", "gone"} =>
        \A w \in Workers : worker[w] = "ended" \/ recv[w] \in {"value", "closed"}
                          \/ (Polls(w) /\ chan[w].st # "Empty")
  BY <1>1
<1>4. QED
  BY <1>2, <1>3, Zenon DEF ShutdownHeard

\* A new runtime satisfies it.
LEMMA MInvInit == MultiInit => MInv
<1> SUFFICES ASSUME MultiInit PROVE MInv
  OBVIOUS
<1>1. JInv /\ OInv
  BY JInvInit, OInvInit DEF MultiInit
<1>2. 0 \in Executors /\ 1 \in 1..NumThreads
  BY ThreadsAssumption DEF Executors
<1>3. MultiTypeOK
  BY <1>1, <1>2 DEF MultiInit, MultiTypeOK, JInv, OInv
<1>4. OwnerOK /\ \A w \in Workers : WorkerOK(w)
  BY ThreadsAssumption DEF MultiInit, OneshotInit, OwnerOK, WorkerOK
<1>5. QED
  BY <1>1, <1>3, <1>4 DEF MInv

\* Spawns, ends of tasks and polls of JoinHandles: Drop and the workers are untouched.
LEMMA MultiTasksKeep ==
  ASSUME MInv,
         \/ \E j \in Jobs : multi_spawn(j) \/ \E e \in Executors : TaskDone(e, j)
         \/ PollJoin /\ UNCHANGED <<oneshotv, multiv>>
         \/ UNCHANGED <<joinv, oneshotv, multiv>>
  PROVE  MInv'
<1>1. /\ UNCHANGED oneshotv /\ UNCHANGED <<chan, tx, recv, worker, owner, turn>>
  BY DEF multi_spawn, TaskDone, oneshotv, multiv
<1>2. JInv /\ OInv /\ MultiTypeOK
  BY DEF MInv
<1>3. OInv'
  BY <1>1, <1>2, OInvUnchanged
<1>4. JInv' /\ next' \in Executors /\ tasks' \in [Executors -> SUBSET Jobs]
  <2>1. CASE \E j \in Jobs : multi_spawn(j)
    <3>1. PICK j \in Jobs : multi_spawn(j)
      BY <2>1
    <3>2. JInv'
      BY <1>2, <3>1, NewJoinKeeps DEF multi_spawn
    <3>3. next' \in Executors
      <4>1. next' = (next + 1) % NumThreads /\ next \in Nat /\ NumThreads \in Nat \ {0}
        BY <1>2, <3>1, ThreadsAssumption DEF multi_spawn, MultiTypeOK, Executors
      <4>2. QED
        BY <4>1 DEF Executors
    <3>4. tasks' \in [Executors -> SUBSET Jobs]
      BY <1>2, <3>1 DEF multi_spawn, MultiTypeOK
    <3>5. QED
      BY <3>2, <3>3, <3>4
  <2>2. CASE \E j \in Jobs, e \in Executors : TaskDone(e, j)
    BY <1>2, <2>2, CompleteKeeps DEF TaskDone, MultiTypeOK
  <2>3. CASE PollJoin /\ UNCHANGED <<oneshotv, multiv>>
    BY <1>2, <2>3, PollJoinKeeps DEF multiv, MultiTypeOK
  <2>4. CASE UNCHANGED <<joinv, oneshotv, multiv>>
    BY <1>2, <2>4, JInvUnchanged DEF multiv, MultiTypeOK
  <2>5. QED
    BY <2>1, <2>2, <2>3, <2>4
<1>5. MultiTypeOK'
  BY <1>1, <1>2, <1>3, <1>4 DEF MultiTypeOK, JInv, OInv
<1>6. OwnerOK' /\ \A w \in Workers : WorkerOK(w)'
  BY <1>1 DEF MInv, OwnerOK, WorkerOK
<1>7. QED
  BY <1>3, <1>4, <1>5, <1>6 DEF MInv

\* A worker's steps, its panic included: its own Receiver moves with it, and it never
\* leaves the state "ended".
LEMMA MultiWorkerKeeps ==
  ASSUME MInv, NEW w \in Workers, WorkerStep(w) \/ \E j \in Jobs : WorkerPanics(w, j)
  PROVE  MInv'
<1>1. UNCHANGED joinv /\ UNCHANGED <<tx, next, owner, turn>>
  BY DEF WorkerStep, WorkerPolls, WorkerReturns, WorkerTicked, WorkerPanics, RxReady, RxPending,
         oneshot_drop_receiver, oneshotv
<1>2. JInv /\ OInv /\ MultiTypeOK /\ w \in Channels /\ Channels = Workers /\ WorkerOK(w)
  BY ThreadsAssumption DEF MInv
<1>3. JInv'
  BY <1>1, <1>2, JInvUnchanged
<1>4. MainWaker \in RxWakers
  BY ThreadsAssumption DEF MainWaker
<1>5. tasks' \in [Executors -> SUBSET Jobs]
  BY <1>2 DEF WorkerStep, WorkerPolls, WorkerReturns, WorkerTicked, WorkerPanics, MultiTypeOK
<1>6. /\ OInv' /\ worker[w] # "ended" /\ WorkerOK(w)'
      /\ worker' \in [Workers -> {"poll", "run", "ended"}]
      /\ \A v \in Workers \ {w} : worker'[v] = worker[v] /\ recv'[v] = recv[v]
  <2>1. CASE WorkerPolls(w) /\ RxReady(w) /\ UNCHANGED worker
    <3>1. OInv' /\ recv'[w] \in {"value", "closed"}
      BY <1>2, <2>1, RxReadyKeeps
    <3>2. worker[w] = "poll" /\ \A v \in Workers \ {w} : recv'[v] = recv[v]
      BY <1>2, <2>1 DEF WorkerPolls, RxReady, OInv, OneshotTypeOK
    <3>3. QED
      BY <1>2, <2>1, <3>1, <3>2 DEF MultiTypeOK, WorkerOK
  <2>2. CASE WorkerPolls(w) /\ RxPending(w, MainWaker) /\ worker' = [worker EXCEPT ![w] = "run"]
    <3>1. OInv' /\ recv'[w] = "pending"
      BY <1>2, <1>4, <2>2, RxPendingKeeps
    <3>2. worker[w] = "poll" /\ \A v \in Workers \ {w} : recv'[v] = recv[v]
      BY <1>2, <2>2 DEF WorkerPolls, RxPending, OInv, OneshotTypeOK
    <3>3. QED
      BY <1>2, <2>2, <3>1, <3>2 DEF MultiTypeOK, WorkerOK
  <2>3. CASE WorkerReturns(w) \/ \E j \in Jobs : WorkerPanics(w, j)
    <3>1. oneshot_drop_receiver(w) /\ worker' = [worker EXCEPT ![w] = "ended"] /\ worker[w] # "ended"
      BY <2>3 DEF WorkerReturns, WorkerPanics
    <3>2. OInv'
      BY <1>2, <3>1, DropReceiverKeeps
    <3>3. recv'[w] = "dropped" /\ \A v \in Workers \ {w} : recv'[v] = recv[v]
      BY <1>2, <3>1 DEF oneshot_drop_receiver, OInv, OneshotTypeOK
    <3>4. QED
      BY <1>2, <3>1, <3>2, <3>3 DEF MultiTypeOK, WorkerOK
  <2>4. CASE WorkerTicked(w)
    <3>1. UNCHANGED oneshotv /\ recv' = recv /\ worker[w] = "run" /\ worker' = [worker EXCEPT ![w] = "poll"]
      BY <2>4 DEF WorkerTicked, oneshotv
    <3>2. OInv'
      BY <1>2, <3>1, OInvUnchanged
    <3>3. QED
      BY <1>2, <3>1, <3>2 DEF MultiTypeOK, WorkerOK
  <2>5. QED
    BY <2>1, <2>2, <2>3, <2>4 DEF WorkerStep, WorkerPolls
<1>7. MultiTypeOK'
  BY <1>1, <1>2, <1>3, <1>5, <1>6 DEF MultiTypeOK, JInv, OInv
<1>8. \A v \in Workers : WorkerOK(v)'
  BY <1>6 DEF MInv, WorkerOK
<1>9. OwnerOK'
  BY <1>1, <1>6 DEF MInv, OwnerOK
<1>10. QED
  BY <1>3, <1>6, <1>7, <1>8, <1>9 DEF MInv

\* Drop for MultiRuntime: one Sender after the other, then one thread after the other.
LEMMA MultiDropKeeps == ASSUME MInv, StartDrop \/ DropStep PROVE MInv'
<1>1. UNCHANGED joinv /\ UNCHANGED <<recv, next, tasks, worker>>
  BY DEF StartDrop, DropStep, DropSent, DropEnds, DropSends, DropJoins, oneshot_send, WakeRx,
         oneshot_drop_sender, oneshotv
<1>2. JInv /\ OInv /\ MultiTypeOK /\ OwnerOK /\ Channels = Workers /\ NumThreads \in Nat \ {0}
  BY ThreadsAssumption DEF MInv
<1>3. JInv'
  BY <1>1, <1>2, JInvUnchanged
<1>4. turn \in 1..NumThreads /\ \A w \in Workers : w \in 1..(NumThreads - 1)
  BY <1>2 DEF MultiTypeOK, Workers
<1>5. \A w \in Workers : WorkerOK(w)'
  BY <1>1 DEF MInv, WorkerOK
<1>6. /\ OInv' /\ OwnerOK' /\ owner' \in {"used", "sending", "joining", "gone"}
      /\ turn' \in 1..NumThreads
  <2>1. CASE StartDrop
    <3>1. UNCHANGED oneshotv /\ tx' = tx /\ owner = "used" /\ owner' = "sending" /\ turn' = turn
      BY <2>1 DEF StartDrop, oneshotv
    <3>2. OInv'
      BY <1>2, <3>1, OInvUnchanged
    <3>3. OwnerOK'
      BY <1>2, <1>4, <3>1 DEF OwnerOK
    <3>4. QED
      BY <1>4, <3>1, <3>2, <3>3
  <2>2. CASE DropSent
    <3>1. /\ UNCHANGED oneshotv /\ tx' = tx /\ owner = "sending" /\ owner' = "joining"
          /\ turn = NumThreads /\ turn' = 1
      BY <2>2 DEF DropSent, oneshotv
    <3>2. OInv'
      BY <1>2, <3>1, OInvUnchanged
    <3>3. \A w \in Workers : w < turn /\ ~(w < turn')
      BY <1>2, <1>4, <3>1
    <3>4. OwnerOK'
      BY <1>1, <1>2, <3>1, <3>3 DEF OwnerOK
    <3>5. QED
      BY <1>2, <3>1, <3>2, <3>4
  <2>3. CASE DropEnds
    <3>1. UNCHANGED oneshotv /\ tx' = tx /\ owner = "joining" /\ owner' = "gone" /\ turn = NumThreads /\ turn' = turn
      BY <2>3 DEF DropEnds, oneshotv
    <3>2. OInv'
      BY <1>2, <3>1, OInvUnchanged
    <3>3. \A w \in Workers : w < turn
      BY <1>2, <1>4, <3>1
    <3>4. OwnerOK'
      BY <1>1, <1>2, <3>1, <3>3 DEF OwnerOK
    <3>5. QED
      BY <1>4, <3>1, <3>2, <3>4
  <2>4. ASSUME NEW w \in Workers, DropJoins(w)
        PROVE  /\ OInv' /\ OwnerOK' /\ owner' \in {"used", "sending", "joining", "gone"}
               /\ turn' \in 1..NumThreads
    <3>1. /\ UNCHANGED oneshotv /\ tx' = tx /\ owner = "joining" /\ owner' = owner /\ turn = w
          /\ worker[w] = "ended" /\ turn' = turn + 1
      BY <2>4 DEF DropJoins, oneshotv
    <3>2. OInv'
      BY <1>2, <3>1, OInvUnchanged
    <3>3. turn' \in 1..NumThreads /\ \A v \in Workers : v < turn' => v < turn \/ v = w
      BY <1>2, <1>4, <3>1
    <3>4. OwnerOK'
      BY <1>1, <1>2, <3>1, <3>3 DEF OwnerOK
    <3>5. QED
      BY <3>1, <3>2, <3>3, <3>4
  <2>5. ASSUME NEW w \in Workers, DropSends(w)
        PROVE  /\ OInv' /\ OwnerOK' /\ owner' \in {"used", "sending", "joining", "gone"}
               /\ turn' \in 1..NumThreads
    <3>1. owner = "sending" /\ owner' = owner /\ turn = w /\ w \in Channels
      BY <1>2, <2>5 DEF DropSends
    <3>2. CASE (oneshot_send(w) \/ WakeRx(w)) /\ UNCHANGED turn
      <4>1. OInv'
        BY <1>2, <3>1, <3>2, SendKeeps, WakeRxKeeps
      <4>2. \A v \in Workers \ {w} : tx'[v] = tx[v]
        BY <1>2, <3>2 DEF oneshot_send, WakeRx, OInv, OneshotTypeOK
      <4>3. \A v \in Workers : v < turn => v # w
        BY <1>4, <3>1
      <4>4. OwnerOK'
        BY <1>2, <3>1, <3>2, <4>2, <4>3 DEF OwnerOK
      <4>5. QED
        BY <1>4, <3>1, <3>2, <4>1, <4>4
    <3>3. CASE tx[w] = "sent" /\ oneshot_drop_sender(w) /\ turn' = turn + 1
      <4>1. OInv' /\ tx' = [tx EXCEPT ![w] = "dropped"]
        BY <1>2, <3>1, <3>3, DropSenderKeeps
      <4>2. tx'[w] = "dropped" /\ \A v \in Workers \ {w} : tx'[v] = tx[v]
        BY <1>2, <4>1 DEF OInv, OneshotTypeOK
      <4>3. turn' \in 1..NumThreads /\ \A v \in Workers : v < turn' => v < turn \/ v = w
        BY <1>2, <1>4, <3>1, <3>3
      <4>4. OwnerOK'
        BY <1>2, <3>1, <4>2, <4>3 DEF OwnerOK
      <4>5. QED
        BY <3>1, <4>1, <4>3, <4>4
    <3>4. QED
      BY <2>5, <3>2, <3>3 DEF DropSends
  <2>6. QED
    BY <2>1, <2>2, <2>3, <2>4, <2>5 DEF DropStep
<1>7. MultiTypeOK'
  BY <1>1, <1>2, <1>3, <1>6 DEF MultiTypeOK, JInv, OInv
<1>8. QED
  BY <1>3, <1>5, <1>6, <1>7 DEF MInv

\* Every step of the runtime keeps the invariant.
LEMMA MInvNext == MInv /\ [MultiNext]_<<joinv, oneshotv, multiv>> => MInv'
BY MultiTasksKeep, MultiWorkerKeeps, MultiDropKeeps DEF MultiNext

\* MultiRuntime: the variables keep their types, for every number of threads.
THEOREM MultiTypeCorrect == MultiSpec => []MultiTypeOK
<1>1. MInv => MultiTypeOK
  BY DEF MInv
<1>2. QED
  BY <1>1, MInvInit, MInvNext, PTL DEF MultiSpec

\* MultiRuntime: what Drop joins has ended or finds the end of its block_on at its next
\* poll, and no thread is left when Drop returns: the safety half of ShutdownEnds.
THEOREM MultiShutdownHeard == MultiSpec => []ShutdownHeard
BY MInvInit, MInvNext, MInvImplies, PTL DEF MultiSpec

\* MultiRuntime: a task that awaits a spawned one is woken by its end, and a worker's
\* block_on by the oneshot, each through the waker of its latest poll.
THEOREM MultiAnswered == MultiSpec => [](JoinAnswered /\ OneshotAnswered)
<1>1. MInv => JoinAnswered /\ OneshotAnswered
  BY OInvImplies DEF MInv, JInv
<1>2. QED
  BY <1>1, MInvInit, MInvNext, PTL DEF MultiSpec

(***************************************************************************)
(* The timer wheel: division, as slots and rounds.                         *)
(***************************************************************************)
\* Quotient and remainder.
LEMMA DivFacts ==
  ASSUME NEW x \in Nat, NEW p \in Nat \ {0}
  PROVE  /\ x \div p \in Nat /\ x % p \in 0..(p - 1)
         /\ x = p * (x \div p) + (x % p)
<1>1. x \div p \in Nat
  OBVIOUS
<1>2. x % p \in 0..(p - 1)
  OBVIOUS
<1>3. x = p * (x \div p) + (x % p)
  OBVIOUS
<1>4. QED
  BY <1>1, <1>2, <1>3

\* A product grows with its factor.
LEMMA MulMono ==
  ASSUME NEW a \in Int, NEW b \in Int, a <= b, NEW p \in Nat
  PROVE  p * a <= p * b
OBVIOUS

\* Quotient and remainder are unique: the quotient.
LEMMA DivUnique ==
  ASSUME NEW p \in Nat \ {0}, NEW q \in Nat, NEW r \in 0..(p - 1)
  PROVE  (p * q + r) \div p = q
OBVIOUS

\* Quotient and remainder are unique: the remainder.
LEMMA ModUnique ==
  ASSUME NEW p \in Nat \ {0}, NEW q \in Nat, NEW r \in 0..(p - 1)
  PROVE  (p * q + r) % p = r
OBVIOUS

\* Quotients keep the order.
LEMMA DivMono ==
  ASSUME NEW x \in Nat, NEW y \in Nat, x <= y, NEW p \in Nat \ {0}
  PROVE  x \div p <= y \div p
OBVIOUS

\* A whole divisor further on, the quotient is larger.
LEMMA DivNext ==
  ASSUME NEW x \in Nat, NEW y \in Nat, NEW p \in Nat \ {0}, x + p <= y
  PROVE  x \div p < y \div p
OBVIOUS

\* Less than w divisors further on, the quotient is at most w larger.
LEMMA DivFar ==
  ASSUME NEW x \in Nat, NEW y \in Nat, NEW p \in Nat \ {0}, NEW w \in Nat, y < x + w * p
  PROVE  y \div p <= x \div p + w
OBVIOUS

\* Dividing by a product is dividing by its factors in turn.
LEMMA DivDiv ==
  ASSUME NEW x \in Nat, NEW p \in Nat \ {0}, NEW w \in Nat \ {0}
  PROVE  x \div (w * p) = (x \div p) \div w
OBVIOUS

\* Whole rounds do not change the slot.
LEMMA ModShift ==
  ASSUME NEW a \in Nat, NEW m \in Nat, NEW w \in Nat \ {0}
  PROVE  (w * m + a) % w = a % w
<1>1. PICK q \in Nat, r \in 0..(w - 1) : a = w * q + r
  <2>1. a = w * (a \div w) + (a % w) /\ a \div w \in Nat /\ a % w \in 0..(w - 1)
    BY DivFacts
  <2>2. QED
    BY <2>1
<1>2. w * m + a = w * (m + q) + r /\ m + q \in Nat
  BY <1>1
<1>3. (w * (m + q) + r) % w = r
  BY <1>2, ModUnique
<1>4. a % w = r
  BY <1>1, ModUnique
<1>5. QED
  BY <1>2, <1>3, <1>4

\* Counting on from old, the slot of t is met by t at the latest, and in one round.
LEMMA SlotReached ==
  ASSUME NEW old \in Nat, NEW t \in Nat, NEW w \in Nat \ {0}, old < t
  PROVE  \E j \in 1..w : j <= t - old /\ (old + j) % w = t % w
<1> DEFINE k == t - old - 1
           j == (k % w) + 1
<1>1. k \in Nat /\ k % w \in 0..(w - 1) /\ k % w <= k
  OBVIOUS
<1>2. t = w * (k \div w) + (old + j)
  OBVIOUS
<1>3. k \div w \in Nat
  OBVIOUS
<1>4. (old + j) % w = t % w
  <2> HIDE DEF k, j
  <2>1. old + j \in Nat
    BY <1>1 DEF j
  <2>2. (w * (k \div w) + (old + j)) % w = (old + j) % w
    BY ONLY <1>3, <2>1, ModShift, w \in Nat \ {0}
  <2>3. QED
    BY <1>2, <2>2
<1>5. QED
  BY <1>1, <1>4

(***************************************************************************)
(* Least elements and loops.                                               *)
(***************************************************************************)
\* Min of a set of naturals is its least element.
LEMMA LeastNat ==
  ASSUME NEW S, S \subseteq Nat, S # {}
  PROVE  Min(S) \in S /\ \A y \in S : Min(S) <= y
<1> DEFINE P(x) == x \in S /\ \A y \in S : x <= y
           R == OpToRel(<, Nat)
<1>1. IsWellFoundedOn(R, Nat)
  BY NatLessThanWellFounded, Zenon
<1>2. R = {ss \in Nat \X Nat : ss[1] < ss[2]}
  BY Zenon DEF OpToRel
<1> HIDE DEF R
<1>3. PICK m \in S : \A y \in S : ~(<<y, m>> \in R)
  BY <1>1, WFMin
<1>4. \A x, y \in Nat : <<y, x>> \in R <=> y < x
  BY <1>2
<1>5. ASSUME NEW y \in S PROVE m <= y
  <2>1. m \in Nat /\ y \in Nat
    OBVIOUS
  <2>2. ~(y < m)
    BY <1>3, <1>4, <2>1
  <2>3. QED
    BY <2>1, <2>2
<1>6. P(CHOOSE x : P(x))
  <2>1. \E z : P(z)
    BY <1>3, <1>5
  <2>2. QED
    BY <2>1, Zenon
<1>7. Min(S) = CHOOSE x : P(x)
  BY DEF Min
<1>8. QED
  BY <1>6, <1>7

\* What holds of 0 and goes from each number to the next holds up to n: the least
\* number where it fails would have a predecessor.
LEMMA Steps ==
  ASSUME NEW n \in Nat, NEW T, 0 \in T, \A i \in 1..n : i - 1 \in T => i \in T
  PROVE  \A i \in 0..n : i \in T
<1> DEFINE B == {i \in 0..n : i \notin T}
<1>1. SUFFICES ASSUME B # {} PROVE FALSE
  OBVIOUS
<1>2. B \subseteq Nat
  OBVIOUS
<1>3. PICK m \in B : \A y \in B : m <= y
  BY <1>1, <1>2, LeastNat
<1>4. m \in 1..n /\ m - 1 \in 0..n
  BY <1>3
<1>5. m - 1 \in T
  BY <1>3, <1>4
<1>6. QED
  BY <1>3, <1>4, <1>5

\* What n rounds of a loop compute from x, when op is its body.
Loop(f, n, S, x, op) ==
  f \in [0..n -> S] /\ f[0] = x /\ \A i \in 1..n : f[i] = op[<<f[i - 1], i>>]

\* A loop of n rounds computes something: f exists for every body that stays in S.
LEMMA Recursion ==
  ASSUME NEW n \in Nat, NEW S, NEW x \in S, NEW op \in [S \X (1..n) -> S]
  PROVE  \E f : Loop(f, n, S, x, op)
<1> DEFINE G(f, k) == f[0] = x /\ \A i \in 1..k : f[i] = op[<<f[i - 1], i>>]
           T == {k \in 0..n : \E f \in [0..k -> S] : G(f, k)}
<1>1. 0 \in T
  <2>1. [i \in 0..0 |-> x] \in [0..0 -> S] /\ G([i \in 0..0 |-> x], 0)
    OBVIOUS
  <2>2. 0 \in 0..n
    OBVIOUS
  <2>3. QED
    BY <2>1, <2>2
<1>2. ASSUME NEW k \in 1..n, k - 1 \in T PROVE k \in T
  <2>1. PICK f \in [0..(k - 1) -> S] : G(f, k - 1)
    BY <1>2
  <2> DEFINE g == [i \in 0..k |-> IF i = k THEN op[<<f[k - 1], k>>] ELSE f[i]]
  <2>2. f[k - 1] \in S
    OBVIOUS
  <2>3. op[<<f[k - 1], k>>] \in S
    BY <2>2
  <2>4. g \in [0..k -> S]
    <3>1. ASSUME NEW i \in 0..k PROVE g[i] \in S
      BY <2>3
    <3>2. QED
      BY <3>1
  <2>5. g[0] = x
    BY <2>1
  <2>6. ASSUME NEW i \in 1..k PROVE g[i] = op[<<g[i - 1], i>>]
    <3>1. CASE i = k
      <4>1. g[k - 1] = f[k - 1]
        OBVIOUS
      <4>2. g[k] = op[<<f[k - 1], k>>]
        OBVIOUS
      <4>3. QED
        BY <3>1, <4>1, <4>2
    <3>2. CASE i # k
      <4>1. i \in 1..(k - 1)
        BY <3>2
      <4>2. g[i] = f[i] /\ g[i - 1] = f[i - 1]
        BY <4>1
      <4>3. QED
        BY <4>1, <4>2, <2>1
    <3>3. QED
      BY <3>1, <3>2
  <2> HIDE DEF g
  <2>7. G(g, k)
    BY <2>5, <2>6
  <2>8. QED
    BY <2>4, <2>7
<1>3. \A i \in 0..n : i \in T
  <2> HIDE DEF T
  <2>1. QED
    BY <1>1, <1>2, Steps
<1>4. n \in T
  BY <1>3
<1>5. QED
  BY <1>4 DEF Loop

(***************************************************************************)
(* The widths of the slots.                                                *)
(***************************************************************************)
\* Span is the function its definition says: a slot is WheelSize slots of the level
\* below.
LEMMA SpanFacts ==
  /\ Span \in [0..NumLevels -> Nat \ {0}] /\ Span[0] = 1
  /\ \A l \in 1..NumLevels : Span[l] = WheelSize * Span[l - 1]
<1> DEFINE S == Nat \ {0}
           op == [z \in S \X (1..NumLevels) |-> WheelSize * z[1]]
           E(f) == f = [l \in 0..NumLevels |-> IF l = 0 THEN 1 ELSE WheelSize * f[l - 1]]
<1>1. NumLevels \in Nat /\ WheelSize \in Nat \ {0}
  BY WheelAssumption
<1>2. op \in [S \X (1..NumLevels) -> S]
  BY <1>1
<1>3. PICK f : Loop(f, NumLevels, S, 1, op)
  <2>1. 1 \in S
    OBVIOUS
  <2> HIDE DEF op, S
  <2>2. QED
    BY <1>1, <1>2, <2>1, Recursion
<1>4. ASSUME NEW i \in 1..NumLevels PROVE f[i] = WheelSize * f[i - 1]
  <2>1. f[i - 1] \in S
    BY <1>1, <1>3 DEF Loop
  <2>2. QED
    BY <1>3, <2>1 DEF Loop
<1>5. E(f)
  BY <1>1, <1>3, <1>4 DEF Loop
<1>6. E(CHOOSE g : E(g))
  BY <1>5, Zenon
<1>7. Span = CHOOSE g : E(g)
  BY Zenon DEF Span
<1>8. E(Span)
  BY <1>6, <1>7
<1>9. Span \in [0..NumLevels -> S] /\ Span[0] = 1 /\ \A l \in 1..NumLevels : Span[l] = WheelSize * Span[l - 1]
  <2>1. Span[0] = 1
    BY <1>1, <1>8
  <2>2. ASSUME NEW l \in 1..NumLevels PROVE Span[l] = WheelSize * Span[l - 1]
    BY <1>1, <1>8
  <2> DEFINE T == {l \in 0..NumLevels : Span[l] \in S}
  <2>3. 0 \in T
    BY <1>1, <2>1
  <2>4. ASSUME NEW l \in 1..NumLevels, l - 1 \in T PROVE l \in T
    BY <1>1, <2>2, <2>4
  <2>5. \A l \in 0..NumLevels : l \in T
    <3> HIDE DEF T
    <3>1. QED
      BY <1>1, <2>3, <2>4, Steps
  <2>6. QED
    BY <1>8, <2>1, <2>2, <2>5
<1>10. QED
  BY <1>9

\* What the proofs use of the sizes.
LEMMA Sizes ==
  /\ WheelSize \in Nat \ {0} /\ NumLevels \in Nat /\ NumLevels >= 2
  /\ Levels \subseteq Nat /\ WheelSlots \subseteq Nat /\ 0 \in Levels /\ NumLevels - 1 \in Levels
BY WheelAssumption DEF Levels, WheelSlots

\* The slots that time has passed are counted from 0, and the count picks a slot.
LEMMA TicksFacts ==
  ASSUME NEW x \in Nat, NEW l \in 0..NumLevels
  PROVE  Ticks(x, l) \in Nat /\ Ticks(x, l) % WheelSize \in WheelSlots
<1>1. Span[l] \in Nat \ {0}
  BY SpanFacts
<1>2. Ticks(x, l) \in Nat
  BY <1>1, DivFacts DEF Ticks
<1>3. QED
  BY <1>2, Sizes DEF WheelSlots

\* A slot of level 0 stands for one time.
LEMMA TicksZero ==
  ASSUME NEW x \in Nat
  PROVE  Ticks(x, 0) = x
<1>1. Span[0] = 1
  BY SpanFacts
<1>2. x \div 1 = x
  OBVIOUS
<1>3. QED
  BY <1>1, <1>2 DEF Ticks

\* Time that goes on never goes back a slot.
LEMMA TicksMono ==
  ASSUME NEW x \in Nat, NEW y \in Nat, x <= y, NEW l \in 0..NumLevels
  PROVE  Ticks(x, l) <= Ticks(y, l)
<1>1. Span[l] \in Nat \ {0}
  BY SpanFacts
<1>2. QED
  BY <1>1, DivMono DEF Ticks

\* Each level counts the rounds of the one below.
LEMMA TicksUp ==
  ASSUME NEW x \in Nat, NEW l \in 1..NumLevels
  PROVE  Ticks(x, l) = Ticks(x, l - 1) \div WheelSize
<1>1. l - 1 \in 0..NumLevels /\ WheelSize \in Nat \ {0}
  BY Sizes
<1>2. Span[l - 1] \in Nat \ {0} /\ Span[l] = WheelSize * Span[l - 1]
  BY <1>1, SpanFacts
<1>3. x \div (WheelSize * Span[l - 1]) = (x \div Span[l - 1]) \div WheelSize
  BY <1>1, <1>2, DivDiv
<1>4. QED
  BY <1>2, <1>3 DEF Ticks

\* Time that stays in its slot on one level stays in it on all those above.
LEMMA TicksSame ==
  ASSUME NEW x \in Nat, NEW y \in Nat, NEW k \in 0..NumLevels, Ticks(x, k) = Ticks(y, k)
  PROVE  \A l \in k..NumLevels : Ticks(x, l) = Ticks(y, l)
<1> DEFINE n == NumLevels - k
           T == {i \in 0..n : Ticks(x, k + i) = Ticks(y, k + i)}
<1>1. n \in Nat
  BY Sizes
<1>2. 0 \in T
  BY <1>1
<1>3. ASSUME NEW i \in 1..n, i - 1 \in T PROVE i \in T
  <2>1. k + i \in 1..NumLevels /\ (k + i) - 1 = k + (i - 1)
    BY <1>1, Sizes
  <2>2. Ticks(x, k + (i - 1)) = Ticks(y, k + (i - 1))
    BY <1>3
  <2>3. QED
    BY <2>1, <2>2, TicksUp
<1>4. \A i \in 0..n : i \in T
  <2> HIDE DEF T, n
  <2>1. QED
    BY <1>1, <1>2, <1>3, Steps
<1>5. ASSUME NEW l \in k..NumLevels PROVE Ticks(x, l) = Ticks(y, l)
  <2>1. l - k \in 0..n /\ k + (l - k) = l
    BY Sizes
  <2>2. QED
    BY <1>4, <2>1
<1>6. QED
  BY <1>5

\* Where a timer may be when the time is e: <<level, slot, deadline>>, ahead of e on
\* its level, and less than a round ahead except on the last.
PlacedAt(e) ==
  {x \in Levels \X WheelSlots \X Nat :
     /\ x[2] = Ticks(x[3], x[1]) % WheelSize /\ Ticks(e, x[1]) < Ticks(x[3], x[1])
     /\ x[1] < NumLevels - 1 => Ticks(x[3], x[1]) <= Ticks(e, x[1]) + WheelSize}

\* level_slot puts a deadline ahead of e where a timer may be at e.
LEMMA LevelSlot ==
  ASSUME NEW d \in Nat, NEW e \in Nat, e < d
  PROVE  \E l \in Levels, s \in WheelSlots : level_slot(d, e) = <<l, s>> /\ <<l, s, d>> \in PlacedAt(e)
<1> DEFINE S == {l \in Levels : l = NumLevels - 1 \/ d - e < Span[l + 1]}
           l == Min(S)
           s == Ticks(d, l) % WheelSize
<1>1. S \subseteq Nat /\ S # {}
  BY Sizes
<1>2. l \in S /\ \A k \in S : l <= k
  <2> HIDE DEF S
  <2>1. QED
    BY <1>1, LeastNat
<1> HIDE DEF l
<1>3. l \in Levels /\ l \in 0..NumLevels /\ l \in Nat /\ (l = NumLevels - 1 \/ d - e < Span[l + 1])
  BY <1>2, Sizes DEF Levels
<1>4. level_slot(d, e) = <<l, s>> /\ s \in WheelSlots
  BY <1>3, TicksFacts DEF level_slot, l
<1>5. Ticks(e, l) < Ticks(d, l)
  <2>1. CASE l = 0
    BY <2>1, TicksZero
  <2>2. CASE l > 0
    <3>1. l - 1 \in Levels /\ l - 1 # NumLevels - 1 /\ (l - 1) + 1 = l
      BY <1>3, <2>2, Sizes DEF Levels
    <3>2. ~(d - e < Span[l])
      BY <1>2, <1>3, <3>1
    <3>3. Span[l] \in Nat \ {0}
      BY <1>3, SpanFacts
    <3>4. e + Span[l] <= d
      BY <3>2, <3>3
    <3>5. QED
      BY <3>3, <3>4, DivNext DEF Ticks
  <2>3. QED
    BY <1>3, <2>1, <2>2
<1>6. ASSUME l < NumLevels - 1 PROVE Ticks(d, l) <= Ticks(e, l) + WheelSize
  <2>1. Span[l] \in Nat \ {0} /\ l + 1 \in 1..NumLevels /\ (l + 1) - 1 = l
    BY <1>3, <1>6, SpanFacts, Sizes
  <2>2. Span[l + 1] = WheelSize * Span[l]
    BY <2>1, SpanFacts
  <2>3. d < e + WheelSize * Span[l]
    BY <1>3, <1>6, <2>1, <2>2, Sizes
  <2>4. QED
    BY <2>1, <2>3, DivFar, Sizes DEF Ticks
<1>7. <<l, s, d>> \in PlacedAt(e)
  BY <1>3, <1>4, <1>5, <1>6 DEF PlacedAt
<1>8. QED
  BY <1>3, <1>4, <1>7

\* Min of two numbers.
LEMMA LeastOfTwo ==
  ASSUME NEW a \in Nat, NEW b \in Nat
  PROVE  Min({a, b}) \in Nat /\ Min({a, b}) <= a /\ Min({a, b}) <= b /\ (Min({a, b}) = a \/ Min({a, b}) = b)
<1>1. {a, b} \subseteq Nat /\ {a, b} # {}
  OBVIOUS
<1>2. Min({a, b}) \in {a, b} /\ \A y \in {a, b} : Min({a, b}) <= y
  BY <1>1, LeastNat
<1>3. QED
  BY <1>2

\* A timer of a level whose slot is not among those that time passes is where it
\* should be at the new time.
LEMMA NotDrained ==
  ASSUME NEW e \in Nat, NEW now \in Nat, e <= now, NEW x \in PlacedAt(e),
         \A j \in 1..Min({Ticks(now, x[1]) - Ticks(e, x[1]), WheelSize}) :
           x[2] # (Ticks(e, x[1]) + j) % WheelSize
  PROVE  x \in PlacedAt(now)
<1> DEFINE l == x[1]
           old == Ticks(e, l)
           new == Ticks(now, l)
           t == Ticks(x[3], l)
           n == Min({new - old, WheelSize})
<1>1. l \in Levels /\ l \in 0..NumLevels /\ x[3] \in Nat /\ x[2] = t % WheelSize /\ old < t
      /\ (l < NumLevels - 1 => t <= old + WheelSize)
  BY Sizes DEF PlacedAt, Levels
<1>2. old \in Nat /\ new \in Nat /\ t \in Nat /\ old <= new /\ WheelSize \in Nat \ {0}
  BY <1>1, TicksFacts, TicksMono, Sizes
<1>3. n \in Nat /\ (n = new - old \/ n = WheelSize)
  <2>1. new - old \in Nat
    BY <1>2
  <2>2. QED
    BY <1>2, <2>1, LeastOfTwo
<1>4. \A j \in 1..n : x[2] # (old + j) % WheelSize
  OBVIOUS
<1> HIDE DEF l, old, new, t, n
<1>5. new < t
  <2>1. SUFFICES ASSUME t <= new PROVE FALSE
    BY <1>2
  <2>2. PICK j \in 1..WheelSize : j <= t - old /\ (old + j) % WheelSize = t % WheelSize
    BY <1>1, <1>2, SlotReached
  <2>3. j \in 1..n
    BY <1>2, <1>3, <2>1, <2>2
  <2>4. QED
    BY <1>1, <1>4, <2>2, <2>3
<1>6. l < NumLevels - 1 => t <= new + WheelSize
  BY <1>1, <1>2
<1>7. QED
  BY <1>1, <1>5, <1>6 DEF PlacedAt, l, new, t

\* A timer in a slot is not due.
LEMMA PlacedAhead ==
  ASSUME NEW e \in Nat, NEW l, NEW s, NEW d, <<l, s, d>> \in PlacedAt(e)
  PROVE  d \in Nat /\ e < d
<1>1. l \in 0..NumLevels /\ d \in Nat /\ Ticks(e, l) < Ticks(d, l)
  BY Sizes DEF PlacedAt, Levels
<1>2. Ticks(e, l) \in Nat /\ Ticks(d, l) \in Nat
  BY <1>1, TicksFacts
<1>3. d <= e => Ticks(d, l) <= Ticks(e, l)
  BY <1>1, TicksMono
<1>4. QED
  BY <1>1, <1>2, <1>3

(***************************************************************************)
(* The state of a wheel, and what the operations do to its fields.         *)
(***************************************************************************)
\* What a timer's position may be.
Positions == {NoPos} \cup (Levels \X WheelSlots \X (Nat \ {0}))

\* The states of a TimerWheel, by the types of its fields.
Wheels ==
  [levels : [Levels -> [WheelSlots -> Seq(TimerIds)]], elapsed : Nat, pending : Seq(TimerIds),
   deadlines : [TimerIds -> Nat], positions : [TimerIds -> Positions],
   level_counts : [Levels -> Int]]

\* The fields of a wheel.
LEMMA WheelFields ==
  ASSUME NEW w \in Wheels
  PROVE  /\ w.levels \in [Levels -> [WheelSlots -> Seq(TimerIds)]] /\ w.elapsed \in Nat
         /\ w.pending \in Seq(TimerIds) /\ w.deadlines \in [TimerIds -> Nat]
         /\ w.positions \in [TimerIds -> Positions] /\ w.level_counts \in [Levels -> Int]
         /\ \A l \in Levels, s \in WheelSlots : w.levels[l][s] \in Seq(TimerIds)
BY DEF Wheels

\* What wheel_insert_inner does, field by field.
Inserted(v, w, r, l, s) ==
  /\ v \in Wheels /\ v.elapsed = w.elapsed /\ v.pending = w.pending /\ v.deadlines = w.deadlines
  /\ \A k \in Levels, t \in WheelSlots :
       v.levels[k][t] = IF k = l /\ t = s THEN Append(w.levels[l][s], r) ELSE w.levels[k][t]
  /\ \A q \in TimerIds :
       v.positions[q] = IF q = r THEN <<l, s, Len(w.levels[l][s]) + 1>> ELSE w.positions[q]
  /\ \A k \in Levels :
       v.level_counts[k] = IF k = l THEN w.level_counts[l] + 1 ELSE w.level_counts[k]

\* wheel_insert_inner does that.
LEMMA InsertFields ==
  ASSUME NEW w \in Wheels, NEW r \in TimerIds, NEW d, NEW e, NEW l \in Levels, NEW s \in WheelSlots,
         level_slot(d, e) = <<l, s>>
  PROVE  Inserted(wheel_insert_inner(w, r, d, e), w, r, l, s)
<1> DEFINE v == [w EXCEPT !.levels[l][s] = Append(@, r),
                          !.level_counts[l] = @ + 1,
                          !.positions[r] = <<l, s, Len(w.levels[l][s]) + 1>>]
<1>1. wheel_insert_inner(w, r, d, e) = v
  BY DEF wheel_insert_inner
<1>2. w.levels[l][s] \in Seq(TimerIds)
  BY WheelFields
<1>3. Append(w.levels[l][s], r) \in Seq(TimerIds)
  BY <1>2
<1>4. <<l, s, Len(w.levels[l][s]) + 1>> \in Positions
  BY <1>2 DEF Positions
<1>5. v \in Wheels
  <2> DEFINE a == [w.levels EXCEPT ![l][s] = Append(w.levels[l][s], r)]
             b == [w.level_counts EXCEPT ![l] = w.level_counts[l] + 1]
             c == [w.positions EXCEPT ![r] = <<l, s, Len(w.levels[l][s]) + 1>>]
  <2>1. v = [w EXCEPT !.levels = a, !.level_counts = b, !.positions = c]
    BY DEF Wheels
  <2>2. a \in [Levels -> [WheelSlots -> Seq(TimerIds)]]
    BY <1>3, WheelFields
  <2>3. b \in [Levels -> Int] /\ c \in [TimerIds -> Positions]
    BY <1>4, WheelFields
  <2> HIDE DEF a, b, c, v
  <2>4. QED
    BY <2>1, <2>2, <2>3, WheelFields DEF Wheels
<1>6. v.elapsed = w.elapsed /\ v.pending = w.pending /\ v.deadlines = w.deadlines
  BY DEF Wheels
<1>7. \A k \in Levels, t \in WheelSlots :
        v.levels[k][t] = IF k = l /\ t = s THEN Append(w.levels[l][s], r) ELSE w.levels[k][t]
  BY DEF Wheels
<1>8. \A q \in TimerIds :
        v.positions[q] = IF q = r THEN <<l, s, Len(w.levels[l][s]) + 1>> ELSE w.positions[q]
  BY DEF Wheels
<1>9. \A k \in Levels :
        v.level_counts[k] = IF k = l THEN w.level_counts[l] + 1 ELSE w.level_counts[k]
  BY DEF Wheels
<1>10. QED
  BY <1>1, <1>5, <1>6, <1>7, <1>8, <1>9 DEF Inserted

(***************************************************************************)
(* The bookkeeping of a wheel, while the timers of X are out of their      *)
(* slots and not in another one yet.                                       *)
(***************************************************************************)
\* A timer in a slot has that position, and a deadline.
SlotsOk(w, X) ==
  \A l \in Levels, s \in WheelSlots : \A i \in DOMAIN w.levels[l][s] :
    /\ w.levels[l][s][i] \notin X /\ w.positions[w.levels[l][s][i]] = <<l, s, i>>
    /\ w.deadlines[w.levels[l][s][i]] # NoTimer

\* A timer that has a position is there.
PositionsOk(w, X) ==
  \A r \in TimerIds \ X : w.positions[r] # NoPos =>
    \E l \in Levels, s \in WheelSlots : \E i \in DOMAIN w.levels[l][s] :
      w.positions[r] = <<l, s, i>> /\ w.levels[l][s][i] = r

\* A timer that has a deadline is in a slot or pending.
DeadlinesOk(w, X) ==
  \A r \in TimerIds \ X : w.deadlines[r] # NoTimer =>
    w.positions[r] # NoPos \/ \E i \in DOMAIN w.pending : w.pending[i] = r

\* A pending timer is in no slot, has a deadline, and is pending once.
PendingOk(w, X) ==
  \A i \in DOMAIN w.pending :
    /\ w.pending[i] \notin X /\ w.positions[w.pending[i]] = NoPos
    /\ w.deadlines[w.pending[i]] # NoTimer
    /\ \A j \in DOMAIN w.pending : w.pending[j] = w.pending[i] => j = i

\* A timer between two slots has a deadline.
LimboOk(w, X) == X \subseteq TimerIds /\ \A r \in X : w.deadlines[r] # NoTimer

\* The timers in the slots of a level.
On(w, l) == {r \in TimerIds : \E s \in WheelSlots : \E i \in DOMAIN w.levels[l][s] : w.levels[l][s][i] = r}

\* The counter of a level counts them.
CountsOk(w) ==
  \A l \in Levels : IsFiniteSet(On(w, l)) /\ w.level_counts[l] = Cardinality(On(w, l))

\* The bookkeeping as a whole.
Sound(w, X) ==
  /\ w \in Wheels /\ SlotsOk(w, X) /\ PositionsOk(w, X) /\ DeadlinesOk(w, X) /\ PendingOk(w, X)
  /\ LimboOk(w, X) /\ CountsOk(w)

\* The timers in slots are where A allows them to be.
Placed(w, A) ==
  \A l \in Levels, s \in WheelSlots : \A i \in DOMAIN w.levels[l][s] :
    <<l, s, w.deadlines[w.levels[l][s][i]]>> \in A

\* A position is not NoPos, and equal positions agree in level, slot and index.
LEMMA PositionFacts ==
  ASSUME NEW l, NEW s, NEW i
  PROVE  /\ <<l, s, i>> # NoPos
         /\ \A k, t, j : <<l, s, i>> = <<k, t, j>> => l = k /\ s = t /\ i = j
BY DEF NoPos

\* What Append does to a slot.
LEMMA Appended ==
  ASSUME NEW q \in Seq(TimerIds), NEW r \in TimerIds
  PROVE  /\ Append(q, r) \in Seq(TimerIds) /\ Len(q) \in Nat /\ Len(q) + 1 \in DOMAIN Append(q, r)
         /\ DOMAIN q \subseteq DOMAIN Append(q, r) /\ Append(q, r)[Len(q) + 1] = r
         /\ \A i \in DOMAIN Append(q, r) : i # Len(q) + 1 => i \in DOMAIN q
         /\ \A i \in DOMAIN q : i # Len(q) + 1 /\ Append(q, r)[i] = q[i]
OBVIOUS

\* Slots hold timers.
LEMMA SlotEntry ==
  ASSUME NEW w \in Wheels, NEW l \in Levels, NEW s \in WheelSlots, NEW i \in DOMAIN w.levels[l][s]
  PROVE  w.levels[l][s][i] \in TimerIds /\ i \in Nat \ {0}
<1>1. w.levels[l][s] \in Seq(TimerIds)
  BY WheelFields
<1>2. QED
  BY <1>1

\* wheel_insert_inner takes a timer out of limbo and keeps the bookkeeping.
LEMMA InsertSound ==
  ASSUME NEW w, NEW X, Sound(w, X), NEW r \in X, NEW d, NEW e, NEW l \in Levels, NEW s \in WheelSlots,
         level_slot(d, e) = <<l, s>>
  PROVE  Sound(wheel_insert_inner(w, r, d, e), X \ {r})
<1> DEFINE v == wheel_insert_inner(w, r, d, e)
           Y == X \ {r}
           q == w.levels[l][s]
<1>1. w \in Wheels /\ SlotsOk(w, X) /\ PositionsOk(w, X) /\ DeadlinesOk(w, X) /\ PendingOk(w, X)
      /\ LimboOk(w, X) /\ CountsOk(w) /\ r \in TimerIds
  BY DEF Sound, LimboOk
<1>2. /\ v \in Wheels /\ v.elapsed = w.elapsed /\ v.pending = w.pending /\ v.deadlines = w.deadlines
      /\ \A k \in Levels, t \in WheelSlots :
           v.levels[k][t] = IF k = l /\ t = s THEN Append(q, r) ELSE w.levels[k][t]
      /\ \A p \in TimerIds : v.positions[p] = IF p = r THEN <<l, s, Len(q) + 1>> ELSE w.positions[p]
      /\ \A k \in Levels :
           v.level_counts[k] = IF k = l THEN w.level_counts[l] + 1 ELSE w.level_counts[k]
  <2>1. Inserted(v, w, r, l, s)
    BY <1>1, InsertFields
  <2>2. QED
    BY <2>1 DEF Inserted
<1>3. q \in Seq(TimerIds)
  BY <1>1, WheelFields
<1> HIDE DEF v, q
<1>4. /\ Len(q) + 1 \in DOMAIN Append(q, r) /\ DOMAIN q \subseteq DOMAIN Append(q, r)
      /\ Append(q, r)[Len(q) + 1] = r
      /\ \A i \in DOMAIN Append(q, r) : i # Len(q) + 1 => i \in DOMAIN q
      /\ \A i \in DOMAIN q : i # Len(q) + 1 /\ Append(q, r)[i] = q[i]
  BY <1>1, <1>3, Appended
<1>5. ASSUME NEW k \in Levels, NEW t \in WheelSlots, NEW i \in DOMAIN v.levels[k][t]
      PROVE  \/ k = l /\ t = s /\ i = Len(q) + 1 /\ v.levels[k][t][i] = r
             \/ i \in DOMAIN w.levels[k][t] /\ v.levels[k][t][i] = w.levels[k][t][i]
                /\ w.levels[k][t][i] # r
  <2>0. \A j \in DOMAIN w.levels[k][t] : w.levels[k][t][j] # r
    BY <1>1 DEF SlotsOk
  <2>1. CASE k = l /\ t = s
    <3>1. v.levels[k][t] = Append(q, r) /\ w.levels[k][t] = q
      BY <1>2, <2>1 DEF q
    <3>2. QED
      BY <1>4, <2>0, <2>1, <3>1
  <2>2. CASE ~(k = l /\ t = s)
    <3>1. v.levels[k][t] = w.levels[k][t]
      BY <1>2, <2>2
    <3>2. QED
      BY <2>0, <3>1
  <2>3. QED
    BY <2>1, <2>2
<1>6. ASSUME NEW k \in Levels, NEW t \in WheelSlots, NEW i \in DOMAIN w.levels[k][t]
      PROVE  i \in DOMAIN v.levels[k][t] /\ v.levels[k][t][i] = w.levels[k][t][i]
  BY <1>2, <1>4 DEF q
<1>7. Len(q) + 1 \in DOMAIN v.levels[l][s] /\ v.levels[l][s][Len(q) + 1] = r
  BY <1>2, <1>4
<1>8. SlotsOk(v, Y)
  <2> SUFFICES ASSUME NEW k \in Levels, NEW t \in WheelSlots, NEW i \in DOMAIN v.levels[k][t]
               PROVE  /\ v.levels[k][t][i] \notin Y /\ v.positions[v.levels[k][t][i]] = <<k, t, i>>
                      /\ v.deadlines[v.levels[k][t][i]] # NoTimer
    BY DEF SlotsOk
  <2>1. CASE k = l /\ t = s /\ i = Len(q) + 1 /\ v.levels[k][t][i] = r
    BY <1>1, <1>2, <2>1 DEF LimboOk
  <2>2. CASE i \in DOMAIN w.levels[k][t] /\ v.levels[k][t][i] = w.levels[k][t][i] /\ w.levels[k][t][i] # r
    <3>1. w.levels[k][t][i] \in TimerIds
      BY <1>1, <2>2, SlotEntry
    <3>2. /\ w.levels[k][t][i] \notin X /\ w.positions[w.levels[k][t][i]] = <<k, t, i>>
          /\ w.deadlines[w.levels[k][t][i]] # NoTimer
      BY <1>1, <2>2 DEF SlotsOk
    <3>3. v.positions[w.levels[k][t][i]] = w.positions[w.levels[k][t][i]]
      BY <1>2, <2>2, <3>1
    <3>4. QED
      BY <1>2, <2>2, <3>2, <3>3
  <2>3. QED
    BY <1>5, <2>1, <2>2
<1>9. PositionsOk(v, Y)
  <2> SUFFICES ASSUME NEW p \in TimerIds \ Y, v.positions[p] # NoPos
               PROVE  \E k \in Levels, t \in WheelSlots : \E i \in DOMAIN v.levels[k][t] :
                        v.positions[p] = <<k, t, i>> /\ v.levels[k][t][i] = p
    BY DEF PositionsOk
  <2>1. CASE p = r
    BY <1>1, <1>2, <1>7, <2>1
  <2>2. CASE p # r
    <3>1. PICK k \in Levels, t \in WheelSlots : \E i \in DOMAIN w.levels[k][t] :
                w.positions[p] = <<k, t, i>> /\ w.levels[k][t][i] = p
      BY <1>1, <1>2, <2>2 DEF PositionsOk
    <3>2. QED
      BY <1>2, <1>6, <2>2, <3>1
  <2>3. QED
    BY <2>1, <2>2
<1>10. DeadlinesOk(v, Y)
  <2>1. <<l, s, Len(q) + 1>> # NoPos
    BY PositionFacts
  <2>2. QED
    BY <1>1, <1>2, <2>1 DEF DeadlinesOk
<1>11. PendingOk(v, Y)
  <2> SUFFICES ASSUME NEW i \in DOMAIN w.pending
               PROVE  /\ w.pending[i] \notin Y /\ v.positions[w.pending[i]] = NoPos
                      /\ w.deadlines[w.pending[i]] # NoTimer
                      /\ \A j \in DOMAIN w.pending : w.pending[j] = w.pending[i] => j = i
    BY <1>2 DEF PendingOk
  <2>1. w.pending[i] \in TimerIds
    <3>1. w.pending \in Seq(TimerIds)
      BY <1>1, WheelFields
    <3>2. QED
      BY <3>1
  <2>2. QED
    BY <1>1, <1>2, <2>1 DEF PendingOk
<1>12. LimboOk(v, Y)
  BY <1>1, <1>2 DEF LimboOk
<1>13. CountsOk(v)
  <2> SUFFICES ASSUME NEW k \in Levels
               PROVE  IsFiniteSet(On(v, k)) /\ v.level_counts[k] = Cardinality(On(v, k))
    BY DEF CountsOk
  <2>1. IsFiniteSet(On(w, k)) /\ w.level_counts[k] = Cardinality(On(w, k))
    BY <1>1 DEF CountsOk
  <2>2. CASE k = l
    <3>1. On(v, l) = On(w, l) \cup {r}
      <4>1. ASSUME NEW p \in On(v, l) PROVE p \in On(w, l) \cup {r}
        <5>1. PICK t \in WheelSlots : \E i \in DOMAIN v.levels[l][t] : v.levels[l][t][i] = p
          BY <4>1 DEF On
        <5>2. PICK i \in DOMAIN v.levels[l][t] : v.levels[l][t][i] = p
          BY <5>1
        <5>3. QED
          BY <1>5, <5>2, <4>1 DEF On
      <4>2. ASSUME NEW p \in On(w, l) PROVE p \in On(v, l)
        BY <1>6, <4>2 DEF On
      <4>3. r \in On(v, l)
        BY <1>1, <1>7 DEF On
      <4>4. QED
        BY <4>1, <4>2, <4>3
    <3>2. r \notin On(w, l)
      BY <1>1 DEF On, SlotsOk
    <3>3. IsFiniteSet(On(v, l)) /\ Cardinality(On(v, l)) = Cardinality(On(w, l)) + 1
      BY <2>1, <2>2, <3>1, <3>2, FS_AddElement
    <3>4. QED
      BY <1>2, <2>1, <2>2, <3>3
  <2>3. CASE k # l
    <3>1. On(v, k) = On(w, k)
      BY <1>2, <2>3 DEF On
    <3>2. QED
      BY <1>2, <2>1, <2>3, <3>1
  <2>4. QED
    BY <2>2, <2>3
<1>14. QED
  BY <1>2, <1>8, <1>9, <1>10, <1>11, <1>12, <1>13 DEF Sound, v, Y

\* It puts the timer where A allows it and leaves the others where they are.
LEMMA InsertPlaced ==
  ASSUME NEW w \in Wheels, NEW r \in TimerIds, NEW d, NEW e, NEW l \in Levels, NEW s \in WheelSlots,
         level_slot(d, e) = <<l, s>>, NEW A, Placed(w, A), <<l, s, w.deadlines[r]>> \in A
  PROVE  Placed(wheel_insert_inner(w, r, d, e), A)
<1> DEFINE v == wheel_insert_inner(w, r, d, e)
           q == w.levels[l][s]
<1>1. /\ v.deadlines = w.deadlines
      /\ \A k \in Levels, t \in WheelSlots :
           v.levels[k][t] = IF k = l /\ t = s THEN Append(q, r) ELSE w.levels[k][t]
  <2>1. Inserted(v, w, r, l, s)
    BY InsertFields
  <2>2. QED
    BY <2>1 DEF Inserted
<1>2. q \in Seq(TimerIds)
  BY WheelFields
<1> HIDE DEF v, q
<1>3. /\ Append(q, r)[Len(q) + 1] = r
      /\ \A i \in DOMAIN Append(q, r) : i # Len(q) + 1 => i \in DOMAIN q
      /\ \A i \in DOMAIN q : Append(q, r)[i] = q[i]
  BY <1>2, Appended
<1>4. ASSUME NEW k \in Levels, NEW t \in WheelSlots, NEW i \in DOMAIN v.levels[k][t]
      PROVE  <<k, t, v.deadlines[v.levels[k][t][i]]>> \in A
  <2>1. CASE k = l /\ t = s /\ i = Len(q) + 1
    BY <1>1, <1>3, <2>1
  <2>2. CASE k = l /\ t = s /\ i # Len(q) + 1
    <3>1. i \in DOMAIN w.levels[l][s] /\ v.levels[k][t][i] = w.levels[l][s][i]
      BY <1>1, <1>3, <2>2 DEF q
    <3>2. QED
      BY <1>1, <2>2, <3>1 DEF Placed
  <2>3. CASE ~(k = l /\ t = s)
    BY <1>1, <2>3 DEF Placed
  <2>4. QED
    BY <2>1, <2>2, <2>3
<1>5. QED
  BY <1>4 DEF Placed, v

(***************************************************************************)
(* A timer that comes out of a drained slot.                               *)
(***************************************************************************)
\* Pending timers are due.
AllDue(w, now) == \A i \in DOMAIN w.pending : w.deadlines[w.pending[i]] <= now

\* What making a timer pending does, field by field.
Queued(v, w, r) ==
  /\ v \in Wheels /\ v.levels = w.levels /\ v.elapsed = w.elapsed /\ v.deadlines = w.deadlines
  /\ v.level_counts = w.level_counts /\ v.pending = Append(w.pending, r)
  /\ \A q \in TimerIds : v.positions[q] = IF q = r THEN NoPos ELSE w.positions[q]

\* The update that Cascade makes for a due timer does that.
LEMMA QueueFields ==
  ASSUME NEW w \in Wheels, NEW r \in TimerIds
  PROVE  Queued([w EXCEPT !.positions[r] = NoPos, !.pending = Append(@, r)], w, r)
<1> DEFINE v == [w EXCEPT !.positions[r] = NoPos, !.pending = Append(@, r)]
           a == [w.positions EXCEPT ![r] = NoPos]
           b == Append(w.pending, r)
<1>1. v = [w EXCEPT !.positions = a, !.pending = b]
  BY DEF Wheels
<1>2. a \in [TimerIds -> Positions] /\ b \in Seq(TimerIds)
  BY WheelFields DEF Positions
<1>3. \A q \in TimerIds : a[q] = IF q = r THEN NoPos ELSE w.positions[q]
  BY WheelFields
<1> HIDE DEF a, b, v
<1>4. v \in Wheels
  BY <1>1, <1>2, WheelFields DEF Wheels
<1>5. /\ v.levels = w.levels /\ v.elapsed = w.elapsed /\ v.deadlines = w.deadlines
      /\ v.level_counts = w.level_counts /\ v.pending = b /\ v.positions = a
  BY <1>1 DEF Wheels
<1>6. Queued(v, w, r)
  BY <1>3, <1>4, <1>5 DEF Queued, b
<1>7. QED
  BY <1>6 DEF v

\* Cascade answers a wheel of the same time.
LEMMA CascadeType ==
  ASSUME NEW w \in Wheels, NEW r \in TimerIds, NEW now \in Nat
  PROVE  Cascade(w, r, now) \in Wheels /\ Cascade(w, r, now).elapsed = w.elapsed
<1>1. w.deadlines[r] \in Nat
  BY WheelFields
<1>2. CASE w.deadlines[r] = NoTimer
  BY <1>2 DEF Cascade
<1>3. CASE w.deadlines[r] # NoTimer /\ w.deadlines[r] <= now
  <2>1. Cascade(w, r, now) = [w EXCEPT !.positions[r] = NoPos, !.pending = Append(@, r)]
    BY <1>3 DEF Cascade
  <2>2. QED
    BY <2>1, QueueFields DEF Queued
<1>4. CASE w.deadlines[r] # NoTimer /\ now < w.deadlines[r]
  <2>1. Cascade(w, r, now) = wheel_insert_inner(w, r, w.deadlines[r], now)
    BY <1>1, <1>4 DEF Cascade
  <2>2. PICK l \in Levels, s \in WheelSlots : level_slot(w.deadlines[r], now) = <<l, s>>
    BY <1>1, <1>4, LevelSlot
  <2>3. Inserted(Cascade(w, r, now), w, r, l, s)
    BY <2>1, <2>2, InsertFields
  <2>4. QED
    BY <2>3 DEF Inserted
<1>5. QED
  BY <1>1, <1>2, <1>3, <1>4

\* Making a timer pending takes it out of limbo and keeps the bookkeeping.
LEMMA QueueSound ==
  ASSUME NEW w, NEW X, Sound(w, X), NEW r \in X, NEW v, Queued(v, w, r)
  PROVE  Sound(v, X \ {r})
<1> DEFINE Y == X \ {r}
<1>1. w \in Wheels /\ SlotsOk(w, X) /\ PositionsOk(w, X) /\ DeadlinesOk(w, X) /\ PendingOk(w, X)
      /\ LimboOk(w, X) /\ CountsOk(w) /\ r \in TimerIds
  BY DEF Sound, LimboOk
<1>2. /\ v \in Wheels /\ v.levels = w.levels /\ v.elapsed = w.elapsed /\ v.deadlines = w.deadlines
      /\ v.level_counts = w.level_counts /\ v.pending = Append(w.pending, r)
      /\ \A q \in TimerIds : v.positions[q] = IF q = r THEN NoPos ELSE w.positions[q]
  BY DEF Queued
<1>3. w.pending \in Seq(TimerIds)
  BY <1>1, WheelFields
<1>4. LET q == w.pending
      IN /\ Len(q) + 1 \in DOMAIN Append(q, r) /\ DOMAIN q \subseteq DOMAIN Append(q, r)
         /\ Append(q, r)[Len(q) + 1] = r
         /\ \A i \in DOMAIN Append(q, r) : i # Len(q) + 1 => i \in DOMAIN q
         /\ \A i \in DOMAIN q : i # Len(q) + 1 /\ Append(q, r)[i] = q[i]
  BY <1>1, <1>3, Appended
<1>5. SlotsOk(v, Y)
  <2> SUFFICES ASSUME NEW k \in Levels, NEW t \in WheelSlots, NEW i \in DOMAIN w.levels[k][t]
               PROVE  /\ w.levels[k][t][i] \notin Y /\ v.positions[w.levels[k][t][i]] = <<k, t, i>>
                      /\ w.deadlines[w.levels[k][t][i]] # NoTimer
    BY <1>2 DEF SlotsOk
  <2>1. w.levels[k][t][i] \in TimerIds
    BY <1>1, SlotEntry
  <2>2. /\ w.levels[k][t][i] \notin X /\ w.positions[w.levels[k][t][i]] = <<k, t, i>>
        /\ w.deadlines[w.levels[k][t][i]] # NoTimer
    BY <1>1 DEF SlotsOk
  <2>3. QED
    BY <1>2, <2>1, <2>2
<1>6. PositionsOk(v, Y)
  BY <1>1, <1>2 DEF PositionsOk
<1>7. DeadlinesOk(v, Y)
  <2> SUFFICES ASSUME NEW q \in TimerIds \ Y, w.deadlines[q] # NoTimer, v.positions[q] = NoPos
               PROVE  \E i \in DOMAIN v.pending : v.pending[i] = q
    BY <1>2 DEF DeadlinesOk
  <2>1. CASE q = r
    BY <1>2, <1>4, <2>1
  <2>2. CASE q # r
    <3>1. PICK i \in DOMAIN w.pending : w.pending[i] = q
      BY <1>1, <1>2, <2>2 DEF DeadlinesOk
    <3>2. QED
      BY <1>2, <1>4, <3>1
  <2>3. QED
    BY <2>1, <2>2
<1>8. PendingOk(v, Y)
  <2>1. \A i \in DOMAIN w.pending : w.pending[i] \in TimerIds /\ w.pending[i] # r
    BY <1>1, <1>3 DEF PendingOk
  <2> SUFFICES ASSUME NEW i \in DOMAIN v.pending
               PROVE  /\ v.pending[i] \notin Y /\ v.positions[v.pending[i]] = NoPos
                      /\ v.deadlines[v.pending[i]] # NoTimer
                      /\ \A j \in DOMAIN v.pending : v.pending[j] = v.pending[i] => j = i
    BY DEF PendingOk
  <2>2. CASE i = Len(w.pending) + 1
    <3>1. v.pending[i] = r /\ \A j \in DOMAIN v.pending : v.pending[j] = r => j = i
      BY <1>2, <1>4, <2>1, <2>2
    <3>2. QED
      BY <1>1, <1>2, <3>1 DEF LimboOk
  <2>3. CASE i # Len(w.pending) + 1
    <3>1. i \in DOMAIN w.pending /\ v.pending[i] = w.pending[i]
      BY <1>2, <1>4, <2>3
    <3>2. \A j \in DOMAIN v.pending : v.pending[j] = v.pending[i] => j = i
      BY <1>1, <1>2, <1>4, <2>1, <3>1 DEF PendingOk
    <3>3. w.pending[i] \notin X /\ w.positions[w.pending[i]] = NoPos /\ w.deadlines[w.pending[i]] # NoTimer
      BY <1>1, <3>1 DEF PendingOk
    <3>4. QED
      BY <1>2, <2>1, <3>1, <3>2, <3>3
  <2>4. QED
    BY <2>2, <2>3
<1>9. LimboOk(v, Y)
  BY <1>1, <1>2 DEF LimboOk
<1>10. CountsOk(v)
  BY <1>1, <1>2 DEF CountsOk, On
<1>11. QED
  BY <1>2, <1>5, <1>6, <1>7, <1>8, <1>9, <1>10 DEF Sound

\* A timer out of a drained slot becomes due or gets a place that is right for the
\* new time.
LEMMA CascadeStep ==
  ASSUME NEW w, NEW X, Sound(w, X), NEW r \in X, NEW now \in Nat, NEW A, PlacedAt(now) \subseteq A,
         Placed(w, A), AllDue(w, now), NEW v, v = Cascade(w, r, now)
  PROVE  /\ Sound(v, X \ {r}) /\ Placed(v, A) /\ AllDue(v, now)
         /\ v.deadlines = w.deadlines /\ v.elapsed = w.elapsed
<1>1. w \in Wheels /\ r \in TimerIds /\ w.deadlines[r] # NoTimer
  BY DEF Sound, LimboOk
<1>2. w.deadlines[r] \in Nat
  BY <1>1, WheelFields
<1>3. CASE w.deadlines[r] <= now
  <2>1. v = [w EXCEPT !.positions[r] = NoPos, !.pending = Append(@, r)]
    BY <1>1, <1>3 DEF Cascade
  <2>2. Queued(v, w, r)
    BY <1>1, <2>1, QueueFields
  <2>3. Sound(v, X \ {r})
    BY <2>2, QueueSound
  <2>4. Placed(v, A)
    BY <2>2 DEF Queued, Placed
  <2>5. AllDue(v, now)
    <3>1. w.pending \in Seq(TimerIds)
      BY <1>1, WheelFields
    <3>2. LET q == w.pending
          IN /\ Append(q, r)[Len(q) + 1] = r
             /\ \A i \in DOMAIN Append(q, r) : i # Len(q) + 1 => i \in DOMAIN q
             /\ \A i \in DOMAIN q : i # Len(q) + 1 /\ Append(q, r)[i] = q[i]
      BY <1>1, <3>1, Appended
    <3>3. v.pending = Append(w.pending, r) /\ v.deadlines = w.deadlines
      BY <2>2 DEF Queued
    <3>4. QED
      BY <1>3, <3>2, <3>3 DEF AllDue
  <2>6. QED
    BY <2>2, <2>3, <2>4, <2>5 DEF Queued
<1>4. CASE now < w.deadlines[r]
  <2>1. v = wheel_insert_inner(w, r, w.deadlines[r], now)
    BY <1>1, <1>2, <1>4 DEF Cascade
  <2>2. PICK l \in Levels, s \in WheelSlots :
          level_slot(w.deadlines[r], now) = <<l, s>> /\ <<l, s, w.deadlines[r]>> \in PlacedAt(now)
    BY <1>2, <1>4, LevelSlot
  <2>3. Inserted(v, w, r, l, s)
    BY <1>1, <2>1, <2>2, InsertFields
  <2>4. Sound(v, X \ {r})
    BY <2>1, <2>2, InsertSound
  <2>5. Placed(v, A)
    BY <1>1, <2>1, <2>2, InsertPlaced
  <2>6. QED
    BY <2>3, <2>4, <2>5 DEF Inserted, AllDue
<1>5. QED
  BY <1>2, <1>3, <1>4

(***************************************************************************)
(* A slot that is drained.                                                 *)
(***************************************************************************)
\* A wheel one of whose slots was taken away whole.
Emptied(w, l, s) == [w EXCEPT !.levels[l][s] = <<>>, !.level_counts[l] = @ - Len(w.levels[l][s])]

\* What taking a slot away does, field by field.
LEMMA EmptiedFields ==
  ASSUME NEW w \in Wheels, NEW l \in Levels, NEW s \in WheelSlots, NEW v, v = Emptied(w, l, s)
  PROVE  /\ v \in Wheels /\ v.elapsed = w.elapsed /\ v.pending = w.pending /\ v.deadlines = w.deadlines
         /\ v.positions = w.positions
         /\ \A k \in Levels, t \in WheelSlots :
              v.levels[k][t] = IF k = l /\ t = s THEN <<>> ELSE w.levels[k][t]
         /\ \A k \in Levels :
              v.level_counts[k] = IF k = l THEN w.level_counts[l] - Len(w.levels[l][s]) ELSE w.level_counts[k]
<1> DEFINE a == [w.levels EXCEPT ![l][s] = <<>>]
           n == Len(w.levels[l][s])
           b == [w.level_counts EXCEPT ![l] = w.level_counts[l] - n]
<1>1. v = [w EXCEPT !.levels = a, !.level_counts = b]
  BY DEF Wheels, Emptied
<1>2. n \in Nat
  <2>1. w.levels[l][s] \in Seq(TimerIds)
    BY WheelFields
  <2>2. QED
    BY <2>1
<1>3. a \in [Levels -> [WheelSlots -> Seq(TimerIds)]]
  BY WheelFields
<1>4. b \in [Levels -> Int]
  <2> HIDE DEF n
  <2>1. QED
    BY <1>2, WheelFields
<1>5. \A k \in Levels, t \in WheelSlots : a[k][t] = IF k = l /\ t = s THEN <<>> ELSE w.levels[k][t]
  BY WheelFields
<1>6. \A k \in Levels : b[k] = IF k = l THEN w.level_counts[l] - n ELSE w.level_counts[k]
  BY WheelFields
<1> HIDE DEF a, b, n
<1>7. v \in Wheels
  BY <1>1, <1>3, <1>4, WheelFields DEF Wheels
<1>8. /\ v.levels = a /\ v.elapsed = w.elapsed /\ v.deadlines = w.deadlines
      /\ v.level_counts = b /\ v.pending = w.pending /\ v.positions = w.positions
  BY <1>1 DEF Wheels
<1>9. QED
  BY <1>5, <1>6, <1>7, <1>8 DEF n

\* The timers of a slot from position i on.
From(q, i) == {q[j] : j \in {k \in DOMAIN q : i <= k}}

\* The timers of a slot that is taken away are in limbo, the rest is as it was.
LEMMA EmptiedSound ==
  ASSUME NEW w, Sound(w, {}), NEW l \in Levels, NEW s \in WheelSlots, NEW v, v = Emptied(w, l, s)
  PROVE  Sound(v, From(w.levels[l][s], 1))
<1> DEFINE q == w.levels[l][s]
           Y == From(q, 1)
<1>1. w \in Wheels /\ SlotsOk(w, {}) /\ PositionsOk(w, {}) /\ DeadlinesOk(w, {}) /\ PendingOk(w, {})
      /\ CountsOk(w)
  BY DEF Sound
<1>2. /\ v \in Wheels /\ v.elapsed = w.elapsed /\ v.pending = w.pending /\ v.deadlines = w.deadlines
      /\ v.positions = w.positions
      /\ \A k \in Levels, t \in WheelSlots :
           v.levels[k][t] = IF k = l /\ t = s THEN <<>> ELSE w.levels[k][t]
      /\ \A k \in Levels :
           v.level_counts[k] = IF k = l THEN w.level_counts[l] - Len(q) ELSE w.level_counts[k]
  BY <1>1, EmptiedFields
<1>3. q \in Seq(TimerIds) /\ Len(q) \in Nat /\ DOMAIN q = 1..Len(q) /\ \A i \in DOMAIN q : q[i] \in TimerIds
  <2>1. q \in Seq(TimerIds)
    BY <1>1, WheelFields
  <2>2. QED
    BY <2>1
<1>4. \A i \in DOMAIN q : w.positions[q[i]] = <<l, s, i>> /\ w.deadlines[q[i]] # NoTimer
  BY <1>1 DEF SlotsOk
<1> HIDE DEF q
<1>5. \A r : r \in Y <=> \E i \in DOMAIN q : q[i] = r
  BY <1>3 DEF From
<1>6. Y \subseteq TimerIds /\ \A r \in Y : w.positions[r] # NoPos
  <2>1. ASSUME NEW r \in Y PROVE r \in TimerIds /\ w.positions[r] # NoPos
    <3>1. PICK i \in DOMAIN q : q[i] = r
      BY <1>5
    <3>2. <<l, s, i>> # NoPos
      BY PositionFacts
    <3>3. QED
      BY <1>3, <1>4, <3>1, <3>2
  <2>2. QED
    BY <2>1
<1> HIDE DEF Y
<1>7. ASSUME NEW k \in Levels, NEW t \in WheelSlots, NEW i \in DOMAIN v.levels[k][t]
      PROVE  /\ ~(k = l /\ t = s) /\ v.levels[k][t] = w.levels[k][t] /\ i \in DOMAIN w.levels[k][t]
  BY <1>2
<1>8. SlotsOk(v, Y)
  <2> SUFFICES ASSUME NEW k \in Levels, NEW t \in WheelSlots, NEW i \in DOMAIN v.levels[k][t]
               PROVE  /\ v.levels[k][t][i] \notin Y /\ v.positions[v.levels[k][t][i]] = <<k, t, i>>
                      /\ v.deadlines[v.levels[k][t][i]] # NoTimer
    BY DEF SlotsOk
  <2>1. /\ ~(k = l /\ t = s) /\ v.levels[k][t] = w.levels[k][t] /\ i \in DOMAIN w.levels[k][t]
    BY <1>7
  <2>2. w.positions[w.levels[k][t][i]] = <<k, t, i>> /\ w.deadlines[w.levels[k][t][i]] # NoTimer
    BY <1>1, <2>1 DEF SlotsOk
  <2>3. w.levels[k][t][i] \notin Y
    <3>1. SUFFICES ASSUME NEW j \in DOMAIN q, q[j] = w.levels[k][t][i] PROVE FALSE
      BY <1>5
    <3>2. <<k, t, i>> = <<l, s, j>>
      BY <1>4, <2>2, <3>1
    <3>3. QED
      BY <2>1, <3>2, PositionFacts
  <2>4. QED
    BY <1>2, <2>1, <2>2, <2>3
<1>9. PositionsOk(v, Y)
  <2> SUFFICES ASSUME NEW p \in TimerIds \ Y, w.positions[p] # NoPos
               PROVE  \E k \in Levels, t \in WheelSlots : \E i \in DOMAIN v.levels[k][t] :
                        w.positions[p] = <<k, t, i>> /\ v.levels[k][t][i] = p
    BY <1>2 DEF PositionsOk
  <2>1. PICK k \in Levels, t \in WheelSlots : \E i \in DOMAIN w.levels[k][t] :
              w.positions[p] = <<k, t, i>> /\ w.levels[k][t][i] = p
    BY <1>1 DEF PositionsOk
  <2>2. ~(k = l /\ t = s)
    BY <1>5, <2>1 DEF q
  <2>3. QED
    BY <1>2, <2>1, <2>2
<1>10. DeadlinesOk(v, Y)
  BY <1>1, <1>2 DEF DeadlinesOk
<1>11. PendingOk(v, Y)
  BY <1>1, <1>2, <1>6 DEF PendingOk
<1>12. LimboOk(v, Y)
  BY <1>2, <1>4, <1>5, <1>6 DEF LimboOk
<1>13. CountsOk(v)
  <2> SUFFICES ASSUME NEW k \in Levels
               PROVE  IsFiniteSet(On(v, k)) /\ v.level_counts[k] = Cardinality(On(v, k))
    BY DEF CountsOk
  <2>1. IsFiniteSet(On(w, k)) /\ w.level_counts[k] = Cardinality(On(w, k))
    BY <1>1 DEF CountsOk
  <2>2. CASE k = l
    <3>1. On(v, l) = On(w, l) \ Y
      <4>1. ASSUME NEW p \in On(v, l) PROVE p \in On(w, l) \ Y
        <5>1. PICK t \in WheelSlots : \E i \in DOMAIN v.levels[l][t] : v.levels[l][t][i] = p
          BY <4>1 DEF On
        <5>2. PICK i \in DOMAIN v.levels[l][t] : v.levels[l][t][i] = p
          BY <5>1
        <5>3. p \notin Y
          BY <1>8, <5>2 DEF SlotsOk
        <5>4. v.levels[l][t] = w.levels[l][t]
          BY <1>7, <5>2
        <5>5. QED
          BY <4>1, <5>2, <5>3, <5>4 DEF On
      <4>2. ASSUME NEW p \in On(w, l), p \notin Y PROVE p \in On(v, l)
        <5>1. PICK t \in WheelSlots : \E i \in DOMAIN w.levels[l][t] : w.levels[l][t][i] = p
          BY <4>2 DEF On
        <5>2. t # s
          BY <1>5, <4>2, <5>1 DEF q
        <5>3. v.levels[l][t] = w.levels[l][t]
          BY <1>2, <5>2
        <5>4. QED
          BY <4>2, <5>1, <5>3 DEF On
      <4>3. QED
        BY <4>1, <4>2
    <3>2. Y \subseteq On(w, l)
      BY <1>5, <1>6 DEF On, q
    <3>3. Cardinality(Y) = Len(q)
      <4> DEFINE f == [i \in 1..Len(q) |-> q[i]]
      <4>1. f \in [1..Len(q) -> Y]
        BY <1>3, <1>5
      <4>2. IsInjective(f)
        <5>1. ASSUME NEW i \in 1..Len(q), NEW j \in 1..Len(q), f[i] = f[j] PROVE i = j
          <6>1. <<l, s, i>> = <<l, s, j>>
            BY <1>3, <1>4, <5>1
          <6>2. QED
            BY <6>1, PositionFacts
        <5>2. QED
          BY <5>1 DEF IsInjective
      <4>3. f \in Surjection(1..Len(q), Y)
        BY <1>3, <1>5, <4>1 DEF Surjection
      <4>4. ExistsBijection(1..Len(q), Y)
        BY <4>1, <4>2, <4>3, Zenon DEF ExistsBijection, Bijection, Injection
      <4>5. IsFiniteSet(1..Len(q)) /\ Cardinality(1..Len(q)) = Len(q)
        <5>1. IsFiniteSet(1..Len(q)) /\ Cardinality(1..Len(q)) = IF 1 > Len(q) THEN 0 ELSE Len(q) - 1 + 1
          BY <1>3, FS_Interval
        <5>2. QED
          BY <1>3, <5>1
      <4>6. QED
        BY <4>4, <4>5, FS_Bijection
    <3>4. On(w, l) \cap Y = Y
      BY <3>2
    <3>5. IsFiniteSet(On(v, l)) /\ Cardinality(On(v, l)) = Cardinality(On(w, l)) - Len(q)
      <4>1. /\ IsFiniteSet(On(w, l) \ Y)
            /\ Cardinality(On(w, l) \ Y) = Cardinality(On(w, l)) - Cardinality(On(w, l) \cap Y)
        BY <2>1, <2>2, FS_Difference
      <4>2. QED
        BY <3>1, <3>3, <3>4, <4>1
    <3>6. QED
      BY <1>2, <2>1, <2>2, <3>5
  <2>3. CASE k # l
    <3>1. On(v, k) = On(w, k)
      BY <1>2, <2>3 DEF On
    <3>2. QED
      BY <1>2, <2>1, <2>3, <3>1
  <2>4. QED
    BY <2>2, <2>3
<1>14. QED
  BY <1>2, <1>8, <1>9, <1>10, <1>11, <1>12, <1>13 DEF Sound, Y, q

\* What DrainSlot computes, round by round.
LEMMA SlotRounds ==
  ASSUME NEW w \in Wheels, NEW l \in Levels, NEW s \in WheelSlots, NEW now \in Nat
  PROVE  LET n == Len(w.levels[l][s])
         IN \E f : /\ f \in [0..n -> Wheels] /\ f[0] = Emptied(w, l, s)
                   /\ \A i \in 1..n : f[i] = Cascade(f[i - 1], w.levels[l][s][i], now)
                   /\ DrainSlot(w, l, s, now) = f[n]
<1> DEFINE q == w.levels[l][s]
           n == Len(q)
           op == [z \in Wheels \X (1..n) |-> Cascade(z[1], q[z[2]], now)]
           E(f) == f = [i \in 0..n |-> IF i = 0 THEN [w EXCEPT !.levels[l][s] = <<>>, !.level_counts[l] = @ - n]
                                       ELSE Cascade(f[i - 1], q[i], now)]
           g == CHOOSE f : E(f)
<1>1. q \in Seq(TimerIds) /\ n \in Nat /\ \A i \in 1..n : q[i] \in TimerIds
  <2>1. q \in Seq(TimerIds)
    BY WheelFields
  <2> HIDE DEF q
  <2>2. QED
    BY <2>1
<1>2. DrainSlot(w, l, s, now) = g[n]
  BY Zenon DEF DrainSlot
<1>3. \A f : E(f) <=> f = [i \in 0..n |-> IF i = 0 THEN Emptied(w, l, s) ELSE Cascade(f[i - 1], q[i], now)]
  BY Zenon DEF Emptied
<1>4. Emptied(w, l, s) \in Wheels
  BY EmptiedFields
<1> HIDE DEF E, q, n
<1>5. op \in [Wheels \X (1..n) -> Wheels]
  <2>1. ASSUME NEW z \in Wheels \X (1..n) PROVE Cascade(z[1], q[z[2]], now) \in Wheels
    <3>1. z[1] \in Wheels /\ q[z[2]] \in TimerIds
      BY <1>1
    <3>2. QED
      BY <3>1, CascadeType
  <2>2. QED
    BY <2>1
<1>6. \E f : E(f)
  <2>1. PICK f : Loop(f, n, Wheels, Emptied(w, l, s), op)
    <3> HIDE DEF op
    <3>1. QED
      BY <1>1, <1>4, <1>5, Recursion
  <2>2. f \in [0..n -> Wheels] /\ f[0] = Emptied(w, l, s) /\ \A i \in 1..n : f[i] = op[<<f[i - 1], i>>]
    BY <2>1 DEF Loop
  <2>3. ASSUME NEW i \in 1..n PROVE f[i] = Cascade(f[i - 1], q[i], now)
    <3>1. i - 1 \in 0..n
      BY <1>1
    <3>2. <<f[i - 1], i>> \in Wheels \X (1..n)
      BY <2>2, <3>1
    <3>3. op[<<f[i - 1], i>>] = Cascade(f[i - 1], q[i], now)
      BY <3>2
    <3>4. QED
      BY <2>2, <3>3
  <2>4. ASSUME NEW i \in 0..n PROVE f[i] = IF i = 0 THEN Emptied(w, l, s) ELSE Cascade(f[i - 1], q[i], now)
    BY <1>1, <2>2, <2>3
  <2>5. f = [i \in 0..n |-> IF i = 0 THEN Emptied(w, l, s) ELSE Cascade(f[i - 1], q[i], now)]
    BY <2>2, <2>4
  <2>6. QED
    BY <1>3, <2>5, Zenon
<1>7. E(g)
  BY <1>6, Zenon
<1> HIDE DEF g
<1>8. g = [i \in 0..n |-> IF i = 0 THEN Emptied(w, l, s) ELSE Cascade(g[i - 1], q[i], now)]
  BY <1>3, <1>7, Zenon
<1>9. g[0] = Emptied(w, l, s) /\ \A i \in 1..n : g[i] = Cascade(g[i - 1], q[i], now)
  BY <1>1, <1>8
<1>10. g \in [0..n -> Wheels]
  <2> DEFINE T == {i \in 0..n : g[i] \in Wheels}
  <2>1. 0 \in T
    BY <1>1, <1>4, <1>9
  <2>2. ASSUME NEW i \in 1..n, i - 1 \in T PROVE i \in T
    <3>1. g[i] \in Wheels
      BY <1>1, <1>9, <2>2, CascadeType
    <3>2. QED
      BY <1>1, <3>1
  <2>3. \A i \in 0..n : i \in T
    <3> HIDE DEF T
    <3>1. QED
      BY <1>1, <2>1, <2>2, Steps
  <2>4. QED
    BY <1>8, <2>3
<1>11. QED
  BY <1>2, <1>9, <1>10 DEF n, q

\* DrainSlot answers a wheel of the same time.
LEMMA DrainSlotType ==
  ASSUME NEW w \in Wheels, NEW l \in Levels, NEW s \in WheelSlots, NEW now \in Nat
  PROVE  DrainSlot(w, l, s, now) \in Wheels /\ DrainSlot(w, l, s, now).elapsed = w.elapsed
<1> DEFINE q == w.levels[l][s]
           n == Len(q)
<1>1. q \in Seq(TimerIds) /\ n \in Nat /\ \A i \in 1..n : q[i] \in TimerIds
  <2>1. q \in Seq(TimerIds)
    BY WheelFields
  <2> HIDE DEF q
  <2>2. QED
    BY <2>1
<1>2. PICK f : /\ f \in [0..n -> Wheels] /\ f[0] = Emptied(w, l, s)
               /\ \A i \in 1..n : f[i] = Cascade(f[i - 1], q[i], now)
               /\ DrainSlot(w, l, s, now) = f[n]
  BY SlotRounds
<1> HIDE DEF q, n
<1> DEFINE T == {i \in 0..n : f[i].elapsed = w.elapsed}
<1>3. 0 \in T
  BY <1>1, <1>2, EmptiedFields
<1>4. ASSUME NEW i \in 1..n, i - 1 \in T PROVE i \in T
  <2>1. i - 1 \in 0..n /\ i \in 0..n
    BY <1>1
  <2>2. f[i - 1] \in Wheels /\ f[i - 1].elapsed = w.elapsed /\ q[i] \in TimerIds
    BY <1>1, <1>2, <1>4, <2>1
  <2>3. Cascade(f[i - 1], q[i], now).elapsed = w.elapsed
    BY <2>2, CascadeType
  <2>4. QED
    BY <1>2, <2>1, <2>3
<1>5. \A i \in 0..n : i \in T
  <2> HIDE DEF T
  <2>1. QED
    BY <1>1, <1>3, <1>4, Steps
<1>6. QED
  BY <1>1, <1>2, <1>5

\* Draining a slot leaves in it only timers that are in place at the new time.
LEMMA DrainSlotStep ==
  ASSUME NEW w, Sound(w, {}), NEW l \in Levels, NEW s \in WheelSlots, NEW now \in Nat,
         NEW B, Placed(w, B), NEW A, PlacedAt(now) \subseteq A,
         \A x \in B : x \in A \/ (x[1] = l /\ x[2] = s),
         AllDue(w, now), NEW v, v = DrainSlot(w, l, s, now)
  PROVE  /\ Sound(v, {}) /\ Placed(v, A) /\ AllDue(v, now)
         /\ v.deadlines = w.deadlines /\ v.elapsed = w.elapsed
<1> DEFINE q == w.levels[l][s]
           n == Len(q)
           Inv(u, i) == /\ Sound(u, From(q, i + 1)) /\ Placed(u, A) /\ AllDue(u, now)
                        /\ u.deadlines = w.deadlines /\ u.elapsed = w.elapsed
<1>1. w \in Wheels /\ SlotsOk(w, {})
  BY DEF Sound
<1>2. q \in Seq(TimerIds) /\ n \in Nat /\ DOMAIN q = 1..n
  <2>1. q \in Seq(TimerIds)
    BY <1>1, WheelFields
  <2> HIDE DEF q
  <2>2. QED
    BY <2>1
<1>3. PICK f : /\ f \in [0..n -> Wheels] /\ f[0] = Emptied(w, l, s)
               /\ \A i \in 1..n : f[i] = Cascade(f[i - 1], q[i], now)
               /\ DrainSlot(w, l, s, now) = f[n]
  BY <1>1, SlotRounds
<1>4. ASSUME NEW i \in 1..n, NEW j \in 1..n, q[i] = q[j] PROVE i = j
  <2>1. w.positions[q[i]] = <<l, s, i>> /\ w.positions[q[j]] = <<l, s, j>>
    BY <1>1, <1>2 DEF SlotsOk
  <2>2. <<l, s, i>> = <<l, s, j>>
    BY <1>4, <2>1
  <2>3. QED
    BY <2>2, PositionFacts
<1>5. Inv(f[0], 0)
  <2>1. Sound(f[0], From(q, 1))
    BY <1>3, EmptiedSound
  <2>2. /\ f[0].elapsed = w.elapsed /\ f[0].pending = w.pending /\ f[0].deadlines = w.deadlines
        /\ \A k \in Levels, t \in WheelSlots :
             f[0].levels[k][t] = IF k = l /\ t = s THEN <<>> ELSE w.levels[k][t]
    BY <1>1, <1>3, EmptiedFields
  <2>3. Placed(f[0], A)
    <3>1. ASSUME NEW k \in Levels, NEW t \in WheelSlots, NEW i \in DOMAIN f[0].levels[k][t]
          PROVE  <<k, t, f[0].deadlines[f[0].levels[k][t][i]]>> \in A
      <4>1. ~(k = l /\ t = s) /\ f[0].levels[k][t] = w.levels[k][t]
        BY <2>2
      <4>2. <<k, t, w.deadlines[w.levels[k][t][i]]>> \in B
        BY <4>1 DEF Placed
      <4>3. QED
        BY <2>2, <4>1, <4>2
    <3>2. QED
      BY <3>1 DEF Placed
  <2>4. AllDue(f[0], now)
    BY <2>2 DEF AllDue
  <2>5. 0 + 1 = 1
    OBVIOUS
  <2>6. QED
    BY <2>1, <2>2, <2>3, <2>4, <2>5
<1> HIDE DEF q, n
<1>6. ASSUME NEW i \in 1..n, Inv(f[i - 1], i - 1) PROVE Inv(f[i], i)
  <2>1. q[i] \in From(q, i)
    BY <1>2 DEF From
  <2>2. From(q, i) \ {q[i]} = From(q, i + 1)
    <3>1. ASSUME NEW r \in From(q, i), r # q[i] PROVE r \in From(q, i + 1)
      BY <1>2, <3>1 DEF From
    <3>2. ASSUME NEW r \in From(q, i + 1) PROVE r \in From(q, i) /\ r # q[i]
      <4>1. PICK j \in 1..n : i + 1 <= j /\ r = q[j]
        BY <1>2, <3>2 DEF From
      <4>2. j # i
        BY <1>2, <4>1
      <4>3. r # q[i]
        BY <1>4, <4>1, <4>2
      <4>4. QED
        BY <1>2, <4>1, <4>3 DEF From
    <3>3. QED
      BY <3>1, <3>2
  <2>3. (i - 1) + 1 = i
    OBVIOUS
  <2>4. Sound(f[i - 1], From(q, i)) /\ Placed(f[i - 1], A) /\ AllDue(f[i - 1], now)
        /\ f[i - 1].deadlines = w.deadlines /\ f[i - 1].elapsed = w.elapsed
    BY <1>6, <2>3
  <2>5. f[i] = Cascade(f[i - 1], q[i], now)
    BY <1>3
  <2>6. /\ Sound(f[i], From(q, i) \ {q[i]}) /\ Placed(f[i], A) /\ AllDue(f[i], now)
        /\ f[i].deadlines = f[i - 1].deadlines /\ f[i].elapsed = f[i - 1].elapsed
    BY <2>1, <2>4, <2>5, CascadeStep
  <2>7. QED
    BY <2>2, <2>4, <2>6
<1> DEFINE T == {i \in 0..n : Inv(f[i], i)}
<1> HIDE DEF Inv
<1>7. \A i \in 0..n : i \in T
  <2>1. 0 \in T
    BY <1>2, <1>5
  <2>2. ASSUME NEW i \in 1..n, i - 1 \in T PROVE i \in T
    BY <1>2, <1>6, <2>2
  <2> HIDE DEF T
  <2>3. QED
    BY <1>2, <2>1, <2>2, Steps
<1>8. Inv(v, n)
  BY <1>2, <1>3, <1>7
<1>9. From(q, n + 1) = {}
  BY <1>2 DEF From
<1>10. QED
  BY <1>8, <1>9 DEF Inv

(***************************************************************************)
(* A level that is drained, and all of them.                               *)
(***************************************************************************)
\* How many slots of a level time passes on the way to now, once round at most.
Moved(w, l, now) == Min({Ticks(now, l) - Ticks(w.elapsed, l), WheelSize})

\* That is a number of rounds of a loop over slots.
LEMMA MovedFacts ==
  ASSUME NEW w \in Wheels, NEW l \in Levels, NEW now \in Nat, w.elapsed <= now
  PROVE  /\ Moved(w, l, now) \in Nat /\ Ticks(w.elapsed, l) \in Nat
         /\ \A i \in Nat : (Ticks(w.elapsed, l) + i) % WheelSize \in WheelSlots
<1>1. l \in 0..NumLevels /\ w.elapsed \in Nat /\ WheelSize \in Nat \ {0}
  BY WheelFields, Sizes DEF Levels
<1>2. Ticks(w.elapsed, l) \in Nat /\ Ticks(now, l) \in Nat /\ Ticks(w.elapsed, l) <= Ticks(now, l)
  BY <1>1, TicksFacts, TicksMono
<1>3. Ticks(now, l) - Ticks(w.elapsed, l) \in Nat
  BY <1>2
<1>4. Moved(w, l, now) \in Nat
  BY <1>1, <1>3, LeastOfTwo DEF Moved
<1>5. ASSUME NEW i \in Nat PROVE (Ticks(w.elapsed, l) + i) % WheelSize \in WheelSlots
  BY <1>1, <1>2 DEF WheelSlots
<1>6. QED
  BY <1>2, <1>4, <1>5

\* What DrainLevel computes, round by round.
LEMMA LevelRounds ==
  ASSUME NEW w \in Wheels, NEW l \in Levels, NEW now \in Nat, w.elapsed <= now
  PROVE  LET n == Moved(w, l, now)
         IN \E f : /\ f \in [0..n -> Wheels] /\ f[0] = w
                   /\ \A i \in 1..n :
                        f[i] = DrainSlot(f[i - 1], l, (Ticks(w.elapsed, l) + i) % WheelSize, now)
                   /\ DrainLevel(w, l, now) = f[n]
<1> DEFINE old == Ticks(w.elapsed, l)
           n == Min({Ticks(now, l) - old, WheelSize})
           S(i) == (old + i) % WheelSize
           op == [z \in Wheels \X (1..n) |-> DrainSlot(z[1], l, S(z[2]), now)]
           E(f) == f = [i \in 0..n |-> IF i = 0 THEN w ELSE DrainSlot(f[i - 1], l, (old + i) % WheelSize, now)]
           g == CHOOSE f : E(f)
<1>1. n \in Nat /\ n = Moved(w, l, now) /\ \A i \in Nat : S(i) \in WheelSlots
  BY MovedFacts DEF Moved
<1>2. DrainLevel(w, l, now) = g[n]
  BY Zenon DEF DrainLevel
<1>3. \A f : E(f) <=> f = [i \in 0..n |-> IF i = 0 THEN w ELSE DrainSlot(f[i - 1], l, S(i), now)]
  BY Zenon
<1> HIDE DEF E, S, n
<1>4. op \in [Wheels \X (1..n) -> Wheels]
  <2>1. ASSUME NEW z \in Wheels \X (1..n) PROVE DrainSlot(z[1], l, S(z[2]), now) \in Wheels
    <3>1. z[1] \in Wheels /\ S(z[2]) \in WheelSlots
      BY <1>1
    <3>2. QED
      BY <3>1, DrainSlotType
  <2>2. QED
    BY <2>1
<1>5. \E f : E(f)
  <2>1. PICK f : Loop(f, n, Wheels, w, op)
    <3> HIDE DEF op
    <3>1. QED
      BY <1>1, <1>4, Recursion
  <2>2. f \in [0..n -> Wheels] /\ f[0] = w /\ \A i \in 1..n : f[i] = op[<<f[i - 1], i>>]
    BY <2>1 DEF Loop
  <2>3. ASSUME NEW i \in 1..n PROVE f[i] = DrainSlot(f[i - 1], l, S(i), now)
    <3>1. i - 1 \in 0..n
      BY <1>1
    <3>2. <<f[i - 1], i>> \in Wheels \X (1..n)
      BY <2>2, <3>1
    <3>3. op[<<f[i - 1], i>>] = DrainSlot(f[i - 1], l, S(i), now)
      BY <3>2
    <3>4. QED
      BY <2>2, <3>3
  <2>4. ASSUME NEW i \in 0..n PROVE f[i] = IF i = 0 THEN w ELSE DrainSlot(f[i - 1], l, S(i), now)
    BY <1>1, <2>2, <2>3
  <2>5. f = [i \in 0..n |-> IF i = 0 THEN w ELSE DrainSlot(f[i - 1], l, S(i), now)]
    BY <2>2, <2>4
  <2>6. QED
    BY <1>3, <2>5, Zenon
<1>6. E(g)
  BY <1>5, Zenon
<1> HIDE DEF g
<1>7. g = [i \in 0..n |-> IF i = 0 THEN w ELSE DrainSlot(g[i - 1], l, S(i), now)]
  BY <1>3, <1>6, Zenon
<1>8. g[0] = w /\ \A i \in 1..n : g[i] = DrainSlot(g[i - 1], l, S(i), now)
  BY <1>1, <1>7
<1>9. g \in [0..n -> Wheels]
  <2> DEFINE T == {i \in 0..n : g[i] \in Wheels}
  <2>1. 0 \in T
    BY <1>1, <1>8
  <2>2. ASSUME NEW i \in 1..n, i - 1 \in T PROVE i \in T
    <3>1. g[i - 1] \in Wheels /\ S(i) \in WheelSlots
      BY <1>1, <2>2
    <3>2. g[i] \in Wheels
      BY <1>8, <3>1, DrainSlotType
    <3>3. QED
      BY <1>1, <3>2
  <2>3. \A i \in 0..n : i \in T
    <3> HIDE DEF T
    <3>1. QED
      BY <1>1, <2>1, <2>2, Steps
  <2>4. QED
    BY <1>7, <2>3
<1>10. QED
  BY <1>1, <1>2, <1>8, <1>9 DEF S

\* DrainLevel answers a wheel of the same time.
LEMMA DrainLevelType ==
  ASSUME NEW w \in Wheels, NEW l \in Levels, NEW now \in Nat, w.elapsed <= now
  PROVE  DrainLevel(w, l, now) \in Wheels /\ DrainLevel(w, l, now).elapsed = w.elapsed
<1> DEFINE n == Moved(w, l, now)
           S(i) == (Ticks(w.elapsed, l) + i) % WheelSize
<1>1. n \in Nat /\ \A i \in Nat : S(i) \in WheelSlots
  BY MovedFacts
<1>2. PICK f : /\ f \in [0..n -> Wheels] /\ f[0] = w
               /\ \A i \in 1..n : f[i] = DrainSlot(f[i - 1], l, S(i), now)
               /\ DrainLevel(w, l, now) = f[n]
  BY LevelRounds
<1> HIDE DEF n, S
<1> DEFINE T == {i \in 0..n : f[i].elapsed = w.elapsed}
<1>3. 0 \in T
  BY <1>1, <1>2
<1>4. ASSUME NEW i \in 1..n, i - 1 \in T PROVE i \in T
  <2>1. i - 1 \in 0..n /\ i \in 0..n
    BY <1>1
  <2>2. f[i - 1] \in Wheels /\ f[i - 1].elapsed = w.elapsed /\ S(i) \in WheelSlots
    BY <1>1, <1>2, <1>4, <2>1
  <2>3. DrainSlot(f[i - 1], l, S(i), now).elapsed = w.elapsed
    BY <2>2, DrainSlotType
  <2>4. QED
    BY <1>2, <2>1, <2>3
<1>5. \A i \in 0..n : i \in T
  <2> HIDE DEF T
  <2>1. QED
    BY <1>1, <1>3, <1>4, Steps
<1>6. QED
  BY <1>1, <1>2, <1>5

\* Timers that are where A allows are where a larger set does.
LEMMA PlacedMono ==
  ASSUME NEW w, NEW A, NEW B, Placed(w, A), A \subseteq B
  PROVE  Placed(w, B)
BY DEF Placed

\* Where timers may be while time goes from e to now, once the levels below l are
\* done.
OnTheWay(e, now, l) == {x \in PlacedAt(e) : l <= x[1]} \cup PlacedAt(now)

\* Draining level l leaves its timers, and those below, where they may be at now: the
\* slots that time does not pass hold nothing it overtakes, by NotDrained.
LEMMA DrainLevelStep ==
  ASSUME NEW w, Sound(w, {}), NEW l \in Levels, NEW now \in Nat, w.elapsed <= now,
         Placed(w, OnTheWay(w.elapsed, now, l)), AllDue(w, now), NEW v, v = DrainLevel(w, l, now)
  PROVE  /\ Sound(v, {}) /\ Placed(v, OnTheWay(w.elapsed, now, l + 1)) /\ AllDue(v, now)
         /\ v.deadlines = w.deadlines /\ v.elapsed = w.elapsed
<1> DEFINE e == w.elapsed
           n == Moved(w, l, now)
           S(i) == (Ticks(e, l) + i) % WheelSize
           A(i) == {x \in PlacedAt(e) : l <= x[1] /\ ~(x[1] = l /\ \E j \in 1..i : x[2] = S(j))} \cup PlacedAt(now)
           Inv(u, i) == /\ Sound(u, {}) /\ Placed(u, A(i)) /\ AllDue(u, now)
                        /\ u.deadlines = w.deadlines /\ u.elapsed = e
<1>1. w \in Wheels /\ e \in Nat
  BY WheelFields DEF Sound
<1>2. n \in Nat /\ \A i \in Nat : S(i) \in WheelSlots
  BY <1>1, MovedFacts
<1>3. PICK f : /\ f \in [0..n -> Wheels] /\ f[0] = w
               /\ \A i \in 1..n : f[i] = DrainSlot(f[i - 1], l, S(i), now)
               /\ DrainLevel(w, l, now) = f[n]
  BY <1>1, LevelRounds
<1>4. A(n) \subseteq OnTheWay(e, now, l + 1)
  <2> SUFFICES ASSUME NEW x \in PlacedAt(e), l <= x[1], ~(x[1] = l /\ \E j \in 1..n : x[2] = S(j))
               PROVE  x \in OnTheWay(e, now, l + 1)
    BY DEF OnTheWay
  <2>1. x[1] \in Nat /\ l \in Nat
    BY Sizes DEF PlacedAt
  <2>2. CASE x[1] = l
    <3>1. \A j \in 1..Min({Ticks(now, x[1]) - Ticks(e, x[1]), WheelSize}) :
            x[2] # (Ticks(e, x[1]) + j) % WheelSize
      BY <2>2 DEF Moved
    <3>2. x \in PlacedAt(now)
      BY <1>1, <3>1, NotDrained
    <3>3. QED
      BY <3>2 DEF OnTheWay
  <2>3. CASE x[1] # l
    BY <2>1, <2>3 DEF OnTheWay
  <2>4. QED
    BY <2>2, <2>3
<1>5. Inv(f[0], 0)
  <2>1. OnTheWay(e, now, l) \subseteq A(0)
    BY DEF OnTheWay
  <2>2. Placed(w, A(0))
    BY <2>1, PlacedMono
  <2>3. QED
    BY <1>3, <2>2
<1> HIDE DEF n, S, e
<1>6. ASSUME NEW i \in 1..n, Inv(f[i - 1], i - 1) PROVE Inv(f[i], i)
  <2>1. f[i] = DrainSlot(f[i - 1], l, S(i), now) /\ S(i) \in WheelSlots
    BY <1>2, <1>3
  <2>2. \A x \in A(i - 1) : x \in A(i) \/ (x[1] = l /\ x[2] = S(i))
    <3>1. \A j \in 1..i : j = i \/ j \in 1..(i - 1)
      BY <1>2
    <3>2. QED
      BY <3>1
  <2>3. PlacedAt(now) \subseteq A(i)
    OBVIOUS
  <2>4. Sound(f[i - 1], {}) /\ Placed(f[i - 1], A(i - 1)) /\ AllDue(f[i - 1], now)
        /\ f[i - 1].deadlines = w.deadlines /\ f[i - 1].elapsed = e
    BY <1>6
  <2> HIDE DEF A
  <2>5. /\ Sound(f[i], {}) /\ Placed(f[i], A(i)) /\ AllDue(f[i], now)
        /\ f[i].deadlines = f[i - 1].deadlines /\ f[i].elapsed = f[i - 1].elapsed
    BY <2>1, <2>2, <2>3, <2>4, DrainSlotStep
  <2>6. QED
    BY <2>4, <2>5
<1> DEFINE T == {i \in 0..n : Inv(f[i], i)}
<1> HIDE DEF Inv
<1>7. \A i \in 0..n : i \in T
  <2>1. 0 \in T
    BY <1>2, <1>5
  <2>2. ASSUME NEW i \in 1..n, i - 1 \in T PROVE i \in T
    BY <1>2, <1>6, <2>2
  <2> HIDE DEF T
  <2>3. QED
    BY <1>2, <2>1, <2>2, Steps
<1>8. Inv(v, n)
  BY <1>2, <1>3, <1>7
<1> HIDE DEF A
<1>9. Sound(v, {}) /\ Placed(v, A(n)) /\ AllDue(v, now) /\ v.deadlines = w.deadlines /\ v.elapsed = e
  BY <1>8 DEF Inv
<1>10. Placed(v, OnTheWay(e, now, l + 1))
  BY <1>4, <1>9, PlacedMono
<1>11. QED
  BY <1>9, <1>10 DEF e

\* The number of levels that time moves on.
Reached(w, now) == Min({l \in 0..NumLevels : l = NumLevels \/ Ticks(w.elapsed, l) = Ticks(now, l)})

\* advance_to stops after the last level, or at one where time stays in its slot.
LEMMA ReachedFacts ==
  ASSUME NEW w, NEW now
  PROVE  /\ Reached(w, now) \in 0..NumLevels
         /\ Reached(w, now) # NumLevels => Ticks(w.elapsed, Reached(w, now)) = Ticks(now, Reached(w, now))
<1> DEFINE S == {l \in 0..NumLevels : l = NumLevels \/ Ticks(w.elapsed, l) = Ticks(now, l)}
<1>1. S \subseteq Nat /\ S # {}
  BY Sizes
<1>2. Min(S) \in S
  <2> HIDE DEF S
  <2>1. QED
    BY <1>1, LeastNat
<1>3. Reached(w, now) = Min(S)
  BY DEF Reached
<1>4. QED
  BY <1>2, <1>3

\* What advance_to computes, round by round.
LEMMA AdvanceRounds ==
  ASSUME NEW w \in Wheels, NEW now \in Nat, w.elapsed <= now
  PROVE  LET n == Reached(w, now)
         IN \E f : /\ f \in [0..n -> Wheels] /\ f[0] = w
                   /\ \A i \in 1..n : f[i] = DrainLevel(f[i - 1], i - 1, now)
                   /\ advance_to(w, now) = [f[n] EXCEPT !.elapsed = now]
<1> DEFINE n == Min({l \in 0..NumLevels : l = NumLevels \/ Ticks(w.elapsed, l) = Ticks(now, l)})
           S == {u \in Wheels : u.elapsed = w.elapsed}
           op == [z \in S \X (1..n) |-> DrainLevel(z[1], z[2] - 1, now)]
           E(f) == f = [i \in 0..n |-> IF i = 0 THEN w ELSE DrainLevel(f[i - 1], i - 1, now)]
           g == CHOOSE f : E(f)
<1>1. n = Reached(w, now)
  BY DEF Reached
<1>2. advance_to(w, now) = [g[n] EXCEPT !.elapsed = now]
  BY Zenon DEF advance_to
<1>3. \A f : E(f) <=> f = [i \in 0..n |-> IF i = 0 THEN w ELSE DrainLevel(f[i - 1], i - 1, now)]
  BY Zenon
<1> HIDE DEF E, n
<1>4. n \in Nat /\ \A i \in 1..n : i - 1 \in Levels
  BY <1>1, ReachedFacts, Sizes DEF Levels
<1>5. ASSUME NEW u \in S, NEW l \in Levels PROVE DrainLevel(u, l, now) \in S
  BY DrainLevelType
<1>6. w \in S /\ S \subseteq Wheels
  OBVIOUS
<1> HIDE DEF S
<1>7. op \in [S \X (1..n) -> S]
  <2>1. ASSUME NEW z \in S \X (1..n) PROVE DrainLevel(z[1], z[2] - 1, now) \in S
    BY <1>4, <1>5
  <2>2. QED
    BY <2>1
<1>8. \E f : E(f)
  <2>1. PICK f : Loop(f, n, S, w, op)
    <3> HIDE DEF op
    <3>1. QED
      BY <1>4, <1>6, <1>7, Recursion
  <2>2. f \in [0..n -> S] /\ f[0] = w /\ \A i \in 1..n : f[i] = op[<<f[i - 1], i>>]
    BY <2>1 DEF Loop
  <2>3. ASSUME NEW i \in 1..n PROVE f[i] = DrainLevel(f[i - 1], i - 1, now)
    <3>1. i - 1 \in 0..n
      BY <1>4
    <3>2. <<f[i - 1], i>> \in S \X (1..n)
      BY <2>2, <3>1
    <3>3. op[<<f[i - 1], i>>] = DrainLevel(f[i - 1], i - 1, now)
      BY <3>2
    <3>4. QED
      BY <2>2, <3>3
  <2>4. ASSUME NEW i \in 0..n PROVE f[i] = IF i = 0 THEN w ELSE DrainLevel(f[i - 1], i - 1, now)
    BY <1>4, <2>2, <2>3
  <2>5. f = [i \in 0..n |-> IF i = 0 THEN w ELSE DrainLevel(f[i - 1], i - 1, now)]
    BY <2>2, <2>4
  <2>6. QED
    BY <1>3, <2>5, Zenon
<1>9. E(g)
  BY <1>8, Zenon
<1> HIDE DEF g
<1>10. g = [i \in 0..n |-> IF i = 0 THEN w ELSE DrainLevel(g[i - 1], i - 1, now)]
  BY <1>3, <1>9, Zenon
<1>11. g[0] = w /\ \A i \in 1..n : g[i] = DrainLevel(g[i - 1], i - 1, now)
  BY <1>4, <1>10
<1>12. g \in [0..n -> Wheels]
  <2> DEFINE T == {i \in 0..n : g[i] \in S}
  <2>1. 0 \in T
    BY <1>4, <1>6, <1>11
  <2>2. ASSUME NEW i \in 1..n, i - 1 \in T PROVE i \in T
    <3>1. g[i] \in S
      BY <1>4, <1>5, <1>11, <2>2
    <3>2. QED
      BY <1>4, <3>1
  <2>3. \A i \in 0..n : i \in T
    <3> HIDE DEF T
    <3>1. QED
      BY <1>4, <2>1, <2>2, Steps
  <2>4. QED
    BY <1>6, <1>10, <2>3
<1>13. QED
  BY <1>1, <1>2, <1>11, <1>12

\* Once time has been advanced, what is due is pending and the rest is in place.
LEMMA AdvanceStep ==
  ASSUME NEW w, Sound(w, {}), NEW now \in Nat, w.elapsed <= now, Placed(w, PlacedAt(w.elapsed)),
         AllDue(w, now), NEW v, v = advance_to(w, now)
  PROVE  /\ Sound(v, {}) /\ Placed(v, PlacedAt(now)) /\ AllDue(v, now)
         /\ v.deadlines = w.deadlines /\ v.elapsed = now
<1> DEFINE e == w.elapsed
           n == Reached(w, now)
           Inv(u, i) == /\ Sound(u, {}) /\ Placed(u, OnTheWay(e, now, i)) /\ AllDue(u, now)
                        /\ u.deadlines = w.deadlines /\ u.elapsed = e
<1>1. w \in Wheels /\ e \in Nat
  BY WheelFields DEF Sound
<1>2. n \in 0..NumLevels /\ n \in Nat /\ \A i \in 1..n : i - 1 \in Levels
  BY ReachedFacts, Sizes DEF Levels
<1>3. PICK f : /\ f \in [0..n -> Wheels] /\ f[0] = w
               /\ \A i \in 1..n : f[i] = DrainLevel(f[i - 1], i - 1, now)
               /\ advance_to(w, now) = [f[n] EXCEPT !.elapsed = now]
  BY <1>1, AdvanceRounds
<1>4. OnTheWay(e, now, n) \subseteq PlacedAt(now)
  <2> SUFFICES ASSUME NEW x \in PlacedAt(e), n <= x[1]
               PROVE  x \in PlacedAt(now)
    BY DEF OnTheWay
  <2>1. x[1] \in Levels /\ x[1] \in n..NumLevels /\ n # NumLevels
    BY <1>2, Sizes DEF PlacedAt, Levels
  <2>2. Ticks(e, n) = Ticks(now, n)
    BY <2>1, ReachedFacts
  <2>3. Ticks(e, x[1]) = Ticks(now, x[1])
    BY <1>1, <1>2, <2>1, <2>2, TicksSame
  <2>4. QED
    BY <2>3 DEF PlacedAt
<1>5. Inv(f[0], 0)
  <2>1. PlacedAt(e) \subseteq OnTheWay(e, now, 0)
    <3>1. ASSUME NEW x \in PlacedAt(e) PROVE 0 <= x[1]
      <4>1. x[1] \in Levels
        BY DEF PlacedAt
      <4>2. x[1] \in Nat
        BY <4>1, Sizes, Zenon
      <4>3. QED
        BY <4>2
    <3>2. QED
      BY <3>1 DEF OnTheWay
  <2>2. Placed(w, OnTheWay(e, now, 0))
    BY <2>1, PlacedMono
  <2>3. QED
    BY <1>3, <2>2
<1> HIDE DEF n, e
<1>6. ASSUME NEW i \in 1..n, Inv(f[i - 1], i - 1) PROVE Inv(f[i], i)
  <2>1. f[i] = DrainLevel(f[i - 1], i - 1, now) /\ i - 1 \in Levels /\ (i - 1) + 1 = i
    BY <1>2, <1>3
  <2>2. Sound(f[i - 1], {}) /\ Placed(f[i - 1], OnTheWay(e, now, i - 1)) /\ AllDue(f[i - 1], now)
        /\ f[i - 1].deadlines = w.deadlines /\ f[i - 1].elapsed = e /\ e <= now
    BY <1>6 DEF e
  <2>3. /\ Sound(f[i], {}) /\ Placed(f[i], OnTheWay(e, now, (i - 1) + 1)) /\ AllDue(f[i], now)
        /\ f[i].deadlines = f[i - 1].deadlines /\ f[i].elapsed = f[i - 1].elapsed
    <3> DEFINE u == f[i - 1]
               l == i - 1
    <3>1. Sound(u, {}) /\ l \in Levels /\ u.elapsed <= now /\ Placed(u, OnTheWay(u.elapsed, now, l))
          /\ AllDue(u, now) /\ f[i] = DrainLevel(u, l, now)
      BY <2>1, <2>2
    <3> HIDE DEF u, l
    <3>2. /\ Sound(f[i], {}) /\ Placed(f[i], OnTheWay(u.elapsed, now, l + 1)) /\ AllDue(f[i], now)
          /\ f[i].deadlines = u.deadlines /\ f[i].elapsed = u.elapsed
      BY <3>1, DrainLevelStep
    <3>3. QED
      BY <2>2, <3>2 DEF u, l
  <2>4. QED
    BY <2>1, <2>2, <2>3
<1> DEFINE T == {i \in 0..n : Inv(f[i], i)}
<1> HIDE DEF Inv
<1>7. \A i \in 0..n : i \in T
  <2>1. 0 \in T
    BY <1>2, <1>5
  <2>2. ASSUME NEW i \in 1..n, i - 1 \in T PROVE i \in T
    BY <1>2, <1>6, <2>2
  <2> HIDE DEF T
  <2>3. QED
    BY <1>2, <2>1, <2>2, Steps
<1> DEFINE u == f[n]
<1>8. Sound(u, {}) /\ Placed(u, PlacedAt(now)) /\ AllDue(u, now) /\ u.deadlines = w.deadlines
  <2>1. Inv(f[n], n)
    BY <1>2, <1>7
  <2>2. Placed(f[n], OnTheWay(e, now, n))
    BY <2>1 DEF Inv
  <2>3. QED
    BY <1>4, <2>1, <2>2, PlacedMono DEF Inv
<1>9. v = [u EXCEPT !.elapsed = now]
  BY <1>3
<1> HIDE DEF u
<1>10. u \in Wheels
  BY <1>8 DEF Sound
<1>11. /\ v \in Wheels /\ v.levels = u.levels /\ v.elapsed = now /\ v.pending = u.pending
       /\ v.deadlines = u.deadlines /\ v.positions = u.positions /\ v.level_counts = u.level_counts
  BY <1>9, <1>10 DEF Wheels
<1>12. Sound(v, {})
  <2>1. SlotsOk(v, {}) /\ PositionsOk(v, {})
    BY <1>8, <1>11 DEF Sound, SlotsOk, PositionsOk
  <2>2. DeadlinesOk(v, {}) /\ PendingOk(v, {}) /\ LimboOk(v, {})
    BY <1>8, <1>11 DEF Sound, DeadlinesOk, PendingOk, LimboOk
  <2>3. CountsOk(v)
    BY <1>8, <1>11 DEF Sound, CountsOk, On
  <2>4. QED
    BY <1>11, <2>1, <2>2, <2>3 DEF Sound
<1>13. Placed(v, PlacedAt(now)) /\ AllDue(v, now)
  BY <1>8, <1>11 DEF Placed, AllDue
<1>14. QED
  BY <1>8, <1>11, <1>12, <1>13

(***************************************************************************)
(* Timers that are popped.                                                 *)
(***************************************************************************)
\* Without pending timers, PopPending answers none and changes nothing.
LEMMA PopNone ==
  ASSUME NEW w, Sound(w, {}), NEW now \in Nat, w.pending = <<>>
  PROVE  PopPending(w, now) = [rid |-> NoTimer, wheel |-> w]
<1>1. w \in Wheels
  BY DEF Sound
<1>2. [w EXCEPT !.pending = <<>>] = w
  BY <1>1 DEF Wheels
<1>3. {i \in DOMAIN w.pending : w.deadlines[w.pending[i]] \in 1..now} = {}
  OBVIOUS
<1>4. QED
  BY <1>2, <1>3 DEF PopPending

\* The timer r has been taken from the pending ones.
Popped(v, w, r) ==
  /\ v \in Wheels /\ v.levels = w.levels /\ v.elapsed = w.elapsed /\ v.level_counts = w.level_counts
  /\ v.pending = SubSeq(w.pending, 1, Len(w.pending) - 1)
  /\ v.deadlines = [w.deadlines EXCEPT ![r] = NoTimer]
  /\ v.positions = [w.positions EXCEPT ![r] = NoPos]

\* Otherwise it takes the last one.
LEMMA PopFields ==
  ASSUME NEW w, Sound(w, {}), NEW now \in Nat, w.pending # <<>>, AllDue(w, now)
  PROVE  LET r == w.pending[Len(w.pending)]
             p == PopPending(w, now)
         IN r \in TimerIds /\ r # NoTimer /\ p.rid = r /\ Popped(p.wheel, w, r)
<1> DEFINE q == w.pending
           n == Len(q)
           r == q[n]
           due == {i \in DOMAIN q : w.deadlines[q[i]] \in 1..now}
           v == [w EXCEPT !.pending = SubSeq(@, 1, n - 1), !.deadlines[r] = NoTimer, !.positions[r] = NoPos]
<1>1. w \in Wheels /\ PendingOk(w, {})
  BY DEF Sound
<1>2. q \in Seq(TimerIds) /\ n \in Nat \ {0} /\ DOMAIN q = 1..n /\ \A i \in 1..n : q[i] \in TimerIds
  <2>1. q \in Seq(TimerIds) /\ q # <<>>
    BY <1>1, WheelFields
  <2> HIDE DEF q
  <2>2. QED
    BY <2>1
<1>3. r \in TimerIds /\ r # NoTimer
  BY <1>2, WheelAssumption DEF NoTimer
<1>4. due = 1..n
  <2>1. ASSUME NEW i \in 1..n PROVE w.deadlines[q[i]] \in 1..now
    <3>1. w.deadlines[q[i]] \in Nat
      BY <1>1, <1>2, WheelFields
    <3>2. w.deadlines[q[i]] # NoTimer /\ w.deadlines[q[i]] <= now
      BY <1>1, <1>2 DEF PendingOk, AllDue
    <3>3. QED
      BY <3>1, <3>2 DEF NoTimer
  <2>2. QED
    BY <1>2, <2>1
<1>5. Max(due) = n
  <2> DEFINE P(x) == x \in due /\ \A y \in due : x >= y
  <2>1. \E x : P(x)
    <3> HIDE DEF due, n
    <3>1. n \in due /\ \A y \in due : n >= y
      BY <1>2, <1>4
    <3>2. QED
      BY <3>1
  <2>2. P(CHOOSE x : P(x))
    BY <2>1, Zenon
  <2>3. Max(due) = CHOOSE x : P(x)
    BY DEF Max
  <2> DEFINE m == CHOOSE x : P(x)
  <2> HIDE DEF m, due, n
  <2>4. m \in 1..n /\ n \in 1..n /\ \A y \in 1..n : m >= y
    BY <1>2, <1>4, <2>2 DEF m
  <2>5. m = n
    BY <1>2, <2>4
  <2>6. QED
    BY <2>3, <2>5 DEF m
<1>6. due # {}
  BY <1>2, <1>4
<1>7. PopPending(w, now) = [rid |-> r, wheel |-> v]
  <2> HIDE DEF due
  <2>1. PopPending(w, now) =
          IF due = {} THEN [rid |-> NoTimer, wheel |-> [w EXCEPT !.pending = <<>>]]
          ELSE [rid |-> w.pending[Max(due)],
                wheel |-> [w EXCEPT !.pending = SubSeq(@, 1, Max(due) - 1),
                                    !.deadlines[w.pending[Max(due)]] = NoTimer,
                                    !.positions[w.pending[Max(due)]] = NoPos]]
    BY Zenon DEF PopPending, due
  <2>2. QED
    BY <1>5, <1>6, <2>1
<1> DEFINE a == SubSeq(q, 1, n - 1)
           b == [w.deadlines EXCEPT ![r] = NoTimer]
           c == [w.positions EXCEPT ![r] = NoPos]
<1>8. v = [w EXCEPT !.pending = a, !.deadlines = b, !.positions = c]
  BY <1>1 DEF Wheels
<1>9. a \in Seq(TimerIds)
  <2> HIDE DEF q
  <2>1. QED
    BY <1>2
<1>10. b \in [TimerIds -> Nat] /\ c \in [TimerIds -> Positions]
  BY <1>1, <1>3, WheelFields DEF NoTimer, Positions
<1> HIDE DEF a, b, c, v
<1>11. v \in Wheels
  BY <1>1, <1>8, <1>9, <1>10, WheelFields DEF Wheels
<1>12. /\ v.levels = w.levels /\ v.elapsed = w.elapsed /\ v.level_counts = w.level_counts
       /\ v.pending = a /\ v.deadlines = b /\ v.positions = c
  BY <1>1, <1>8 DEF Wheels
<1>13. Popped(v, w, r)
  BY <1>11, <1>12 DEF Popped, a, b, c
<1>14. QED
  BY <1>3, <1>7, <1>13

\* Which keeps the bookkeeping and the places.
LEMMA PopSound ==
  ASSUME NEW w, Sound(w, {}), NEW A, Placed(w, A), NEW now \in Nat, AllDue(w, now), w.pending # <<>>,
         NEW v, Popped(v, w, w.pending[Len(w.pending)])
  PROVE  Sound(v, {}) /\ Placed(v, A) /\ AllDue(v, now)
<1> DEFINE q == w.pending
           n == Len(q)
           r == q[n]
<1>1. w \in Wheels /\ SlotsOk(w, {}) /\ PositionsOk(w, {}) /\ DeadlinesOk(w, {}) /\ PendingOk(w, {})
      /\ CountsOk(w)
  BY DEF Sound
<1>2. q \in Seq(TimerIds) /\ n \in Nat \ {0} /\ DOMAIN q = 1..n /\ \A i \in 1..n : q[i] \in TimerIds
  <2>1. q \in Seq(TimerIds) /\ q # <<>>
    BY <1>1, WheelFields
  <2> HIDE DEF q
  <2>2. QED
    BY <2>1
<1>3. /\ v \in Wheels /\ v.levels = w.levels /\ v.elapsed = w.elapsed /\ v.level_counts = w.level_counts
      /\ v.pending = SubSeq(q, 1, n - 1)
      /\ \A p \in TimerIds : v.deadlines[p] = IF p = r THEN NoTimer ELSE w.deadlines[p]
      /\ \A p \in TimerIds : v.positions[p] = IF p = r THEN NoPos ELSE w.positions[p]
  BY <1>1, WheelFields DEF Popped
<1>4. r \in TimerIds /\ w.positions[r] = NoPos /\ \A i \in 1..n : q[i] = r => i = n
  BY <1>1, <1>2 DEF PendingOk
<1> HIDE DEF q, n
<1>5. DOMAIN v.pending = 1..(n - 1) /\ \A i \in 1..(n - 1) : v.pending[i] = q[i]
  BY <1>2, <1>3
<1>6. ASSUME NEW l \in Levels, NEW s \in WheelSlots, NEW i \in DOMAIN w.levels[l][s]
      PROVE  /\ w.levels[l][s][i] \in TimerIds /\ w.levels[l][s][i] # r
             /\ w.positions[w.levels[l][s][i]] = <<l, s, i>> /\ w.deadlines[w.levels[l][s][i]] # NoTimer
  <2>1. w.positions[w.levels[l][s][i]] = <<l, s, i>> /\ w.deadlines[w.levels[l][s][i]] # NoTimer
    BY <1>1 DEF SlotsOk
  <2>2. <<l, s, i>> # NoPos
    BY PositionFacts
  <2>3. QED
    BY <1>1, <1>4, <2>1, <2>2, SlotEntry
<1>7. SlotsOk(v, {})
  <2>1. ASSUME NEW l \in Levels, NEW s \in WheelSlots, NEW i \in DOMAIN w.levels[l][s]
        PROVE  v.positions[w.levels[l][s][i]] = <<l, s, i>> /\ v.deadlines[w.levels[l][s][i]] # NoTimer
    <3> DEFINE x == w.levels[l][s][i]
    <3>1. x \in TimerIds /\ x # r /\ w.positions[x] = <<l, s, i>> /\ w.deadlines[x] # NoTimer
      BY <1>6
    <3> HIDE DEF x
    <3>2. v.positions[x] = w.positions[x] /\ v.deadlines[x] = w.deadlines[x]
      BY <1>3, <3>1
    <3>3. QED
      BY <3>1, <3>2 DEF x
  <2>2. QED
    BY <1>3, <2>1 DEF SlotsOk
<1>8. PositionsOk(v, {})
  BY <1>1, <1>3 DEF PositionsOk
<1>9. DeadlinesOk(v, {})
  <2> SUFFICES ASSUME NEW p \in TimerIds, v.deadlines[p] # NoTimer, v.positions[p] = NoPos
               PROVE  \E i \in DOMAIN v.pending : v.pending[i] = p
    BY DEF DeadlinesOk
  <2>1. p # r /\ w.deadlines[p] # NoTimer /\ w.positions[p] = NoPos
    BY <1>3
  <2>2. PICK i \in 1..n : q[i] = p
    BY <1>1, <1>2, <2>1 DEF DeadlinesOk, q
  <2>3. i \in 1..(n - 1)
    BY <1>2, <2>1, <2>2
  <2>4. QED
    BY <1>5, <2>2, <2>3
<1>10. PendingOk(v, {}) /\ AllDue(v, now)
  <2>1. ASSUME NEW i \in 1..(n - 1)
        PROVE  /\ v.positions[q[i]] = NoPos /\ v.deadlines[q[i]] # NoTimer /\ v.deadlines[q[i]] <= now
               /\ \A j \in 1..(n - 1) : q[j] = q[i] => j = i
    <3>1. i \in 1..n /\ i # n /\ q[i] \in TimerIds
      BY <1>2
    <3>2. q[i] # r
      BY <1>4, <3>1
    <3>3. w.positions[q[i]] = NoPos /\ w.deadlines[q[i]] # NoTimer
          /\ \A j \in 1..n : q[j] = q[i] => j = i
      BY <1>1, <1>2, <3>1 DEF PendingOk, q
    <3>4. w.deadlines[q[i]] <= now
      BY <1>2, <3>1 DEF AllDue, q
    <3>5. \A j \in 1..(n - 1) : j \in 1..n
      BY <1>2
    <3>6. QED
      BY <1>3, <3>1, <3>2, <3>3, <3>4, <3>5
  <2>2. QED
    BY <1>5, <2>1 DEF PendingOk, AllDue
<1>11. CountsOk(v) /\ LimboOk(v, {})
  BY <1>1, <1>3 DEF CountsOk, On, LimboOk
<1>12. Placed(v, A)
  BY <1>3, <1>6 DEF Placed
<1>13. QED
  BY <1>3, <1>7, <1>8, <1>9, <1>10, <1>11, <1>12 DEF Sound

(***************************************************************************)
(* A timer that is taken out of its slot.                                  *)
(***************************************************************************)
\* swap_remove of position i.
Swapped(q, i) == SubSeq([q EXCEPT ![i] = q[Len(q)]], 1, Len(q) - 1)

\* The last timer is at i now, and nothing else moved.
LEMMA SwappedFacts ==
  ASSUME NEW q \in Seq(TimerIds), NEW i \in DOMAIN q
  PROVE  /\ Swapped(q, i) \in Seq(TimerIds) /\ Len(q) \in Nat \ {0} /\ DOMAIN q = 1..Len(q)
         /\ DOMAIN Swapped(q, i) = 1..(Len(q) - 1) /\ q[Len(q)] \in TimerIds
         /\ \A j \in 1..(Len(q) - 1) : Swapped(q, i)[j] = IF j = i THEN q[Len(q)] ELSE q[j]
<1> DEFINE n == Len(q)
           u == [q EXCEPT ![i] = q[n]]
<1>1. n \in Nat \ {0} /\ DOMAIN q = 1..n /\ q[n] \in TimerIds
  OBVIOUS
<1>2. u \in Seq(TimerIds) /\ Len(u) = n /\ \A j \in 1..n : u[j] = IF j = i THEN q[n] ELSE q[j]
  BY <1>1
<1> HIDE DEF u, n
<1>3. SubSeq(u, 1, n - 1) \in Seq(TimerIds) /\ DOMAIN SubSeq(u, 1, n - 1) = 1..(n - 1)
      /\ \A j \in 1..(n - 1) : SubSeq(u, 1, n - 1)[j] = u[j]
  BY <1>1, <1>2
<1>4. QED
  BY <1>1, <1>2, <1>3 DEF Swapped, u, n

\* What wheel_remove_inner does to a timer at index i of slot s of level l.
Removed(v, w, r, l, s, i) ==
  LET q == w.levels[l][s]
  IN /\ v \in Wheels /\ v.elapsed = w.elapsed /\ v.pending = w.pending /\ v.deadlines = w.deadlines
     /\ \A k \in Levels, t \in WheelSlots :
          v.levels[k][t] = IF k = l /\ t = s THEN Swapped(q, i) ELSE w.levels[k][t]
     /\ \A p \in TimerIds :
          v.positions[p] = IF p = r THEN NoPos ELSE IF p = q[Len(q)] THEN <<l, s, i>> ELSE w.positions[p]
     /\ \A k \in Levels :
          v.level_counts[k] = IF k = l THEN w.level_counts[l] - 1 ELSE w.level_counts[k]

\* wheel_remove_inner does that.
LEMMA RemoveFields ==
  ASSUME NEW w \in Wheels, NEW r \in TimerIds, NEW l \in Levels, NEW s \in WheelSlots,
         NEW i \in DOMAIN w.levels[l][s], w.positions[r] = <<l, s, i>>
  PROVE  Removed(wheel_remove_inner(w, r), w, r, l, s, i)
<1> DEFINE q == w.levels[l][s]
           last == q[Len(q)]
           z == Swapped(q, i)
           cleared == [w EXCEPT !.positions[r] = NoPos, !.levels[l][s] = z, !.level_counts[l] = @ - 1]
           v == IF last = r THEN cleared ELSE [cleared EXCEPT !.positions[last] = <<l, s, i>>]
<1>1. <<l, s, i>> # NoPos
  BY PositionFacts
<1>2. wheel_remove_inner(w, r) = v
  <2>1. wheel_remove_inner(w, r) =
          LET p == w.positions[r]
              y == w.levels[p[1]][p[2]]
              e == y[Len(y)]
              c == [w EXCEPT !.positions[r] = NoPos,
                             !.levels[p[1]][p[2]] = SubSeq([y EXCEPT ![p[3]] = e], 1, Len(y) - 1),
                             !.level_counts[p[1]] = @ - 1]
          IN IF p = NoPos THEN w ELSE IF e = r THEN c ELSE [c EXCEPT !.positions[e] = p]
    BY Zenon DEF wheel_remove_inner
  <2>2. <<l, s, i>>[1] = l /\ <<l, s, i>>[2] = s /\ <<l, s, i>>[3] = i
    OBVIOUS
  <2>3. QED
    BY <1>1, <2>1, <2>2 DEF Swapped
<1>3. q \in Seq(TimerIds)
  BY WheelFields
<1>4. z \in Seq(TimerIds) /\ last \in TimerIds /\ i \in Nat \ {0}
  <2> HIDE DEF q
  <2>1. i \in DOMAIN q
    BY DEF q
  <2>2. QED
    BY <1>3, <2>1, SwappedFacts
<1> DEFINE a == [w.levels EXCEPT ![l][s] = z]
           b == [w.level_counts EXCEPT ![l] = w.level_counts[l] - 1]
           c == [w.positions EXCEPT ![r] = NoPos]
           d == IF last = r THEN c ELSE [c EXCEPT ![last] = <<l, s, i>>]
<1> HIDE DEF z, last
<1>5. cleared = [w EXCEPT !.levels = a, !.level_counts = b, !.positions = c]
  BY DEF Wheels
<1>6. a \in [Levels -> [WheelSlots -> Seq(TimerIds)]]
      /\ \A k \in Levels, t \in WheelSlots : a[k][t] = IF k = l /\ t = s THEN z ELSE w.levels[k][t]
  BY <1>4, WheelFields
<1>7. b \in [Levels -> Int]
      /\ \A k \in Levels : b[k] = IF k = l THEN w.level_counts[l] - 1 ELSE w.level_counts[k]
  BY WheelFields
<1>8. c \in [TimerIds -> Positions] /\ <<l, s, i>> \in Positions
  BY <1>4, WheelFields DEF Positions
<1>9. d \in [TimerIds -> Positions]
      /\ \A p \in TimerIds : d[p] = IF p = r THEN NoPos ELSE IF p = last THEN <<l, s, i>> ELSE w.positions[p]
  <2>1. \A p \in TimerIds : c[p] = IF p = r THEN NoPos ELSE w.positions[p]
    BY WheelFields
  <2> HIDE DEF c
  <2>2. QED
    BY <1>4, <1>8, <2>1
<1> HIDE DEF a, b, c, cleared
<1>10. /\ cleared \in Wheels /\ cleared.levels = a /\ cleared.level_counts = b /\ cleared.positions = c
       /\ cleared.elapsed = w.elapsed /\ cleared.pending = w.pending /\ cleared.deadlines = w.deadlines
  <2>1. cleared \in Wheels
    BY <1>5, <1>6, <1>7, <1>8, WheelFields DEF Wheels
  <2>2. QED
    BY <1>5, <2>1 DEF Wheels
<1>11. v = [cleared EXCEPT !.positions = d]
  BY <1>10 DEF Wheels
<1> HIDE DEF d, v
<1>12. v \in Wheels
  BY <1>9, <1>10, <1>11, WheelFields DEF Wheels
<1>13. /\ v.elapsed = w.elapsed /\ v.pending = w.pending /\ v.deadlines = w.deadlines
       /\ v.levels = a /\ v.level_counts = b /\ v.positions = d
  BY <1>10, <1>11 DEF Wheels
<1>14. Removed(v, w, r, l, s, i)
  BY <1>6, <1>7, <1>9, <1>12, <1>13 DEF Removed, z, last
<1>15. QED
  BY <1>2, <1>14

\* The removed timer is in limbo; the one that took its index has its position, and the
\* others are as they were.
LEMMA RemoveSound ==
  ASSUME NEW w, Sound(w, {}), NEW r \in TimerIds, w.positions[r] # NoPos, NEW A, Placed(w, A),
         NEW v, v = wheel_remove_inner(w, r)
  PROVE  /\ Sound(v, {r}) /\ Placed(v, A) /\ v.positions[r] = NoPos /\ w.deadlines[r] # NoTimer
         /\ v.deadlines = w.deadlines /\ v.elapsed = w.elapsed /\ v.pending = w.pending
<1>1. w \in Wheels /\ SlotsOk(w, {}) /\ PositionsOk(w, {}) /\ DeadlinesOk(w, {}) /\ PendingOk(w, {})
      /\ CountsOk(w)
  BY DEF Sound
<1>2. PICK l \in Levels, s \in WheelSlots : \E i \in DOMAIN w.levels[l][s] :
             w.positions[r] = <<l, s, i>> /\ w.levels[l][s][i] = r
  BY <1>1 DEF PositionsOk
<1>3. PICK i \in DOMAIN w.levels[l][s] : w.positions[r] = <<l, s, i>> /\ w.levels[l][s][i] = r
  BY <1>2
<1> DEFINE q == w.levels[l][s]
           n == Len(q)
           last == q[n]
           z == Swapped(q, i)
<1>4. Removed(v, w, r, l, s, i)
  BY <1>1, <1>3, RemoveFields
<1>5. /\ v \in Wheels /\ v.elapsed = w.elapsed /\ v.pending = w.pending /\ v.deadlines = w.deadlines
      /\ \A k \in Levels, t \in WheelSlots :
           v.levels[k][t] = IF k = l /\ t = s THEN z ELSE w.levels[k][t]
      /\ \A p \in TimerIds :
           v.positions[p] = IF p = r THEN NoPos ELSE IF p = last THEN <<l, s, i>> ELSE w.positions[p]
      /\ \A k \in Levels :
           v.level_counts[k] = IF k = l THEN w.level_counts[l] - 1 ELSE w.level_counts[k]
  BY <1>4 DEF Removed
<1>6. /\ n \in Nat \ {0} /\ DOMAIN q = 1..n /\ DOMAIN z = 1..(n - 1) /\ last \in TimerIds
      /\ \A j \in 1..(n - 1) : z[j] = IF j = i THEN last ELSE q[j]
  <2>1. q \in Seq(TimerIds)
    BY <1>1, WheelFields
  <2>2. QED
    BY <2>1, SwappedFacts
<1>7. \A k \in Levels, t \in WheelSlots : \A j \in DOMAIN w.levels[k][t] :
         w.levels[k][t][j] \in TimerIds /\ w.positions[w.levels[k][t][j]] = <<k, t, j>>
         /\ w.deadlines[w.levels[k][t][j]] # NoTimer
  BY <1>1, SlotEntry DEF SlotsOk
<1>8. \A j \in 1..n : q[j] \in TimerIds /\ w.positions[q[j]] = <<l, s, j>>
  BY <1>6, <1>7
<1> HIDE DEF z, last, q, n
<1>9. i \in 1..n /\ n \in 1..n /\ last = q[n] /\ r = q[i]
  BY <1>3, <1>6 DEF q, last
\* An entry of a slot was there before, and is neither r nor, elsewhere, the last one.
<1>10. ASSUME NEW k \in Levels, NEW t \in WheelSlots, NEW j \in DOMAIN v.levels[k][t]
       PROVE  \/ /\ k = l /\ t = s /\ j = i /\ v.levels[k][t][j] = last /\ last # r
              \/ /\ j \in DOMAIN w.levels[k][t] /\ v.levels[k][t][j] = w.levels[k][t][j]
                 /\ w.levels[k][t][j] # r /\ w.levels[k][t][j] # last
  <2>1. CASE k = l /\ t = s
    <3>1. v.levels[k][t] = z /\ w.levels[k][t] = q /\ j \in 1..(n - 1)
      BY <1>5, <1>6, <2>1 DEF q
    <3>2. CASE j = i
      <4>1. last # r
        <5>1. SUFFICES ASSUME q[n] = q[i] PROVE FALSE
          BY <1>9
        <5>2. <<l, s, n>> = <<l, s, i>>
          BY <1>8, <1>9, <5>1
        <5>3. QED
          BY <1>6, <3>1, <3>2, <5>2, PositionFacts
      <4>2. QED
        BY <1>6, <2>1, <3>1, <3>2, <4>1
    <3>3. CASE j # i
      <4>1. j \in 1..n /\ j # n
        BY <1>6, <3>1
      <4>2. q[j] # q[i]
        <5>1. SUFFICES ASSUME q[j] = q[i] PROVE FALSE
          OBVIOUS
        <5>2. <<l, s, j>> = <<l, s, i>>
          BY <1>8, <1>9, <4>1, <5>1
        <5>3. QED
          BY <3>3, <5>2, PositionFacts
      <4>3. q[j] # q[n]
        <5>1. SUFFICES ASSUME q[j] = q[n] PROVE FALSE
          OBVIOUS
        <5>2. <<l, s, j>> = <<l, s, n>>
          BY <1>8, <1>9, <4>1, <5>1
        <5>3. QED
          BY <4>1, <5>2, PositionFacts
      <4>4. QED
        BY <1>6, <1>9, <3>1, <3>3, <4>1, <4>2, <4>3
    <3>4. QED
      BY <3>2, <3>3
  <2>2. CASE ~(k = l /\ t = s)
    <3>1. v.levels[k][t] = w.levels[k][t] /\ j \in DOMAIN w.levels[k][t]
      BY <1>5, <2>2
    <3>2. w.positions[w.levels[k][t][j]] = <<k, t, j>>
      BY <1>7, <3>1
    <3>3. <<k, t, j>> # <<l, s, i>> /\ <<k, t, j>> # <<l, s, n>>
      BY <2>2, PositionFacts
    <3>4. w.positions[r] = <<l, s, i>> /\ w.positions[last] = <<l, s, n>>
      BY <1>8, <1>9
    <3>5. QED
      BY <3>1, <3>2, <3>3, <3>4
  <2>3. QED
    BY <2>1, <2>2
\* And an entry that was there before, and is not r, still is.
<1>11. ASSUME NEW k \in Levels, NEW t \in WheelSlots, NEW j \in DOMAIN w.levels[k][t], w.levels[k][t][j] # r
       PROVE  \/ /\ w.levels[k][t][j] = last /\ k = l /\ i \in DOMAIN v.levels[k][s] /\ v.levels[k][s][i] = last
              \/ /\ w.levels[k][t][j] # last /\ j \in DOMAIN v.levels[k][t]
                 /\ v.levels[k][t][j] = w.levels[k][t][j]
  <2>1. w.positions[w.levels[k][t][j]] = <<k, t, j>> /\ w.positions[last] = <<l, s, n>>
        /\ w.positions[r] = <<l, s, i>>
    BY <1>7, <1>8, <1>9
  <2>2. CASE w.levels[k][t][j] = last
    <3>1. k = l /\ t = s /\ j = n
      <4>1. <<k, t, j>> = <<l, s, n>>
        BY <2>1, <2>2
      <4>2. QED
        BY <4>1, PositionFacts
    <3>2. i # n
      BY <1>9, <1>11, <2>2
    <3>3. i \in 1..(n - 1) /\ v.levels[l][s] = z
      BY <1>5, <1>6, <1>9, <3>2
    <3>4. QED
      BY <1>6, <2>2, <3>1, <3>3
  <2>3. CASE w.levels[k][t][j] # last
    <3>1. CASE k = l /\ t = s
      <4>1. w.levels[k][t] = q /\ v.levels[k][t] = z /\ j \in 1..n
        BY <1>5, <1>6, <3>1 DEF q
      <4>2. j # n /\ j # i
        BY <1>9, <1>11, <2>3, <4>1
      <4>3. j \in 1..(n - 1)
        BY <1>6, <4>1, <4>2
      <4>4. QED
        BY <1>6, <2>3, <4>1, <4>2, <4>3
    <3>2. CASE ~(k = l /\ t = s)
      BY <1>5, <2>3, <3>2
    <3>3. QED
      BY <3>1, <3>2
  <2>4. QED
    BY <2>2, <2>3
<1>12. SlotsOk(v, {r})
  <2> SUFFICES ASSUME NEW k \in Levels, NEW t \in WheelSlots, NEW j \in DOMAIN v.levels[k][t]
               PROVE  /\ v.levels[k][t][j] # r /\ v.positions[v.levels[k][t][j]] = <<k, t, j>>
                      /\ v.deadlines[v.levels[k][t][j]] # NoTimer
    BY DEF SlotsOk
  <2>1. CASE k = l /\ t = s /\ j = i /\ v.levels[k][t][j] = last /\ last # r
    <3>1. w.deadlines[last] # NoTimer
      BY <1>6, <1>7, <1>9 DEF q
    <3>2. QED
      BY <1>5, <1>6, <2>1, <3>1
  <2>2. CASE j \in DOMAIN w.levels[k][t] /\ v.levels[k][t][j] = w.levels[k][t][j]
             /\ w.levels[k][t][j] # r /\ w.levels[k][t][j] # last
    <3> DEFINE x == w.levels[k][t][j]
    <3>1. x \in TimerIds /\ w.positions[x] = <<k, t, j>> /\ w.deadlines[x] # NoTimer
      BY <1>7, <2>2
    <3>2. x # r /\ x # last /\ v.levels[k][t][j] = x
      BY <2>2
    <3> HIDE DEF x
    <3>3. v.positions[x] = w.positions[x]
      BY <1>5, <3>1, <3>2
    <3>4. QED
      BY <1>5, <3>1, <3>2, <3>3
  <2>3. QED
    BY <1>10, <2>1, <2>2
<1>13. PositionsOk(v, {r})
  <2> SUFFICES ASSUME NEW p \in TimerIds, p # r, v.positions[p] # NoPos
               PROVE  \E k \in Levels, t \in WheelSlots : \E j \in DOMAIN v.levels[k][t] :
                        v.positions[p] = <<k, t, j>> /\ v.levels[k][t][j] = p
    BY DEF PositionsOk
  <2>1. CASE p = last
    <3>1. i \in DOMAIN v.levels[l][s] /\ v.levels[l][s][i] = last
      BY <1>6, <1>9, <1>11, <2>1 DEF q
    <3>2. QED
      BY <1>5, <2>1, <3>1
  <2>2. CASE p # last
    <3>1. v.positions[p] = w.positions[p]
      BY <1>5, <2>2
    <3>2. PICK k \in Levels, t \in WheelSlots : \E j \in DOMAIN w.levels[k][t] :
                w.positions[p] = <<k, t, j>> /\ w.levels[k][t][j] = p
      BY <1>1, <3>1 DEF PositionsOk
    <3>3. QED
      BY <1>11, <2>2, <3>1, <3>2
  <2>3. QED
    BY <2>1, <2>2
<1>14. DeadlinesOk(v, {r})
  <2>1. <<l, s, i>> # NoPos
    BY PositionFacts
  <2>2. QED
    BY <1>1, <1>5, <2>1 DEF DeadlinesOk
<1>15. PendingOk(v, {r})
  <2> SUFFICES ASSUME NEW j \in DOMAIN w.pending
               PROVE  /\ w.pending[j] # r /\ v.positions[w.pending[j]] = NoPos
                      /\ w.deadlines[w.pending[j]] # NoTimer
                      /\ \A m \in DOMAIN w.pending : w.pending[m] = w.pending[j] => m = j
    BY <1>5 DEF PendingOk
  <2>1. w.pending[j] \in TimerIds
    <3>1. w.pending \in Seq(TimerIds)
      BY <1>1, WheelFields
    <3>2. QED
      BY <3>1
  <2>2. /\ w.positions[w.pending[j]] = NoPos /\ w.deadlines[w.pending[j]] # NoTimer
        /\ \A m \in DOMAIN w.pending : w.pending[m] = w.pending[j] => m = j
    BY <1>1 DEF PendingOk
  <2>3. <<l, s, i>> # NoPos /\ <<l, s, n>> # NoPos
    BY PositionFacts
  <2>4. w.pending[j] # r /\ w.pending[j] # last
    BY <1>8, <1>9, <2>2, <2>3
  <2>5. QED
    BY <1>5, <2>1, <2>2, <2>4
<1>16. w.deadlines[r] # NoTimer
  BY <1>6, <1>7, <1>9 DEF q
<1>17. LimboOk(v, {r})
  BY <1>5, <1>16 DEF LimboOk
<1>18. CountsOk(v)
  <2> SUFFICES ASSUME NEW k \in Levels
               PROVE  IsFiniteSet(On(v, k)) /\ v.level_counts[k] = Cardinality(On(v, k))
    BY DEF CountsOk
  <2>1. IsFiniteSet(On(w, k)) /\ w.level_counts[k] = Cardinality(On(w, k))
    BY <1>1 DEF CountsOk
  <2>2. CASE k = l
    <3>1. On(v, l) = On(w, l) \ {r}
      <4>1. ASSUME NEW p \in On(v, l) PROVE p \in On(w, l) \ {r}
        <5>1. PICK t \in WheelSlots : \E j \in DOMAIN v.levels[l][t] : v.levels[l][t][j] = p
          BY <4>1 DEF On
        <5>2. PICK j \in DOMAIN v.levels[l][t] : v.levels[l][t][j] = p
          BY <5>1
        <5>3. p # r
          BY <1>12, <5>2 DEF SlotsOk
        <5>4. last \in On(w, l)
          BY <1>6, <1>9 DEF On, q
        <5>5. p = last \/ p \in On(w, l)
          BY <1>10, <4>1, <5>2 DEF On
        <5>6. QED
          BY <5>3, <5>4, <5>5
      <4>2. ASSUME NEW p \in On(w, l), p # r PROVE p \in On(v, l)
        <5>1. PICK t \in WheelSlots : \E j \in DOMAIN w.levels[l][t] : w.levels[l][t][j] = p
          BY <4>2 DEF On
        <5>2. QED
          BY <1>11, <4>2, <5>1 DEF On
      <4>3. QED
        BY <4>1, <4>2
    <3>2. r \in On(w, l)
      BY <1>3 DEF On
    <3>3. IsFiniteSet(On(v, l)) /\ Cardinality(On(v, l)) = Cardinality(On(w, l)) - 1
      BY <2>1, <2>2, <3>1, <3>2, FS_RemoveElement
    <3>4. QED
      BY <1>5, <2>1, <2>2, <3>3
  <2>3. CASE k # l
    <3>1. On(v, k) = On(w, k)
      BY <1>5, <2>3 DEF On
    <3>2. QED
      BY <1>5, <2>1, <2>3, <3>1
  <2>4. QED
    BY <2>2, <2>3
<1>19. Placed(v, A)
  <2> SUFFICES ASSUME NEW k \in Levels, NEW t \in WheelSlots, NEW j \in DOMAIN v.levels[k][t]
               PROVE  <<k, t, w.deadlines[v.levels[k][t][j]]>> \in A
    BY <1>5 DEF Placed
  <2>1. CASE k = l /\ t = s /\ j = i /\ v.levels[k][t][j] = last /\ last # r
    <3>1. n \in DOMAIN w.levels[l][s] /\ w.levels[l][s][n] = last
      BY <1>6, <1>9 DEF q
    <3>2. <<l, s, w.deadlines[last]>> \in A
      BY <3>1 DEF Placed
    <3>3. QED
      BY <2>1, <3>2
  <2>2. CASE j \in DOMAIN w.levels[k][t] /\ v.levels[k][t][j] = w.levels[k][t][j]
             /\ w.levels[k][t][j] # r /\ w.levels[k][t][j] # last
    BY <2>2 DEF Placed
  <2>3. QED
    BY <1>10, <2>1, <2>2
<1>20. QED
  BY <1>5, <1>12, <1>13, <1>14, <1>15, <1>16, <1>17, <1>18, <1>19 DEF Sound

(***************************************************************************)
(* The deadline of a timer that is in no slot.                             *)
(***************************************************************************)
\* The update that insert and remove make to the deadlines.
SetDeadline(w, r, d) == [w EXCEPT !.deadlines[r] = d]

\* What it does, field by field.
Dated(v, w, r, d) ==
  /\ v \in Wheels /\ v.levels = w.levels /\ v.elapsed = w.elapsed /\ v.pending = w.pending
  /\ v.positions = w.positions /\ v.level_counts = w.level_counts
  /\ v.deadlines = [w.deadlines EXCEPT ![r] = d]
  /\ \A p \in TimerIds : v.deadlines[p] = IF p = r THEN d ELSE w.deadlines[p]

\* SetDeadline does that.
LEMMA DeadlineFields ==
  ASSUME NEW w \in Wheels, NEW r \in TimerIds, NEW d \in Nat
  PROVE  Dated(SetDeadline(w, r, d), w, r, d)
<1> DEFINE v == SetDeadline(w, r, d)
           b == [w.deadlines EXCEPT ![r] = d]
<1>1. v = [w EXCEPT !.deadlines = b]
  BY DEF Wheels, SetDeadline
<1>2. b \in [TimerIds -> Nat] /\ \A p \in TimerIds : b[p] = IF p = r THEN d ELSE w.deadlines[p]
  BY WheelFields
<1> HIDE DEF b, v
<1>3. v \in Wheels
  BY <1>1, <1>2, WheelFields DEF Wheels
<1>4. /\ v.levels = w.levels /\ v.elapsed = w.elapsed /\ v.pending = w.pending
      /\ v.positions = w.positions /\ v.level_counts = w.level_counts /\ v.deadlines = b
  BY <1>1 DEF Wheels
<1>5. Dated(v, w, r, d)
  BY <1>2, <1>3, <1>4 DEF b, Dated
<1>6. QED
  BY <1>5 DEF v

\* r gets a deadline and waits for a place, or loses both.
LEMMA DeadlineSound ==
  ASSUME NEW w, NEW X, Sound(w, X), NEW r \in TimerIds, X \subseteq {r}, NEW d \in Nat, NEW v,
         v = SetDeadline(w, r, d), NEW A, Placed(w, A),
         w.deadlines[r] = NoTimer \/ r \in X,
         NEW Y, \/ d # NoTimer /\ Y = {r}
                \/ d = NoTimer /\ Y = {} /\ w.positions[r] = NoPos
  PROVE  Sound(v, Y) /\ Placed(v, A)
<1>1. w \in Wheels /\ SlotsOk(w, X) /\ PositionsOk(w, X) /\ DeadlinesOk(w, X) /\ PendingOk(w, X)
      /\ LimboOk(w, X) /\ CountsOk(w)
  BY DEF Sound
<1>2. /\ v \in Wheels /\ v.levels = w.levels /\ v.elapsed = w.elapsed /\ v.pending = w.pending
      /\ v.positions = w.positions /\ v.level_counts = w.level_counts
      /\ \A p \in TimerIds : v.deadlines[p] = IF p = r THEN d ELSE w.deadlines[p]
  <2>1. Dated(v, w, r, d)
    BY <1>1, DeadlineFields
  <2>2. QED
    BY <2>1 DEF Dated
<1>3. ASSUME NEW l \in Levels, NEW s \in WheelSlots, NEW i \in DOMAIN w.levels[l][s]
      PROVE  /\ w.levels[l][s][i] # r /\ w.positions[w.levels[l][s][i]] = <<l, s, i>>
             /\ v.deadlines[w.levels[l][s][i]] = w.deadlines[w.levels[l][s][i]]
             /\ w.deadlines[w.levels[l][s][i]] # NoTimer
  <2> DEFINE x == w.levels[l][s][i]
  <2>1. x \in TimerIds /\ x \notin X /\ w.positions[x] = <<l, s, i>> /\ w.deadlines[x] # NoTimer
    BY <1>1, SlotEntry DEF SlotsOk
  <2> HIDE DEF x
  <2>2. x # r
    BY <2>1
  <2>3. v.deadlines[x] = w.deadlines[x]
    BY <1>2, <2>1, <2>2
  <2>4. QED
    BY <2>1, <2>2, <2>3 DEF x
<1>4. SlotsOk(v, Y)
  BY <1>2, <1>3 DEF SlotsOk
<1>5. PositionsOk(v, Y)
  BY <1>1, <1>2 DEF PositionsOk
<1>6. DeadlinesOk(v, Y)
  BY <1>1, <1>2 DEF DeadlinesOk
<1>7. PendingOk(v, Y)
  <2>1. ASSUME NEW i \in DOMAIN w.pending
        PROVE  /\ w.pending[i] \in TimerIds /\ w.pending[i] # r /\ w.positions[w.pending[i]] = NoPos
               /\ w.deadlines[w.pending[i]] # NoTimer
               /\ \A j \in DOMAIN w.pending : w.pending[j] = w.pending[i] => j = i
    <3>1. w.pending \in Seq(TimerIds)
      BY <1>1, WheelFields
    <3>2. w.pending[i] \in TimerIds
      BY <3>1
    <3>3. QED
      BY <1>1, <3>2 DEF PendingOk
  <2>2. QED
    BY <1>2, <2>1 DEF PendingOk
<1>8. LimboOk(v, Y)
  BY <1>2 DEF LimboOk
<1>9. CountsOk(v)
  BY <1>1, <1>2 DEF CountsOk, On
<1>10. Placed(v, A)
  BY <1>2, <1>3 DEF Placed
<1>11. QED
  BY <1>2, <1>4, <1>5, <1>6, <1>7, <1>8, <1>9, <1>10 DEF Sound

\* Between parks, a timer has a deadline exactly when it has a position.
LEMMA AtRest ==
  ASSUME NEW w, Sound(w, {}), w.pending = <<>>, NEW r \in TimerIds
  PROVE  w.deadlines[r] # NoTimer <=> w.positions[r] # NoPos
<1>1. SlotsOk(w, {}) /\ PositionsOk(w, {}) /\ DeadlinesOk(w, {})
  BY DEF Sound
<1>2. ASSUME w.deadlines[r] # NoTimer PROVE w.positions[r] # NoPos
  BY <1>1, <1>2 DEF DeadlinesOk
<1>3. ASSUME w.positions[r] # NoPos PROVE w.deadlines[r] # NoTimer
  BY <1>1, <1>3 DEF PositionsOk, SlotsOk
<1>4. QED
  BY <1>2, <1>3

(***************************************************************************)
(* The inductive invariant.                                                *)
(***************************************************************************)
\* The bookkeeping is sound, every timer is in a slot it may be in at the wheel's time,
\* pending timers are due, and between parks none is pending.
TimersInv ==
  /\ Sound(wheel, {}) /\ Placed(wheel, PlacedAt(wheel.elapsed)) /\ AllDue(wheel, wheel.elapsed)
  /\ wheel.elapsed \in WheelTimes \cup {NoTimer} /\ at \in WheelTimes \cup {NoTimer}
  /\ wheel.deadlines \in [TimerIds -> WheelTimes \cup {NoTimer}]
  /\ answer \in WheelTimes \cup TimerIds \cup {NoTimer}
  /\ IF at = NoTimer THEN wheel.pending = <<>> ELSE wheel.elapsed = at

\* insert keeps the invariant and is MapInsert.
LEMMA InsertAction ==
  ASSUME TimersInv, NEW r \in TimerIds, NEW d \in WheelTimes, insert(r, d)
  PROVE  TimersInv' /\ TM!MapInsert(r, d)
<1> DEFINE e == wheel.elapsed
           w1 == wheel_remove_inner(wheel, r)
           w2 == SetDeadline(w1, r, d)
           w3 == wheel_insert_inner(w2, r, d, e)
<1>1. /\ at = NoTimer /\ d > e /\ wheel' = w3 /\ answer' = NoTimer /\ at' = at
  BY DEF insert, SetDeadline
<1>2. Sound(wheel, {}) /\ Placed(wheel, PlacedAt(e)) /\ wheel.pending = <<>> /\ wheel \in Wheels
      /\ wheel.deadlines \in [TimerIds -> WheelTimes \cup {NoTimer}] /\ e \in WheelTimes \cup {NoTimer}
  BY <1>1 DEF TimersInv, Sound
<1>3. e \in Nat /\ d \in Nat /\ d # NoTimer
  BY <1>2, WheelFields, WheelAssumption DEF NoTimer
<1>4. \E X \in {{}, {r}} : /\ Sound(w1, X) /\ (w1.deadlines[r] = NoTimer \/ r \in X)
                           /\ Placed(w1, PlacedAt(e)) /\ w1.deadlines = wheel.deadlines
                           /\ w1.elapsed = e /\ w1.pending = <<>>
  <2>0. w1 = wheel_remove_inner(wheel, r)
    OBVIOUS
  <2> HIDE DEF w1, e
  <2>1. CASE wheel.positions[r] # NoPos
    <3>1. /\ Sound(w1, {r}) /\ Placed(w1, PlacedAt(e)) /\ w1.positions[r] = NoPos
          /\ w1.deadlines = wheel.deadlines /\ w1.elapsed = e /\ w1.pending = <<>>
      <4>1. Sound(wheel, {}) /\ Placed(wheel, PlacedAt(e))
        BY <1>2
      <4>2. /\ Sound(w1, {r}) /\ Placed(w1, PlacedAt(e)) /\ w1.positions[r] = NoPos /\ wheel.deadlines[r] # NoTimer
            /\ w1.deadlines = wheel.deadlines /\ w1.elapsed = wheel.elapsed /\ w1.pending = wheel.pending
        BY <2>0, <2>1, <4>1, RemoveSound
      <4>3. QED
        BY <1>2, <4>2 DEF e
    <3>2. QED
      BY <3>1
  <2>2. CASE wheel.positions[r] = NoPos
    <3>1. w1 = wheel
      BY <2>0, <2>2 DEF wheel_remove_inner
    <3>2. wheel.deadlines[r] = NoTimer
      BY <1>2, <2>2, AtRest
    <3>3. QED
      BY <1>2, <3>1, <3>2 DEF e
  <2>3. QED
    BY <2>1, <2>2
<1> HIDE DEF e, w1
<1>5. PICK X \in {{}, {r}} : Sound(w1, X) /\ (w1.deadlines[r] = NoTimer \/ r \in X)
  BY <1>4
<1>6. Placed(w1, PlacedAt(e)) /\ w1.deadlines = wheel.deadlines /\ w1.elapsed = e /\ w1.pending = <<>>
      /\ w1 \in Wheels
  BY <1>4 DEF Sound
<1>7. Sound(w2, {r}) /\ Placed(w2, PlacedAt(e))
  <2>1. X \subseteq {r}
    OBVIOUS
  <2>2. QED
    BY <1>3, <1>5, <1>6, <2>1, DeadlineSound
<1>8. /\ w2 \in Wheels /\ w2.elapsed = e /\ w2.pending = <<>> /\ w2.deadlines = [wheel.deadlines EXCEPT ![r] = d]
      /\ w2.deadlines[r] = d
  <2>1. Dated(w2, w1, r, d)
    BY <1>3, <1>6, DeadlineFields
  <2>2. QED
    BY <1>6, <2>1 DEF Dated
<1> HIDE DEF w2
<1>9. PICK l \in Levels, s \in WheelSlots : level_slot(d, e) = <<l, s>> /\ <<l, s, d>> \in PlacedAt(e)
  BY <1>1, <1>3, LevelSlot
<1>10. Inserted(w3, w2, r, l, s)
  BY <1>8, <1>9, InsertFields
<1>11. w3.elapsed = e /\ w3.pending = <<>> /\ w3.deadlines = [wheel.deadlines EXCEPT ![r] = d]
  BY <1>8, <1>10 DEF Inserted
<1>12. Sound(w3, {})
  <2>1. Sound(w3, {r} \ {r})
    BY <1>7, <1>9, InsertSound
  <2>2. QED
    BY <2>1
<1>13. Placed(w3, PlacedAt(e))
  BY <1>7, <1>8, <1>9, InsertPlaced
<1> HIDE DEF w3
<1>14. TimersInv'
  <2>1. w3.deadlines \in [TimerIds -> WheelTimes \cup {NoTimer}]
    BY <1>2, <1>11
  <2>2. AllDue(w3, e)
    BY <1>11 DEF AllDue
  <2>3. QED
    BY <1>1, <1>2, <1>11, <1>12, <1>13, <2>1, <2>2 DEF TimersInv
<1>15. TM!MapInsert(r, d)
  BY <1>1, <1>11 DEF TM!MapInsert, e, NoTimer, TM!NoTimer
<1>16. QED
  BY <1>14, <1>15

\* remove keeps the invariant and is MapRemove.
LEMMA RemoveAction ==
  ASSUME TimersInv, NEW r \in TimerIds, remove(r)
  PROVE  TimersInv' /\ TM!MapRemove(r)
<1> DEFINE e == wheel.elapsed
           w1 == wheel_remove_inner(wheel, r)
           w2 == SetDeadline(w1, r, NoTimer)
<1>1. /\ at = NoTimer /\ answer' = NoTimer /\ at' = at
      /\ wheel' = IF wheel.deadlines[r] = NoTimer THEN wheel ELSE w2
  BY DEF remove, SetDeadline
<1>2. Sound(wheel, {}) /\ Placed(wheel, PlacedAt(e)) /\ wheel.pending = <<>> /\ wheel \in Wheels
      /\ wheel.deadlines \in [TimerIds -> WheelTimes \cup {NoTimer}] /\ e \in WheelTimes \cup {NoTimer}
      /\ AllDue(wheel, e)
  BY <1>1 DEF TimersInv, Sound
<1>3. /\ Sound(wheel', {}) /\ Placed(wheel', PlacedAt(e)) /\ wheel'.elapsed = e /\ wheel'.pending = <<>>
      /\ wheel'.deadlines = [wheel.deadlines EXCEPT ![r] = NoTimer]
  <2>1. CASE wheel.deadlines[r] = NoTimer
    <3>1. wheel' = wheel
      BY <1>1, <2>1
    <3>2. wheel.deadlines = [wheel.deadlines EXCEPT ![r] = NoTimer]
      BY <1>2, <2>1
    <3>3. QED
      BY <1>2, <3>1, <3>2
  <2>2. CASE wheel.deadlines[r] # NoTimer
    <3>1. wheel.positions[r] # NoPos
      BY <1>2, <2>2, AtRest
    <3>2. /\ Sound(w1, {r}) /\ Placed(w1, PlacedAt(e)) /\ w1.positions[r] = NoPos
          /\ w1.deadlines = wheel.deadlines /\ w1.elapsed = e /\ w1.pending = <<>>
      <4>0. w1 = wheel_remove_inner(wheel, r)
        OBVIOUS
      <4> HIDE DEF w1, e
      <4>1. Sound(wheel, {}) /\ Placed(wheel, PlacedAt(e))
        BY <1>2
      <4>2. /\ Sound(w1, {r}) /\ Placed(w1, PlacedAt(e)) /\ w1.positions[r] = NoPos /\ wheel.deadlines[r] # NoTimer
            /\ w1.deadlines = wheel.deadlines /\ w1.elapsed = wheel.elapsed /\ w1.pending = wheel.pending
        BY <3>1, <4>0, <4>1, RemoveSound
      <4>3. QED
        BY <1>2, <4>2 DEF e
    <3> HIDE DEF w1
    <3>3. w1 \in Wheels /\ NoTimer \in Nat
      BY <3>2 DEF Sound, NoTimer
    <3>4. Sound(w2, {}) /\ Placed(w2, PlacedAt(e))
      BY <3>2, <3>3, DeadlineSound
    <3>5. w2.elapsed = e /\ w2.pending = <<>> /\ w2.deadlines = [wheel.deadlines EXCEPT ![r] = NoTimer]
      <4>1. Dated(w2, w1, r, NoTimer)
        BY <3>2, <3>3, DeadlineFields
      <4>2. QED
        BY <3>2, <4>1 DEF Dated
    <3>6. QED
      BY <1>1, <2>2, <3>4, <3>5
  <2>3. QED
    BY <2>1, <2>2
<1>4. TimersInv'
  <2>1. wheel'.deadlines \in [TimerIds -> WheelTimes \cup {NoTimer}]
    BY <1>2, <1>3
  <2>2. AllDue(wheel', e)
    BY <1>3 DEF AllDue
  <2>3. QED
    BY <1>1, <1>2, <1>3, <2>1, <2>2 DEF TimersInv
<1>5. TM!MapRemove(r)
  BY <1>1, <1>3 DEF TM!MapRemove, NoTimer, TM!NoTimer
<1>6. QED
  BY <1>4, <1>5

\* What a pop answers once the wheel has been advanced: a timer that is due, or none
\* when none is.
LEMMA PopResult ==
  ASSUME NEW w, NEW now \in Nat, Sound(w, {}), Placed(w, PlacedAt(now)), AllDue(w, now),
         NEW p, p = PopPending(w, now)
  PROVE  \/ /\ p.rid = NoTimer /\ p.wheel = w /\ w.pending = <<>>
            /\ \A r \in TimerIds : w.deadlines[r] # NoTimer => now < w.deadlines[r]
         \/ /\ p.rid \in TimerIds /\ p.rid # NoTimer
            /\ w.deadlines[p.rid] # NoTimer /\ w.deadlines[p.rid] <= now
            /\ Sound(p.wheel, {}) /\ Placed(p.wheel, PlacedAt(now)) /\ AllDue(p.wheel, now)
            /\ p.wheel.elapsed = w.elapsed /\ p.wheel.deadlines = [w.deadlines EXCEPT ![p.rid] = NoTimer]
<1>1. w \in Wheels /\ SlotsOk(w, {}) /\ PositionsOk(w, {}) /\ DeadlinesOk(w, {}) /\ PendingOk(w, {})
  BY DEF Sound
<1>2. CASE w.pending = <<>>
  <2>1. p.rid = NoTimer /\ p.wheel = w
    BY <1>2, PopNone
  <2>2. ASSUME NEW r \in TimerIds, w.deadlines[r] # NoTimer PROVE now < w.deadlines[r]
    <3>1. w.positions[r] # NoPos
      BY <1>2, <2>2, AtRest
    <3>2. PICK l \in Levels, s \in WheelSlots : \E i \in DOMAIN w.levels[l][s] : w.levels[l][s][i] = r
      BY <1>1, <3>1 DEF PositionsOk
    <3>3. <<l, s, w.deadlines[r]>> \in PlacedAt(now)
      BY <3>2 DEF Placed
    <3>4. QED
      BY <3>3, PlacedAhead
  <2>3. QED
    BY <1>2, <2>1, <2>2
<1>3. CASE w.pending # <<>>
  <2> DEFINE r == w.pending[Len(w.pending)]
  <2>1. r \in TimerIds /\ r # NoTimer /\ p.rid = r /\ Popped(p.wheel, w, r)
    BY <1>3, PopFields
  <2>2. Sound(p.wheel, {}) /\ Placed(p.wheel, PlacedAt(now)) /\ AllDue(p.wheel, now)
    BY <1>3, <2>1, PopSound
  <2>3. w.deadlines[r] # NoTimer /\ w.deadlines[r] <= now
    <3>1. w.pending \in Seq(TimerIds)
      BY <1>1, WheelFields
    <3>2. Len(w.pending) \in DOMAIN w.pending
      BY <1>3, <3>1
    <3>3. QED
      BY <1>1, <3>2 DEF PendingOk, AllDue
  <2> HIDE DEF r
  <2>4. p.wheel.elapsed = w.elapsed /\ p.wheel.deadlines = [w.deadlines EXCEPT ![r] = NoTimer]
    BY <2>1 DEF Popped
  <2>5. QED
    BY <2>1, <2>2, <2>3, <2>4
<1>4. QED
  BY <1>2, <1>3

\* A round of wake_expired_timers keeps the invariant and is MapPop.
LEMMA WakeAction ==
  ASSUME TimersInv, NEW now \in WheelTimes, wake_expired(now)
  PROVE  TimersInv' /\ TM!MapPop(now)
<1> DEFINE e == wheel.elapsed
           p == try_pop_expired(wheel, now)
<1>1. /\ at \in {NoTimer, now} /\ now >= e /\ wheel' = p.wheel /\ answer' = p.rid
      /\ at' = IF p.rid = NoTimer THEN NoTimer ELSE now
  BY DEF wake_expired
<1>2. now \in Nat /\ now # NoTimer
  BY WheelAssumption DEF NoTimer
<1>3. /\ Sound(wheel, {}) /\ Placed(wheel, PlacedAt(e)) /\ AllDue(wheel, e) /\ wheel \in Wheels /\ e \in Nat
      /\ wheel.deadlines \in [TimerIds -> WheelTimes \cup {NoTimer}]
      /\ IF at = NoTimer THEN wheel.pending = <<>> ELSE e = at
  BY WheelFields DEF TimersInv, Sound
<1>4. \E w : /\ Sound(w, {}) /\ Placed(w, PlacedAt(now)) /\ AllDue(w, now) /\ w.elapsed = now
             /\ w.deadlines = wheel.deadlines /\ p = PopPending(w, now)
  <2> DEFINE first == PopPending(wheel, now)
             w == IF first.wheel.elapsed < now THEN advance_to(first.wheel, now) ELSE first.wheel
  <2>1. p = IF first.rid # NoTimer THEN first ELSE PopPending(w, now)
    BY DEF try_pop_expired
  <2>2. CASE wheel.pending = <<>>
    <3>1. first.rid = NoTimer /\ first.wheel = wheel
      BY <1>2, <1>3, <2>2, PopNone
    <3> HIDE DEF first
    <3>2. p = PopPending(w, now)
      BY <2>1, <3>1
    <3>3. CASE e < now
      <4>1. w = advance_to(wheel, now)
        BY <3>1, <3>3
      <4>2. AllDue(wheel, now) /\ e <= now
        BY <1>1, <2>2 DEF AllDue
      <4> HIDE DEF w
      <4>3. /\ Sound(w, {}) /\ Placed(w, PlacedAt(now)) /\ AllDue(w, now)
            /\ w.deadlines = wheel.deadlines /\ w.elapsed = now
        BY <1>2, <1>3, <4>1, <4>2, AdvanceStep
      <4>4. QED
        BY <3>2, <4>3
    <3>4. CASE ~(e < now)
      <4>1. w = wheel /\ e = now
        BY <1>1, <1>2, <1>3, <3>1, <3>4
      <4>2. QED
        BY <1>3, <3>2, <4>1
    <3>5. QED
      BY <3>3, <3>4
  <2>3. CASE wheel.pending # <<>>
    <3>1. e = now
      BY <1>1, <1>3, <2>3
    <3>2. first.rid # NoTimer
      BY <1>2, <1>3, <2>3, <3>1, PopFields
    <3>3. p = PopPending(wheel, now)
      BY <2>1, <3>2
    <3>4. QED
      BY <1>3, <3>1, <3>3
  <2>4. QED
    BY <2>2, <2>3
<1>5. PICK w : /\ Sound(w, {}) /\ Placed(w, PlacedAt(now)) /\ AllDue(w, now) /\ w.elapsed = now
               /\ w.deadlines = wheel.deadlines /\ p = PopPending(w, now)
  BY <1>4
<1> HIDE DEF p
<1>6. CASE /\ p.rid = NoTimer /\ p.wheel = w /\ w.pending = <<>>
           /\ \A r \in TimerIds : w.deadlines[r] # NoTimer => now < w.deadlines[r]
  <2>1. wheel' = w /\ answer' = NoTimer /\ at' = NoTimer
    BY <1>1, <1>6
  <2>2. TimersInv'
    BY <1>3, <1>5, <1>6, <2>1 DEF TimersInv
  <2>3. TM!Due(now) = {}
    <3>1. ASSUME NEW r \in TimerIds PROVE ~(wheel.deadlines[r] # NoTimer /\ wheel.deadlines[r] <= now)
      <4>1. wheel.deadlines[r] \in Nat
        BY <1>3, WheelFields
      <4>2. QED
        BY <1>2, <1>5, <1>6, <4>1
    <3>2. QED
      BY <3>1 DEF TM!Due, NoTimer, TM!NoTimer
  <2>4. TM!MapPop(now)
    BY <1>1, <1>5, <2>1, <2>3 DEF TM!MapPop, NoTimer, TM!NoTimer
  <2>5. QED
    BY <2>2, <2>4
<1>7. CASE /\ p.rid \in TimerIds /\ p.rid # NoTimer
           /\ w.deadlines[p.rid] # NoTimer /\ w.deadlines[p.rid] <= now
           /\ Sound(p.wheel, {}) /\ Placed(p.wheel, PlacedAt(now)) /\ AllDue(p.wheel, now)
           /\ p.wheel.elapsed = w.elapsed /\ p.wheel.deadlines = [w.deadlines EXCEPT ![p.rid] = NoTimer]
  <2>1. at' = now /\ answer' = p.rid /\ wheel' = p.wheel
    BY <1>1, <1>7
  <2>2. TimersInv'
    <3>1. p.wheel.deadlines \in [TimerIds -> WheelTimes \cup {NoTimer}]
      BY <1>3, <1>5, <1>7
    <3>2. QED
      BY <1>2, <1>5, <1>7, <2>1, <3>1 DEF TimersInv
  <2>3. p.rid \in TM!Due(now)
    BY <1>5, <1>7 DEF TM!Due, NoTimer, TM!NoTimer
  <2>4. TM!MapPop(now)
    BY <1>1, <1>5, <1>7, <2>1, <2>3 DEF TM!MapPop, NoTimer, TM!NoTimer
  <2>5. QED
    BY <2>2, <2>4
<1>8. QED
  BY <1>2, <1>5, <1>6, <1>7, PopResult

(***************************************************************************)
(* next_deadline.                                                          *)
(***************************************************************************)
\* Two slots within one round of each other are the same only at the same distance.
LEMMA ModWindow ==
  ASSUME NEW c \in Nat, NEW w \in Nat \ {0}, NEW a \in 1..w, NEW b \in 1..w,
         (c + a) % w = (c + b) % w
  PROVE  a = b
<1> DEFINE p == (c + a) \div w
           q == (c + b) \div w
           m == (c + a) % w
<1>1. c + a \in Nat /\ c + b \in Nat
  OBVIOUS
<1>2. p \in Nat /\ c + a = w * p + m /\ m \in 0..(w - 1)
  BY <1>1, DivFacts
<1>3. q \in Nat /\ c + b = w * q + m
  BY <1>1, DivFacts
<1> HIDE DEF p, q, m
<1>4. ASSUME p < q PROVE FALSE
  <2>1. w * (p + 1) <= w * q
    BY <1>2, <1>3, <1>4, MulMono
  <2>2. w * (p + 1) = w * p + w
    BY <1>2
  <2>3. QED
    BY <1>2, <1>3, <2>1, <2>2
<1>5. ASSUME q < p PROVE FALSE
  <2>1. w * (q + 1) <= w * p
    BY <1>2, <1>3, <1>5, MulMono
  <2>2. w * (q + 1) = w * q + w
    BY <1>3
  <2>3. QED
    BY <1>2, <1>3, <2>1, <2>2
<1>6. p = q
  BY <1>2, <1>3, <1>4, <1>5
<1>7. QED
  BY <1>2, <1>3, <1>6

\* MinOf is the earliest of the deadlines there are.
LEMMA MinOfFacts ==
  ASSUME NEW ds, ds \subseteq Nat
  PROVE  /\ ds \subseteq {NoTimer} => MinOf(ds) = NoTimer
         /\ ~(ds \subseteq {NoTimer}) => /\ MinOf(ds) \in ds /\ MinOf(ds) # NoTimer
                                         /\ \A y \in ds : y # NoTimer => MinOf(ds) <= y
<1>1. CASE ds \subseteq {NoTimer}
  BY <1>1 DEF MinOf
<1>2. CASE ~(ds \subseteq {NoTimer})
  <2> DEFINE S == ds \ {NoTimer}
  <2>1. S \subseteq Nat /\ S # {}
    BY <1>2
  <2>2. Min(S) \in S /\ \A y \in S : Min(S) <= y
    <3> HIDE DEF S
    <3>1. QED
      BY <2>1, LeastNat
  <2>3. MinOf(ds) = Min(S)
    BY <1>2 DEF MinOf
  <2>4. QED
    BY <1>2, <2>2, <2>3
<1>3. QED
  BY <1>1, <1>2

\* What the scan of a level may answer: the earliest of its timers, or none when the
\* candidate in hand is before all of them.
Scanned(w, l, bound, c) ==
  \/ c = NoTimer /\ \A r \in On(w, l) : bound # NoTimer /\ bound < w.deadlines[r]
  \/ \E r \in On(w, l) : /\ c = w.deadlines[r] /\ c # NoTimer
                         /\ \A q \in On(w, l) : c <= w.deadlines[q]

\* A timer on a level is that many slots ahead, and only in that slot.
LEMMA OnLevel ==
  ASSUME NEW w, Sound(w, {}), Placed(w, PlacedAt(w.elapsed)),
         NEW l \in Levels, l < NumLevels - 1, NEW r \in On(w, l)
  PROVE  /\ w.deadlines[r] \in Nat /\ w.deadlines[r] # NoTimer
         /\ \E o \in 1..WheelSize :
              /\ Ticks(w.deadlines[r], l) = Ticks(w.elapsed, l) + o
              /\ r \in Range(w.levels[l][(Ticks(w.elapsed, l) + o) % WheelSize])
<1> DEFINE cur == Ticks(w.elapsed, l)
           d == w.deadlines[r]
           t == Ticks(d, l)
           o == t - cur
<1>1. w \in Wheels /\ SlotsOk(w, {})
  BY DEF Sound
<1>2. w.elapsed \in Nat /\ l \in 0..NumLevels /\ WheelSize \in Nat \ {0} /\ r \in TimerIds
  BY <1>1, WheelFields, Sizes DEF Levels, On
<1>3. PICK s \in WheelSlots : \E i \in DOMAIN w.levels[l][s] : w.levels[l][s][i] = r
  BY DEF On
<1>4. PICK i \in DOMAIN w.levels[l][s] : w.levels[l][s][i] = r
  BY <1>3
<1>5. d \in Nat /\ d # NoTimer
  BY <1>1, <1>2, <1>4, WheelFields DEF SlotsOk
<1>6. <<l, s, d>> \in PlacedAt(w.elapsed)
  BY <1>4 DEF Placed
<1>7. s = t % WheelSize /\ cur < t /\ t <= cur + WheelSize
  BY <1>6 DEF PlacedAt
<1>8. cur \in Nat /\ t \in Nat
  BY <1>2, <1>5, TicksFacts
<1> HIDE DEF cur, t, d
<1>9. o \in 1..WheelSize /\ t = cur + o
  BY <1>2, <1>7, <1>8
<1>10. r \in Range(w.levels[l][s])
  BY <1>4 DEF Range
<1>11. r \in Range(w.levels[l][(cur + o) % WheelSize])
  BY <1>7, <1>9, <1>10
<1>12. QED
  BY <1>5, <1>9, <1>11 DEF cur, t, d

\* The timers of the slot that is o ahead are all exactly o slots ahead.
LEMMA InSlot ==
  ASSUME NEW w, Sound(w, {}), Placed(w, PlacedAt(w.elapsed)),
         NEW l \in Levels, l < NumLevels - 1, NEW o \in 1..WheelSize,
         NEW r \in Range(w.levels[l][(Ticks(w.elapsed, l) + o) % WheelSize])
  PROVE  r \in On(w, l) /\ Ticks(w.deadlines[r], l) = Ticks(w.elapsed, l) + o
<1> DEFINE cur == Ticks(w.elapsed, l)
           s == (cur + o) % WheelSize
           t == Ticks(w.deadlines[r], l)
<1>1. w \in Wheels
  BY DEF Sound
<1>2. cur \in Nat /\ WheelSize \in Nat \ {0}
  <2>1. w.elapsed \in Nat /\ l \in 0..NumLevels /\ WheelSize \in Nat \ {0}
    BY <1>1, WheelFields, Sizes DEF Levels
  <2>2. QED
    BY <2>1, TicksFacts
<1>3. s \in WheelSlots
  <2>1. cur + o \in Nat
    BY <1>2
  <2>2. QED
    BY <1>2, <2>1, DivFacts DEF WheelSlots
<1>4. PICK i \in DOMAIN w.levels[l][s] : w.levels[l][s][i] = r
  BY DEF Range
<1> HIDE DEF s
<1>5. r \in TimerIds
  BY <1>1, <1>3, <1>4, SlotEntry
<1>6. r \in On(w, l)
  BY <1>3, <1>4, <1>5 DEF On
<1>7. <<l, s, w.deadlines[r]>> \in PlacedAt(w.elapsed)
  BY <1>3, <1>4 DEF Placed
<1>8. s = t % WheelSize
  BY <1>7 DEF PlacedAt
<1>9. PICK a \in 1..WheelSize : t = cur + a
  BY <1>6, OnLevel
<1>10. (cur + a) % WheelSize = (cur + o) % WheelSize
  BY <1>8, <1>9 DEF s
<1>11. a = o
  <2> HIDE DEF cur, t
  <2>1. QED
    BY <1>2, <1>10, ModWindow
<1>12. QED
  BY <1>6, <1>9, <1>11

\* A level that counts no timer has none.
LEMMA EmptyLevel ==
  ASSUME NEW w, Sound(w, {}), NEW l \in Levels, w.level_counts[l] = 0
  PROVE  On(w, l) = {}
<1>1. IsFiniteSet(On(w, l)) /\ Cardinality(On(w, l)) = 0
  BY DEF Sound, CountsOk
<1>2. QED
  BY <1>1, FS_EmptySet

\* scan_level_min: the first occupied slot has the level's earliest timer.
LEMMA ScanLevel ==
  ASSUME NEW w, Sound(w, {}), Placed(w, PlacedAt(w.elapsed)),
         NEW l \in Levels, l < NumLevels - 1, NEW bound \in Nat
  PROVE  Scanned(w, l, bound, scan_level_min(w, l, bound))
<1> DEFINE cur == Ticks(w.elapsed, l)
           Slot(k) == w.levels[l][(cur + k) % WheelSize]
           occupied == {k \in 1..WheelSize : Slot(k) # <<>>}
           o == Min(occupied)
           c == scan_level_min(w, l, bound)
           D == {w.deadlines[r] : r \in Range(Slot(o))}
<1>1. c = IF w.level_counts[l] = 0 \/ occupied = {} THEN NoTimer
          ELSE IF bound # NoTimer /\ Ticks(bound, l) < cur + o THEN NoTimer
          ELSE IF l = 0 THEN w.deadlines[Slot(o)[1]]
          ELSE MinOf(D)
  BY DEF scan_level_min
<1>2. w \in Wheels /\ w.elapsed \in Nat /\ l \in 0..NumLevels /\ cur \in Nat /\ WheelSize \in Nat \ {0}
  <2>1. w \in Wheels
    BY DEF Sound
  <2>2. w.elapsed \in Nat /\ l \in 0..NumLevels /\ WheelSize \in Nat \ {0}
    BY <2>1, WheelFields, Sizes DEF Levels
  <2>3. QED
    BY <2>1, <2>2, TicksFacts
<1>3. \A k \in 1..WheelSize : Slot(k) \in Seq(TimerIds)
  <2>1. SUFFICES ASSUME NEW k \in 1..WheelSize PROVE Slot(k) \in Seq(TimerIds)
    OBVIOUS
  <2>2. cur + k \in Nat
    BY <1>2
  <2>3. (cur + k) % WheelSize \in WheelSlots
    BY <1>2, <2>2, DivFacts DEF WheelSlots
  <2>4. QED
    BY <1>2, <2>3, WheelFields
<1>4. \A r \in On(w, l) : /\ w.deadlines[r] \in Nat /\ w.deadlines[r] # NoTimer
                          /\ \E k \in 1..WheelSize : Ticks(w.deadlines[r], l) = cur + k /\ r \in Range(Slot(k))
  BY OnLevel
<1>5. \A k \in 1..WheelSize : \A r \in Range(Slot(k)) : r \in On(w, l) /\ Ticks(w.deadlines[r], l) = cur + k
  BY InSlot
<1>6. occupied = {} => On(w, l) = {}
  <2>1. \A k \in 1..WheelSize : \A r \in Range(Slot(k)) : Slot(k) # <<>>
    BY DEF Range
  <2>2. QED
    BY <1>4, <2>1
<1> HIDE DEF cur, Slot, c
<1>7. ASSUME occupied # {}
      PROVE  /\ o \in 1..WheelSize /\ Slot(o) # <<>>
             /\ \A r \in On(w, l) : \E k \in 1..WheelSize :
                  Ticks(w.deadlines[r], l) = cur + k /\ o <= k /\ r \in Range(Slot(k))
  <2>1. occupied \subseteq Nat
    OBVIOUS
  <2>2. o \in occupied /\ \A k \in occupied : o <= k
    <3> HIDE DEF occupied
    <3>1. QED
      BY <1>7, <2>1, LeastNat
  <2>3. \A k \in 1..WheelSize : \A r \in Range(Slot(k)) : k \in occupied
    BY DEF Range
  <2> HIDE DEF o
  <2>4. QED
    BY <1>4, <2>2, <2>3
<1> HIDE DEF occupied, o, D
<1>8. CASE w.level_counts[l] = 0 \/ occupied = {}
  <2>1. On(w, l) = {} /\ c = NoTimer
    BY <1>1, <1>6, <1>8, EmptyLevel
  <2>2. QED
    BY <2>1 DEF Scanned, c
<1>9. CASE w.level_counts[l] # 0 /\ occupied # {} /\ bound # NoTimer /\ Ticks(bound, l) < cur + o
  <2>1. c = NoTimer
    BY <1>1, <1>9
  <2>2. ASSUME NEW r \in On(w, l) PROVE bound < w.deadlines[r]
    <3>1. PICK k \in 1..WheelSize : Ticks(w.deadlines[r], l) = cur + k /\ o <= k
      BY <1>7, <1>9
    <3>2. w.deadlines[r] \in Nat
      BY <1>4
    <3>3. o \in Nat /\ Ticks(bound, l) \in Nat
      <4>1. o \in 1..WheelSize
        BY <1>7, <1>9
      <4>2. Ticks(bound, l) \in Nat
        BY <1>2, TicksFacts
      <4>3. QED
        BY <4>1, <4>2
    <3>4. Ticks(bound, l) < Ticks(w.deadlines[r], l)
      BY <1>2, <1>9, <3>1, <3>3
    <3>5. w.deadlines[r] <= bound => Ticks(w.deadlines[r], l) <= Ticks(bound, l)
      BY <1>2, <3>2, TicksMono
    <3>6. Ticks(w.deadlines[r], l) \in Nat
      BY <1>2, <3>2, TicksFacts
    <3>7. QED
      BY <3>2, <3>3, <3>4, <3>5, <3>6
  <2>3. QED
    BY <1>9, <2>1, <2>2 DEF Scanned, c
<1>10. CASE w.level_counts[l] # 0 /\ occupied # {} /\ ~(bound # NoTimer /\ Ticks(bound, l) < cur + o)
  <2>1. o \in 1..WheelSize /\ Slot(o) # <<>> /\ Slot(o) \in Seq(TimerIds)
    BY <1>3, <1>7, <1>10
  <2>2. 1 \in DOMAIN Slot(o)
    <3> HIDE DEF Slot
    <3>1. QED
      BY <2>1
  <2>3. Slot(o)[1] \in Range(Slot(o))
    BY <2>2 DEF Range
  <2>4. CASE l = 0
    <3> DEFINE r == Slot(o)[1]
    <3>1. c = w.deadlines[r]
      BY <1>1, <1>10, <2>4
    <3>2. r \in On(w, l) /\ Ticks(w.deadlines[r], l) = cur + o
      BY <1>5, <2>1, <2>3
    <3> HIDE DEF r
    <3>3. ASSUME NEW q \in On(w, l) PROVE Ticks(w.deadlines[q], l) = w.deadlines[q] /\ w.deadlines[q] \in Nat
      BY <1>4, <2>4, TicksZero
    <3>4. ASSUME NEW q \in On(w, l) PROVE c <= w.deadlines[q]
      <4>1. PICK k \in 1..WheelSize : Ticks(w.deadlines[q], l) = cur + k /\ o <= k
        BY <1>7, <1>10
      <4>2. QED
        BY <1>2, <2>1, <3>1, <3>2, <3>3, <4>1
    <3>5. c # NoTimer
      BY <1>4, <3>1, <3>2
    <3>6. QED
      BY <3>1, <3>2, <3>4, <3>5 DEF Scanned, c
  <2>5. CASE l # 0
    <3>1. c = MinOf(D)
      BY <1>1, <1>10, <2>5
    <3>2. D \subseteq Nat /\ ~(D \subseteq {NoTimer})
      <4>1. \A r \in Range(Slot(o)) : w.deadlines[r] \in Nat /\ w.deadlines[r] # NoTimer
        BY <1>4, <1>5, <2>1
      <4>2. QED
        BY <2>3, <4>1 DEF D
    <3>3. c \in D /\ c # NoTimer /\ \A y \in D : y # NoTimer => c <= y
      BY <3>1, <3>2, MinOfFacts
    <3>4. PICK r \in Range(Slot(o)) : c = w.deadlines[r]
      BY <3>3 DEF D
    <3>5. r \in On(w, l) /\ Ticks(w.deadlines[r], l) = cur + o /\ w.deadlines[r] \in Nat
      BY <1>4, <1>5, <2>1
    <3>6. ASSUME NEW q \in On(w, l) PROVE c <= w.deadlines[q]
      <4>1. PICK k \in 1..WheelSize : Ticks(w.deadlines[q], l) = cur + k /\ o <= k /\ q \in Range(Slot(k))
        BY <1>7, <1>10
      <4>2. w.deadlines[q] \in Nat /\ w.deadlines[q] # NoTimer
        BY <1>4
      <4>3. CASE k = o
        <5>1. w.deadlines[q] \in D
          BY <4>1, <4>3 DEF D
        <5>2. QED
          BY <3>3, <4>2, <5>1
      <4>4. CASE o < k
        <5>1. w.deadlines[q] <= w.deadlines[r] => Ticks(w.deadlines[q], l) <= Ticks(w.deadlines[r], l)
          BY <1>2, <3>5, <4>2, TicksMono
        <5>2. QED
          BY <1>2, <2>1, <3>4, <3>5, <4>1, <4>2, <4>4, <5>1
      <4>5. QED
        BY <2>1, <4>1, <4>3, <4>4
    <3>7. QED
      BY <3>3, <3>4, <3>5, <3>6 DEF Scanned, c
  <2>6. QED
    BY <2>4, <2>5
<1>11. QED
  BY <1>8, <1>9, <1>10

\* scan_level3_min looks at every timer of the last level.
LEMMA ScanLast ==
  ASSUME NEW w, Sound(w, {})
  PROVE  Scanned(w, NumLevels - 1, NoTimer, scan_level3_min(w))
<1> DEFINE l == NumLevels - 1
           U == UNION {Range(w.levels[l][s]) : s \in WheelSlots}
           D == {w.deadlines[r] : r \in U}
           c == scan_level3_min(w)
<1>1. c = IF w.level_counts[l] = 0 THEN NoTimer ELSE MinOf(D)
  BY DEF scan_level3_min
<1>2. w \in Wheels /\ SlotsOk(w, {}) /\ l \in Levels
  BY Sizes DEF Sound
<1>3. U = On(w, l)
  <2>1. ASSUME NEW r \in U PROVE r \in On(w, l)
    <3>1. PICK s \in WheelSlots : r \in Range(w.levels[l][s])
      OBVIOUS
    <3>2. PICK i \in DOMAIN w.levels[l][s] : w.levels[l][s][i] = r
      BY <3>1 DEF Range
    <3>3. r \in TimerIds
      BY <1>2, <3>2, SlotEntry
    <3>4. QED
      BY <3>2, <3>3 DEF On
  <2>2. ASSUME NEW r \in On(w, l) PROVE r \in U
    <3>1. PICK s \in WheelSlots : \E i \in DOMAIN w.levels[l][s] : w.levels[l][s][i] = r
      BY DEF On
    <3>2. r \in Range(w.levels[l][s])
      BY <3>1 DEF Range
    <3>3. QED
      BY <3>2
  <2>3. QED
    BY <2>1, <2>2
<1>4. ASSUME NEW r \in On(w, l) PROVE w.deadlines[r] \in Nat /\ w.deadlines[r] # NoTimer
  <2>1. PICK s \in WheelSlots : \E i \in DOMAIN w.levels[l][s] : w.levels[l][s][i] = r
    BY DEF On
  <2>2. r \in TimerIds
    BY DEF On
  <2>3. QED
    BY <1>2, <2>1, <2>2, WheelFields DEF SlotsOk
<1> HIDE DEF l, U, c
<1>5. D \subseteq Nat /\ NoTimer \notin D
  BY <1>3, <1>4
<1>6. CASE On(w, l) = {}
  <2>1. c = NoTimer
    <3>1. D \subseteq {NoTimer}
      BY <1>3, <1>6
    <3> HIDE DEF D
    <3>2. QED
      BY <1>1, <1>5, <3>1, MinOfFacts
  <2>2. QED
    BY <1>6, <2>1 DEF Scanned, c, l
<1>7. CASE On(w, l) # {}
  <2>1. w.level_counts[l] # 0
    BY <1>2, <1>7, EmptyLevel
  <2>2. ~(D \subseteq {NoTimer})
    BY <1>3, <1>5, <1>7
  <2>3. c \in D /\ c # NoTimer /\ \A y \in D : y # NoTimer => c <= y
    <3> HIDE DEF D
    <3>1. QED
      BY <1>1, <1>5, <2>1, <2>2, MinOfFacts
  <2>4. PICK r \in On(w, l) : c = w.deadlines[r]
    BY <1>3, <2>3
  <2>5. \A q \in On(w, l) : c <= w.deadlines[q]
    BY <1>3, <1>4, <2>3
  <2>6. QED
    BY <2>3, <2>4, <2>5 DEF Scanned, c, l
<1>8. QED
  BY <1>6, <1>7

\* next_deadline answers the earliest deadline of all.
LEMMA ScanWheel ==
  ASSUME NEW w, Sound(w, {}), Placed(w, PlacedAt(w.elapsed)), w.pending = <<>>,
         NEW D, D = {w.deadlines[r] : r \in TimerIds} \ {NoTimer}, D # {}
  PROVE  D \subseteq Nat /\ scan_wheel_min(w) = Min(D)
<1> DEFINE c0 == scan_level_min(w, 0, NoTimer)
           c3 == scan_level3_min(w)
           C == {c0, c3} \cup {scan_level_min(w, l, c0) : l \in 1..(NumLevels - 2)}
           P == {w.deadlines[w.pending[i]] : i \in DOMAIN w.pending}
<1>1. scan_wheel_min(w) = MinOf(C)
  <2>1. P = {}
    OBVIOUS
  <2>2. MinOf(P) = NoTimer
    BY <2>1 DEF MinOf
  <2> HIDE DEF P, C, c0
  <2>3. scan_wheel_min(w) = IF MinOf(P) # NoTimer THEN MinOf(P) ELSE MinOf(C)
    BY DEF scan_wheel_min, P, C, c0
  <2>4. QED
    BY <2>2, <2>3
<1>2. w \in Wheels /\ PositionsOk(w, {}) /\ D \subseteq Nat
  <2>1. w \in Wheels /\ PositionsOk(w, {})
    BY DEF Sound
  <2>2. QED
    BY <2>1, WheelFields
<1>3. Scanned(w, 0, NoTimer, c0)
  <2>1. 0 \in Levels /\ 0 < NumLevels - 1 /\ NoTimer \in Nat
    BY Sizes DEF NoTimer
  <2>2. QED
    BY <2>1, ScanLevel
<1>4. Scanned(w, NumLevels - 1, NoTimer, c3)
  BY ScanLast
<1> HIDE DEF c0, c3
<1>5. \A l, bound, c : Scanned(w, l, bound, c) => c = NoTimer \/ c \in D
  <2>1. SUFFICES ASSUME NEW l, NEW bound, NEW c, Scanned(w, l, bound, c), c # NoTimer PROVE c \in D
    OBVIOUS
  <2>2. PICK r \in On(w, l) : c = w.deadlines[r]
    BY <2>1 DEF Scanned
  <2>3. r \in TimerIds
    BY DEF On
  <2>4. QED
    BY <2>1, <2>2, <2>3
<1>6. c0 \in Nat /\ (c0 = NoTimer \/ c0 \in D)
  BY <1>2, <1>3, <1>5 DEF NoTimer
<1>7. \A l \in 1..(NumLevels - 2) : Scanned(w, l, c0, scan_level_min(w, l, c0))
  <2>1. SUFFICES ASSUME NEW l \in 1..(NumLevels - 2) PROVE Scanned(w, l, c0, scan_level_min(w, l, c0))
    OBVIOUS
  <2>2. l \in Levels /\ l < NumLevels - 1
    BY Sizes DEF Levels
  <2>3. QED
    BY <1>6, <2>2, ScanLevel
<1>8. \A c \in C : c = NoTimer \/ c \in D
  BY <1>3, <1>4, <1>5, <1>7
<1>9. ASSUME NEW d \in D PROVE \E c \in C : c # NoTimer /\ c <= d
  <2>1. PICK r \in TimerIds : d = w.deadlines[r] /\ w.deadlines[r] # NoTimer
    OBVIOUS
  <2>2. w.positions[r] # NoPos
    BY <2>1, AtRest
  <2>3. PICK l \in Levels : r \in On(w, l)
    BY <1>2, <2>2 DEF PositionsOk, On
  <2>4. ASSUME NEW c, Scanned(w, l, NoTimer, c) PROVE c # NoTimer /\ c <= d
    BY <2>1, <2>3, <2>4 DEF Scanned
  <2>5. CASE l = 0
    BY <1>3, <2>4, <2>5
  <2>6. CASE l = NumLevels - 1
    BY <1>4, <2>4, <2>6
  <2>7. CASE l \in 1..(NumLevels - 2)
    <3> DEFINE c == scan_level_min(w, l, c0)
    <3>1. Scanned(w, l, c0, c) /\ c \in C
      BY <1>7, <2>7
    <3> HIDE DEF c, C
    <3>2. CASE c0 # NoTimer /\ c0 < w.deadlines[r]
      <4>1. c0 \in C /\ d \in Nat
        BY <1>2 DEF C
      <4>2. QED
        BY <1>6, <2>1, <3>2, <4>1
    <3>3. CASE ~(c0 # NoTimer /\ c0 < w.deadlines[r])
      <4>1. c # NoTimer /\ c <= w.deadlines[r]
        BY <2>3, <3>1, <3>3 DEF Scanned
      <4>2. QED
        BY <2>1, <3>1, <4>1
    <3>4. QED
      BY <3>2, <3>3
  <2>8. l = 0 \/ l = NumLevels - 1 \/ l \in 1..(NumLevels - 2)
    BY Sizes DEF Levels
  <2>9. QED
    BY <2>5, <2>6, <2>7, <2>8
<1>10. C \subseteq Nat /\ ~(C \subseteq {NoTimer})
  <2>1. NoTimer \in Nat
    BY DEF NoTimer
  <2> HIDE DEF C
  <2>2. QED
    BY <1>2, <1>8, <1>9, <2>1
<1> HIDE DEF C
<1>11. MinOf(C) \in C /\ MinOf(C) # NoTimer /\ \A y \in C : y # NoTimer => MinOf(C) <= y
  BY <1>10, MinOfFacts
<1>12. MinOf(C) \in D
  BY <1>8, <1>11
<1>13. Min(D) \in D /\ \A y \in D : Min(D) <= y
  BY <1>2, LeastNat
<1>14. MinOf(C) <= Min(D)
  <2>1. PICK c \in C : c # NoTimer /\ c <= Min(D)
    BY <1>9, <1>13
  <2>2. MinOf(C) <= c /\ MinOf(C) \in Nat /\ c \in Nat /\ Min(D) \in Nat
    BY <1>2, <1>10, <1>11, <1>13, <2>1
  <2>3. QED
    BY <2>1, <2>2
<1>15. Min(D) <= MinOf(C)
  BY <1>12, <1>13
<1>16. MinOf(C) \in Nat /\ Min(D) \in Nat
  BY <1>2, <1>12, <1>13
<1>17. QED
  BY <1>1, <1>2, <1>14, <1>15, <1>16

\* next_deadline keeps the invariant and is MapNextDeadline.
LEMMA NextAction ==
  ASSUME TimersInv, next_deadline
  PROVE  TimersInv' /\ TM!MapNextDeadline
<1> DEFINE D == {wheel.deadlines[r] : r \in TimerIds} \ {NoTimer}
           a == IF D = {} THEN NoTimer ELSE Min(D)
<1>1. Sound(wheel, {}) /\ Placed(wheel, PlacedAt(wheel.elapsed)) /\ at = NoTimer /\ wheel.pending = <<>>
      /\ wheel' = wheel /\ at' = at
  BY DEF TimersInv, next_deadline
<1>2. answer' = a
  <2>1. D = {} <=> \A r \in TimerIds : wheel.deadlines[r] = NoTimer
    OBVIOUS
  <2>2. D # {} => scan_wheel_min(wheel) = Min(D)
    BY <1>1, ScanWheel
  <2>3. QED
    BY <2>1, <2>2 DEF next_deadline
<1>3. a \in WheelTimes \cup {NoTimer}
  <2>1. D \subseteq WheelTimes
    BY DEF TimersInv
  <2>2. D # {} => Min(D) \in D
    <3>1. D \subseteq Nat
      BY <2>1, WheelAssumption
    <3> HIDE DEF D
    <3>2. QED
      BY <3>1, LeastNat
  <2> HIDE DEF D
  <2>3. QED
    BY <2>1, <2>2
<1>4. TM!Deadlines = D
  BY DEF TM!Deadlines, NoTimer, TM!NoTimer
<1> HIDE DEF D
<1>5. TimersInv'
  BY <1>1, <1>2, <1>3 DEF TimersInv
<1>6. TM!MapNextDeadline
  <2>1. TM!Min(D) = Min(D)
    BY Zenon DEF Min, TM!Min
  <2>2. QED
    BY <1>1, <1>2, <1>4, <2>1 DEF TM!MapNextDeadline, NoTimer, TM!NoTimer
<1>7. QED
  BY <1>5, <1>6

\* A new wheel has the invariant and is the empty map.
LEMMA TimersInvInit ==
  ASSUME WheelInit
  PROVE  TimersInv /\ TM!MapInit
<1> DEFINE w == new_wheel
<1>1. wheel = w /\ at = NoTimer /\ answer = NoTimer
  BY DEF WheelInit
<1>2. /\ w.levels = [l \in Levels |-> [s \in WheelSlots |-> <<>>]] /\ w.elapsed = 0 /\ w.pending = <<>>
      /\ w.deadlines = [r \in TimerIds |-> NoTimer] /\ w.positions = [r \in TimerIds |-> NoPos]
      /\ w.level_counts = [l \in Levels |-> 0]
  BY DEF new_wheel
<1>3. w \in Wheels
  BY DEF new_wheel, Wheels, Positions, NoTimer
<1> HIDE DEF w
<1>4. \A l \in Levels, s \in WheelSlots : w.levels[l][s] = <<>>
  BY <1>2
<1>5. \A l \in Levels : On(w, l) = {}
  BY <1>4 DEF On
<1>6. CountsOk(w)
  BY <1>2, <1>5, FS_EmptySet DEF CountsOk
<1>7. SlotsOk(w, {}) /\ Placed(w, PlacedAt(0))
  BY <1>4 DEF SlotsOk, Placed
<1>8. PositionsOk(w, {}) /\ DeadlinesOk(w, {}) /\ PendingOk(w, {}) /\ LimboOk(w, {})
  BY <1>2 DEF PositionsOk, DeadlinesOk, PendingOk, LimboOk
<1>9. AllDue(w, 0)
  BY <1>2 DEF AllDue
<1>10. TimersInv
  BY <1>1, <1>2, <1>3, <1>6, <1>7, <1>8, <1>9 DEF TimersInv, Sound, NoTimer
<1>11. TM!MapInit
  BY <1>1, <1>2 DEF TM!MapInit, NoTimer, TM!NoTimer
<1>12. QED
  BY <1>10, <1>11

\* Every step of the wheel keeps the invariant and is a step of the map, or none.
LEMMA WheelStep ==
  ASSUME TimersInv, [WheelNext]_wheelv
  PROVE  TimersInv' /\ [TM!MapNext]_<<wheel.deadlines, wheel.elapsed, at, answer>>
<1>1. ASSUME NEW r \in TimerIds, NEW d \in WheelTimes, insert(r, d) PROVE TimersInv' /\ TM!MapNext
  <2>1. TimersInv' /\ TM!MapInsert(r, d)
    BY <1>1, InsertAction
  <2>2. QED
    BY <2>1 DEF TM!MapNext
<1>2. ASSUME NEW r \in TimerIds, remove(r) PROVE TimersInv' /\ TM!MapNext
  <2>1. TimersInv' /\ TM!MapRemove(r)
    BY <1>2, RemoveAction
  <2>2. QED
    BY <2>1 DEF TM!MapNext
<1>3. ASSUME NEW now \in WheelTimes, wake_expired(now) PROVE TimersInv' /\ TM!MapNext
  <2>1. TimersInv' /\ TM!MapPop(now)
    BY <1>3, WakeAction
  <2>2. QED
    BY <2>1 DEF TM!MapNext
<1>4. CASE next_deadline
  <2>1. TimersInv' /\ TM!MapNextDeadline
    BY <1>4, NextAction
  <2>2. QED
    BY <2>1 DEF TM!MapNext
<1>5. CASE UNCHANGED wheelv
  <2>1. wheel' = wheel /\ at' = at /\ answer' = answer
    BY <1>5 DEF wheelv
  <2>2. TimersInv'
    BY <2>1 DEF TimersInv
  <2>3. QED
    BY <2>1, <2>2
<1>6. QED
  BY <1>1, <1>2, <1>3, <1>4, <1>5 DEF WheelNext

\* For any number of levels and slots, any timers and any times, the wheel is the map
\* that the reactor takes it for: try_pop_expired takes out a timer that is due, and
\* answers None only when none is, whichever slots advance_to cascaded the timers
\* through, and next_deadline answers the earliest deadline.
THEOREM WheelRefinesMap == WheelSpec => ImplementsTimerMap
<1>1. WheelInit => TimersInv /\ TM!MapInit
  BY TimersInvInit
<1>2. TimersInv /\ [WheelNext]_wheelv => TimersInv' /\ [TM!MapNext]_<<wheel.deadlines, wheel.elapsed, at, answer>>
  BY WheelStep
<1>3. QED
  BY <1>1, <1>2, PTL DEF WheelSpec, ImplementsTimerMap, TM!MapSpec

\* The invariant says what the runs check of the bookkeeping.
LEMMA TimersInvBookkeeping ==
  ASSUME TimersInv
  PROVE  WheelTypeOK
<1>1. /\ wheel \in Wheels /\ SlotsOk(wheel, {}) /\ PositionsOk(wheel, {}) /\ DeadlinesOk(wheel, {})
      /\ PendingOk(wheel, {}) /\ CountsOk(wheel)
  BY DEF TimersInv, Sound
<1>2. {wheel.elapsed, at} \subseteq WheelTimes \cup {0} /\ answer \in WheelTimes \cup TimerIds \cup {NoTimer}
  BY DEF TimersInv, NoTimer
<1>3. ASSUME NEW r \in TimerIds, wheel.positions[r] # NoPos
      PROVE  LET p == wheel.positions[r] IN wheel.levels[p[1]][p[2]][p[3]] = r
  <2>1. PICK l \in Levels, s \in WheelSlots : \E i \in DOMAIN wheel.levels[l][s] :
               wheel.positions[r] = <<l, s, i>> /\ wheel.levels[l][s][i] = r
    BY <1>1, <1>3 DEF PositionsOk
  <2>2. QED
    BY <2>1
<1>4. ASSUME NEW r \in TimerIds
      PROVE  wheel.deadlines[r] # NoTimer <=> wheel.positions[r] # NoPos \/ r \in Range(wheel.pending)
  <2>1. wheel.deadlines[r] # NoTimer => wheel.positions[r] # NoPos \/ r \in Range(wheel.pending)
    BY <1>1 DEF DeadlinesOk, Range
  <2>2. wheel.positions[r] # NoPos => wheel.deadlines[r] # NoTimer
    BY <1>1 DEF PositionsOk, SlotsOk
  <2>3. r \in Range(wheel.pending) => wheel.deadlines[r] # NoTimer
    BY <1>1 DEF PendingOk, Range
  <2>4. QED
    BY <2>1, <2>2, <2>3
<1>5. ASSUME NEW l \in Levels
      PROVE  On(wheel, l) = {r \in TimerIds : wheel.positions[r] # NoPos /\ wheel.positions[r][1] = l}
  <2>1. ASSUME NEW r \in On(wheel, l)
        PROVE  r \in TimerIds /\ wheel.positions[r] # NoPos /\ wheel.positions[r][1] = l
    <3>1. r \in TimerIds
      BY DEF On
    <3>2. PICK s \in WheelSlots : \E i \in DOMAIN wheel.levels[l][s] : wheel.levels[l][s][i] = r
      BY DEF On
    <3>3. PICK i \in DOMAIN wheel.levels[l][s] : wheel.levels[l][s][i] = r
      BY <3>2
    <3>4. wheel.positions[r] = <<l, s, i>>
      BY <1>1, <3>3 DEF SlotsOk
    <3>5. QED
      BY <3>1, <3>4, PositionFacts
  <2>2. ASSUME NEW r \in TimerIds, wheel.positions[r] # NoPos, wheel.positions[r][1] = l
        PROVE  r \in On(wheel, l)
    <3>1. PICK k \in Levels, s \in WheelSlots : \E i \in DOMAIN wheel.levels[k][s] :
                 wheel.positions[r] = <<k, s, i>> /\ wheel.levels[k][s][i] = r
      BY <1>1, <2>2 DEF PositionsOk
    <3>2. k = l
      BY <2>2, <3>1
    <3>3. QED
      BY <3>1, <3>2 DEF On
  <2>3. QED
    BY <2>1, <2>2
<1>6. \A l \in Levels : wheel.level_counts[l] = Cardinality({r \in TimerIds : wheel.positions[r] # NoPos
                                                                             /\ wheel.positions[r][1] = l})
  BY <1>1, <1>5 DEF CountsOk
<1>7. \A l \in Levels, s \in WheelSlots : \A i \in DOMAIN wheel.levels[l][s] :
        wheel.positions[wheel.levels[l][s][i]] = <<l, s, i>>
  BY <1>1 DEF SlotsOk
<1>8. QED
  BY <1>2, <1>3, <1>4, <1>6, <1>7 DEF WheelTypeOK

\* The bookkeeping of wheel.rs: positions, slots, pending timers and the counters of
\* the levels agree after every call.
THEOREM WheelTypeCorrect == WheelSpec => []WheelTypeOK
<1>1. WheelInit => TimersInv
  BY TimersInvInit
<1>2. TimersInv /\ [WheelNext]_wheelv => TimersInv'
  BY WheelStep
<1>3. TimersInv => WheelTypeOK
  BY TimersInvBookkeeping
<1>4. QED
  BY <1>1, <1>2, <1>3, PTL DEF WheelSpec

(***************************************************************************)
(* The parts side by side, as MCParts runs them: one of them moves, and    *)
(* its invariant says enough; of the others their initial values do.       *)
(* JoinHandle and the oneshot are shared by several, so their invariants   *)
(* hold whichever part uses them, and a pool that is not the part in       *)
(* question has no jobs, whatever the handles say.                         *)
(***************************************************************************)
PoolIdle ==
  /\ pqueue = [p \in PoolThreads |-> <<>>] /\ running = [p \in PoolThreads |-> NoJob]
  /\ spc = [s \in Spawners |-> "idle"] /\ given = {}

ReceiversPart ==
  /\ SInv /\ WatchTypeOK /\ RingTypeOK
  /\ kind = "watch" => WInv
  /\ IF kind = "broadcast" THEN BInv ELSE buffered = 0

ThreadsPart ==
  /\ OInv /\ JInv /\ MultiTypeOK /\ PoolTypeOK
  /\ IF kind = "multi" THEN MInv ELSE owner = "used"
  /\ IF kind = "pool" THEN PInv ELSE PoolIdle

PartsInv == kind \in Kinds /\ ReceiversPart /\ ThreadsPart /\ TimersInv

\* An idle pool has no job to lose.
LEMMA IdlePool == ASSUME PoolIdle PROVE PoolServed
<1>1. \A p \in PoolThreads : pqueue[p] = <<>> /\ running[p] = NoJob /\ DOMAIN pqueue[p] = {}
  BY DEF PoolIdle
<1>2. Holding = {} /\ Unanswered = {}
  BY DEF PoolIdle, Holding, Unanswered
<1>3. Held = {} /\ Running = {}
  BY <1>1, <1>2 DEF Held, Running
<1>4. Waiting = {}
  BY <1>1 DEF Waiting
<1>5. NoSleepOnJob
  BY <1>1 DEF NoSleepOnJob
<1>6. JobsOnce
  BY <1>1, <1>2, <1>3, <1>4 DEF JobsOnce
<1>7. QED
  BY <1>5, <1>6 DEF PoolServed

\* What the run checks of the parts together.
PartsSafe ==
  UpdatesArrive /\ ReadyIsBuffered /\ OneshotAnswered /\ JoinAnswered /\ PoolServed /\ ShutdownHeard

\* The invariant implies it.
LEMMA PartsInvImplies == ASSUME PartsInv PROVE TypeOK /\ PartsSafe
<1>1. WheelTypeOK
  BY TimersInvBookkeeping DEF PartsInv
<1>2. TypeOK
  BY <1>1 DEF PartsInv, ReceiversPart, ThreadsPart, TypeOK
<1>3. UpdatesArrive
  BY SInvImplies DEF PartsInv, ReceiversPart
<1>4. ReadyIsBuffered
  <2>1. CASE kind = "broadcast"
    BY <2>1, BInvImplies DEF PartsInv, ReceiversPart
  <2>2. CASE kind # "broadcast"
    <3>1. buffered = 0 /\ version \in Nat /\ \A f \in Futures : seen[f] <= version
      BY <2>2 DEF PartsInv, ReceiversPart, SInv, SubscribersTypeOK, RxOK
    <3>2. Oldest .. (version - 1) = {}
      BY <3>1 DEF Oldest
    <3>3. QED
      BY <3>1, <3>2 DEF ReadyIsBuffered
  <2>3. QED
    BY <2>1, <2>2
<1>5. OneshotAnswered /\ JoinAnswered
  BY OInvImplies DEF PartsInv, ThreadsPart, JInv
<1>6. PoolServed
  BY PInvImplies, IdlePool DEF PartsInv, ThreadsPart
<1>7. ShutdownHeard
  <2>1. CASE kind = "multi"
    BY <2>1, MInvImplies DEF PartsInv, ThreadsPart
  <2>2. CASE kind # "multi"
    <3>1. owner = "used"
      BY <2>2 DEF PartsInv, ThreadsPart
    <3>2. QED
      BY <3>1 DEF ShutdownHeard
  <2>3. QED
    BY <2>1, <2>2
<1>8. QED
  BY <1>2, <1>3, <1>4, <1>5, <1>6, <1>7 DEF PartsSafe

\* Whichever part a behaviour is about, all of them start in it.
LEMMA PartsInvInit == ASSUME Init PROVE PartsInv /\ TM!MapInit
<1>1. kind \in Kinds /\ MultiInit /\ PoolInit /\ WheelInit /\ RingInit /\ CallsInit
  BY DEF Init, BroadcastInit, WatchInit
<1>2. SInv
  <2>1. CASE kind = "broadcast"
    <3>1. SubscribersInit(0) /\ 0 \in Nat
      BY <2>1 DEF Init, BroadcastInit
    <3>2. QED
      BY <3>1, SInvInit
  <2>2. CASE kind # "broadcast"
    <3>1. SubscribersInit(1) /\ 1 \in Nat
      BY <2>2 DEF Init, WatchInit
    <3>2. QED
      BY <3>1, SInvInit
  <2>3. QED
    BY <2>1, <2>2
<1>3. WatchTypeOK
  BY <1>1, <1>2 DEF SInv, WatchTypeOK, CallsInit
<1>4. RingTypeOK /\ buffered = 0
  BY <1>1, RingAssumption DEF RingInit, RingTypeOK
<1>5. (kind = "watch" => WInv) /\ (kind = "broadcast" => BInv)
  BY WInvInductive, BInvInductive DEF Init
<1>6. ReceiversPart
  BY <1>2, <1>3, <1>4, <1>5 DEF ReceiversPart
<1>7. MInv /\ PInv
  BY <1>1, MInvInit, PInvInit
<1>8. PoolIdle /\ owner = "used"
  BY <1>1 DEF PoolInit, PoolIdle, MultiInit
<1>9. ThreadsPart
  BY <1>7, <1>8 DEF ThreadsPart, MInv, PInv
<1>10. TimersInv /\ TM!MapInit
  BY <1>1, TimersInvInit
<1>11. QED
  BY <1>1, <1>6, <1>9, <1>10 DEF PartsInv

\* A step of another part leaves the channels with receivers alone.
LEMMA ReceiversSame ==
  ASSUME ReceiversPart, UNCHANGED <<kind, svars, watchv, ringv>>
  PROVE  ReceiversPart'
<1>1. kind' = kind /\ UNCHANGED wvars /\ UNCHANGED bvars /\ UNCHANGED svars /\ buffered' = buffered
  BY DEF wvars, bvars, watchv, ringv
<1>2. SInv'
  BY <1>1, SInvUnchanged DEF ReceiversPart
<1>3. WatchTypeOK' /\ RingTypeOK'
  BY <1>2 DEF ReceiversPart, SInv, WatchTypeOK, RingTypeOK, watchv, ringv
<1>4. (kind = "watch" => WInv') /\ (kind = "broadcast" => BInv')
  BY <1>1, WInvInductive, BInvInductive DEF ReceiversPart
<1>5. QED
  BY <1>1, <1>2, <1>3, <1>4 DEF ReceiversPart

\* A step of another part leaves the pool alone.
LEMMA PoolIdleSame == ASSUME PoolIdle, UNCHANGED poolv PROVE PoolIdle'
BY DEF PoolIdle, poolv

\* A step of another part leaves the threads and the oneshot alone.
LEMMA ThreadsSame ==
  ASSUME ThreadsPart, UNCHANGED <<kind, oneshotv, joinv, multiv, poolv>>
  PROVE  ThreadsPart'
<1>1. UNCHANGED oneshotv /\ UNCHANGED joinv /\ UNCHANGED multiv /\ UNCHANGED poolv /\ kind' = kind
  OBVIOUS
<1>2. OInv' /\ JInv'
  BY <1>1, OInvUnchanged, JInvUnchanged DEF ThreadsPart
<1>3. MultiTypeOK' /\ PoolTypeOK'
  BY <1>1, <1>2 DEF ThreadsPart, OInv, JInv, MultiTypeOK, PoolTypeOK, multiv, poolv
<1>4. IF kind = "multi" THEN MInv' ELSE owner' = "used"
  BY <1>1, MInvNext DEF ThreadsPart, multiv
<1>5. IF kind = "pool" THEN PInv' ELSE PoolIdle'
  BY <1>1, PInvNext, PoolIdleSame DEF ThreadsPart
<1>6. QED
  BY <1>1, <1>2, <1>3, <1>4, <1>5 DEF ThreadsPart

\* The wheel is untouched: the map stutters.
LEMMA WheelSame ==
  ASSUME TimersInv, UNCHANGED wheelv
  PROVE  TimersInv' /\ [TM!MapNext]_<<wheel.deadlines, wheel.elapsed, at, answer>>
BY WheelStep

\* Every step of whichever part keeps the invariant, and the wheel a map.
LEMMA PartsStep ==
  ASSUME PartsInv, [Next]_vars
  PROVE  PartsInv' /\ [TM!MapNext]_<<wheel.deadlines, wheel.elapsed, at, answer>>
<1>1. kind \in Kinds /\ ReceiversPart /\ ThreadsPart /\ TimersInv
  BY DEF PartsInv
<1>2. CASE UNCHANGED vars
  <2>1. UNCHANGED <<kind, svars, watchv, ringv>> /\ UNCHANGED <<kind, oneshotv, joinv, multiv, poolv>>
        /\ UNCHANGED wheelv /\ kind' = kind
    BY <1>2 DEF vars
  <2>2. QED
    BY <1>1, <2>1, ReceiversSame, ThreadsSame, WheelSame DEF PartsInv
<1>3. CASE /\ kind = "watch" /\ WatchNext /\ UNCHANGED kind
           /\ UNCHANGED <<ringv, oneshotv, joinv, multiv, poolv, wheelv>>
  <2>1. /\ kind = "watch" /\ kind' = kind /\ buffered' = buffered /\ UNCHANGED ringv /\ UNCHANGED wheelv
        /\ UNCHANGED <<kind, oneshotv, joinv, multiv, poolv>>
    BY <1>3 DEF ringv
  <2>2. WInv'
    BY <1>1, <1>3, WInvInductive DEF ReceiversPart
  <2>3. RingTypeOK'
    BY <1>1, <2>1 DEF ReceiversPart, RingTypeOK, ringv
  <2>4. ReceiversPart'
    BY <1>1, <2>1, <2>2, <2>3 DEF ReceiversPart, WInv
  <2>5. QED
    BY <1>1, <2>1, <2>4, ThreadsSame, WheelSame DEF PartsInv
<1>4. CASE /\ kind = "broadcast" /\ BroadcastNext /\ UNCHANGED kind
           /\ UNCHANGED <<watchv, oneshotv, joinv, multiv, poolv, wheelv>>
  <2>1. /\ kind = "broadcast" /\ kind' = kind /\ UNCHANGED watchv /\ UNCHANGED wheelv
        /\ UNCHANGED <<kind, oneshotv, joinv, multiv, poolv>>
    BY <1>4
  <2>2. BInv'
    BY <1>1, <1>4, BInvInductive DEF ReceiversPart
  <2>3. WatchTypeOK'
    BY <1>1, <2>1, <2>2 DEF ReceiversPart, WatchTypeOK, BInv, SInv, watchv
  <2>4. ReceiversPart'
    BY <2>1, <2>2, <2>3 DEF ReceiversPart, BInv, RingOK
  <2>5. QED
    BY <1>1, <2>1, <2>4, ThreadsSame, WheelSame DEF PartsInv
<1>5. CASE /\ kind = "oneshot" /\ OneshotNext /\ UNCHANGED kind
           /\ UNCHANGED <<svars, watchv, ringv, joinv, multiv, poolv, wheelv>>
  <2>1. /\ kind = "oneshot" /\ kind' = kind /\ UNCHANGED wheelv /\ UNCHANGED <<kind, svars, watchv, ringv>>
        /\ UNCHANGED joinv /\ UNCHANGED multiv /\ UNCHANGED poolv
    BY <1>5
  <2>2. OInv' /\ JInv' /\ PoolIdle' /\ owner' = "used"
    BY <1>1, <1>5, <2>1, OInvNext, JInvUnchanged, PoolIdleSame DEF ThreadsPart, multiv
  <2>3. MultiTypeOK' /\ PoolTypeOK'
    BY <1>1, <2>1, <2>2 DEF ThreadsPart, OInv, JInv, MultiTypeOK, PoolTypeOK, multiv, poolv
  <2>4. ThreadsPart'
    BY <2>1, <2>2, <2>3 DEF ThreadsPart
  <2>5. QED
    BY <1>1, <2>1, <2>4, ReceiversSame, WheelSame DEF PartsInv
<1>6. CASE /\ kind = "multi" /\ MultiNext /\ UNCHANGED kind
           /\ UNCHANGED <<svars, watchv, ringv, poolv, wheelv>>
  <2>1. /\ kind = "multi" /\ kind' = kind /\ UNCHANGED wheelv /\ UNCHANGED <<kind, svars, watchv, ringv>>
        /\ UNCHANGED poolv
    BY <1>6
  <2>2. MInv' /\ PoolIdle'
    BY <1>1, <1>6, <2>1, MInvNext, PoolIdleSame DEF ThreadsPart
  <2>3. PoolTypeOK'
    BY <1>1, <2>1, <2>2 DEF ThreadsPart, MInv, JInv, PoolTypeOK, poolv
  <2>4. ThreadsPart'
    BY <2>1, <2>2, <2>3 DEF ThreadsPart, MInv
  <2>5. QED
    BY <1>1, <2>1, <2>4, ReceiversSame, WheelSame DEF PartsInv
<1>7. CASE /\ kind = "pool" /\ PoolNext /\ UNCHANGED kind
           /\ UNCHANGED <<svars, watchv, ringv, oneshotv, multiv, wheelv>>
  <2>1. /\ kind = "pool" /\ kind' = kind /\ UNCHANGED wheelv /\ UNCHANGED <<kind, svars, watchv, ringv>>
        /\ UNCHANGED oneshotv /\ UNCHANGED multiv
    BY <1>7
  <2>2. PInv' /\ OInv' /\ owner' = "used"
    BY <1>1, <1>7, <2>1, PInvNext, OInvUnchanged DEF ThreadsPart, multiv
  <2>3. JInv' /\ PoolTypeOK'
    BY <2>2 DEF PInv, JInv, PoolTypeOK
  <2>4. MultiTypeOK'
    BY <1>1, <2>1, <2>2, <2>3 DEF ThreadsPart, OInv, JInv, MultiTypeOK, multiv
  <2>5. ThreadsPart'
    BY <2>1, <2>2, <2>3, <2>4 DEF ThreadsPart
  <2>6. QED
    BY <1>1, <2>1, <2>5, ReceiversSame, WheelSame DEF PartsInv
<1>8. CASE /\ kind = "wheel" /\ WheelNext /\ UNCHANGED kind
           /\ UNCHANGED <<svars, watchv, ringv, oneshotv, joinv, multiv, poolv>>
  <2>1. /\ kind' = kind /\ UNCHANGED <<kind, svars, watchv, ringv>>
        /\ UNCHANGED <<kind, oneshotv, joinv, multiv, poolv>>
    BY <1>8
  <2>2. TimersInv' /\ [TM!MapNext]_<<wheel.deadlines, wheel.elapsed, at, answer>>
    BY <1>1, <1>8, WheelStep
  <2>3. QED
    BY <1>1, <2>1, <2>2, ReceiversSame, ThreadsSame DEF PartsInv
<1>9. QED
  BY <1>2, <1>3, <1>4, <1>5, <1>6, <1>7, <1>8 DEF Next

\* The composition that the run checks: the variables of every part keep their types,
\* and the wheel's bookkeeping agrees, also where two parts share the JoinHandles or
\* the oneshot.
THEOREM PartsTypes == Spec => []TypeOK
<1>1. Init => PartsInv
  BY PartsInvInit
<1>2. PartsInv /\ [Next]_vars => PartsInv'
  BY PartsStep
<1>3. PartsInv => TypeOK
  BY PartsInvImplies
<1>4. QED
  BY <1>1, <1>2, <1>3, PTL DEF Spec

\* The safety properties that the run checks, of the composition itself: updates
\* arrive, what recv_step calls Ready is in the ring, the oneshot and the JoinHandles
\* are answered, the pool serves its jobs, and Drop for MultiRuntime joins only threads
\* that have heard of it.
THEOREM PartsAreSafe ==
  Spec => [](/\ UpdatesArrive /\ ReadyIsBuffered /\ OneshotAnswered
             /\ JoinAnswered /\ PoolServed /\ ShutdownHeard)
<1>1. Init => PartsInv
  BY PartsInvInit
<1>2. PartsInv /\ [Next]_vars => PartsInv'
  BY PartsStep
<1>3. PartsInv => /\ UpdatesArrive /\ ReadyIsBuffered /\ OneshotAnswered
                  /\ JoinAnswered /\ PoolServed /\ ShutdownHeard
  BY PartsInvImplies DEF PartsSafe
<1>4. QED
  BY <1>1, <1>2, <1>3, PTL DEF Spec

\* The wheel of the composition is the map, as the run checks it.
THEOREM PartsRefineMap == Spec => ImplementsTimerMap
<1>1. Init => PartsInv /\ TM!MapInit
  BY PartsInvInit
<1>2. PartsInv /\ [Next]_vars => PartsInv' /\ [TM!MapNext]_<<wheel.deadlines, wheel.elapsed, at, answer>>
  BY PartsStep
<1>3. QED
  BY <1>1, <1>2, PTL DEF Spec, ImplementsTimerMap, TM!MapSpec

=============================================================================

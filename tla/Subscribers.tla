---------------------------- MODULE Subscribers ----------------------------
(***************************************************************************)
(* What lion-utility/src/sync/watch.rs and broadcast.rs share: receivers   *)
(* that compare a cursor of their own with a counter of everything         *)
(* published, wait in a WaiterKernel when they have seen it all, and are   *)
(* woken all at once.  The code is written twice; the lines of watch.rs    *)
(* are the ones named for this module.                                     *)
(*                                                                         *)
(* Every operation is one critical section of the std mutex; the wakers it *)
(* took are called afterwards, one per step.  A receiver has at most one   *)
(* Changed or Recv future at a time, which borrows it, so the receiver     *)
(* stands for its future and for the id of that.                           *)
(***************************************************************************)
EXTENDS WaiterKernel

CONSTANTS
  Wakers,      \* wakers that futures are polled with (one per task)
  MaxVersion   \* bound: the counter

NoWaker == "none"
ASSUME WakersAssumption == NoWaker \notin Wakers
ASSUME VersionAssumption == MaxVersion \in Nat

VARIABLES
  version,   \* WatchKernel::version, BroadcastKernel::next_seq
  seen,      \* Receiver::seen_version, Receiver::next_seq
  closed,    \* tx_dropped, closed
  entry,     \* waiters: the waker stored for each parked receiver
  fut,       \* each receiver: dropped, without a future or with one not polled yet,
             \* pending, answered and not dropped yet (with Closed or otherwise)
  ctx,       \* waker of the latest poll
  waking,    \* wakers being called, the mutex released
  woken      \* history: receivers whose latest waker was called since their latest poll

wait == <<kernel, entry, waking>>
rxs == <<seen, fut, ctx, woken>>
svars == <<version, closed, wait, rxs>>

SubscribersTypeOK ==
  /\ permit \in Nat /\ queue \in Seq(Futures)
  /\ version \in Nat /\ seen \in [Futures -> Nat] /\ closed \in BOOLEAN
  /\ entry \in [Futures -> Wakers \cup {NoWaker}]
  /\ fut \in [Futures -> {"none", "idle", "pending", "done", "closed"}]
  /\ ctx \in [Futures -> Wakers \cup {NoWaker}]
  /\ waking \subseteq Futures \X Wakers /\ woken \subseteq Futures

First == CHOOSE f \in Futures : TRUE

\* channel(): one receiver, at the counter's first value.
SubscribersInit(first) ==
  /\ with_permits(0)
  /\ version = first /\ seen = [f \in Futures |-> first] /\ closed = FALSE
  /\ entry = [f \in Futures |-> NoWaker]
  /\ fut = [f \in Futures |-> IF f = First THEN "idle" ELSE "none"]
  /\ ctx = [f \in Futures |-> NoWaker] /\ waking = {} /\ woken = {}

Become(f, s) == fut' = [fut EXCEPT ![f] = s]
See(f, v) == seen' = [seen EXCEPT ![f] = v]
Polled(f, w) == ctx' = [ctx EXCEPT ![f] = w] /\ woken' = woken \ {f}
Ended(f) == ctx' = [ctx EXCEPT ![f] = NoWaker] /\ woken' = woken \ {f}

\* Faulty variant: one waiter only is woken.
wake_all_first ==
  /\ queue' = IF queue = <<>> THEN <<>> ELSE Tail(queue)
  /\ entry' = [f \in Futures |-> IF queue # <<>> /\ f = Head(queue) THEN NoWaker ELSE entry[f]]
  /\ waking' = waking \cup {<<f, entry[f]>> : f \in {g \in InQueue : g = Head(queue)}}
  /\ UNCHANGED permit

\* The kernel is signalled until its queue is empty, never beyond.
wake_all ==
  /\ queue' = <<>>
  /\ entry' = [f \in Futures |-> IF f \in InQueue THEN NoWaker ELSE entry[f]]
  /\ waking' = waking \cup {<<f, entry[f]>> : f \in {g \in InQueue : entry[g] # NoWaker}}
  /\ UNCHANGED permit

\* A waker taken under the mutex is called.
Wake(f, w) ==
  /\ <<f, w>> \in waking
  /\ waking' = waking \ {<<f, w>>}
  /\ woken' = IF ctx[f] = w THEN woken \cup {f} ELSE woken
  /\ UNCHANGED <<version, closed, kernel, entry, seen, fut, ctx>>

(***************************************************************************)
(* The end of a poll that has nothing to report.                           *)
(***************************************************************************)
Closed(f) ==
  /\ fut[f] \in {"idle", "pending"} /\ closed
  /\ Become(f, "closed") /\ Ended(f)
  /\ UNCHANGED <<version, closed, wait, seen>>

\* Not parked yet.  wait_step never answers Ready, since no wake is ever stored.
Park(f, w) ==
  /\ fut[f] = "idle" /\ ~closed
  /\ park_step(f)
  /\ entry' = [entry EXCEPT ![f] = w]
  /\ Become(f, "pending") /\ Polled(f, w)
  /\ UNCHANGED <<version, closed, waking, seen>>

\* Parked by an earlier poll: the waker is replaced, if it is still there.
Again(f, w) ==
  /\ fut[f] = "pending" /\ ~closed
  /\ entry' = IF entry[f] # NoWaker THEN [entry EXCEPT ![f] = w] ELSE entry
  /\ Polled(f, w)
  /\ UNCHANGED <<version, closed, kernel, waking, seen, fut>>

Answered(f) == fut[f] \in {"done", "closed"}

\* Drop of a future that is, or was, parked.
Withdraw(f) ==
  \/ remove_step(f) /\ entry' = [entry EXCEPT ![f] = NoWaker]
  \/ f \notin InQueue /\ UNCHANGED <<kernel, entry>>

DropFuture(f) ==
  /\ fut[f] = "pending" \/ Answered(f)
  /\ Withdraw(f)
  /\ Become(f, "idle") /\ Ended(f)
  /\ UNCHANGED <<version, closed, waking, seen>>

(***************************************************************************)
(* Receivers come and go.                                                  *)
(***************************************************************************)
NewReceiver(f, v) ==
  /\ fut[f] = "none"
  /\ Become(f, "idle") /\ See(f, v)
  /\ UNCHANGED <<version, closed, wait, ctx, woken>>

\* Sender::subscribe
subscribe(f) == ~closed /\ NewReceiver(f, version)

\* Clone for Receiver; a receiver that is waiting is mutably borrowed.
CloneReceiver(f, g) == fut[g] = "idle" /\ NewReceiver(f, seen[g])

DropReceiver(f) ==
  /\ fut[f] = "idle"
  /\ Become(f, "none")
  /\ UNCHANGED <<version, closed, wait, seen, ctx, woken>>

(***************************************************************************)
(* Properties.                                                             *)
(***************************************************************************)
\* The kernel's queue and the waker list hold the same receivers, all suspended,
\* and no wake is stored ("unreachable under wake_all's drain-only signaling").
WaitersMatch ==
  /\ permit = 0
  /\ \A f \in Futures : /\ f \in InQueue <=> entry[f] # NoWaker
                        /\ f \in InQueue => fut[f] = "pending"

\* A suspended receiver with something to see has been woken through the waker of
\* its latest poll or is about to be, and any other is registered with that waker.
NoMissedUpdate ==
  \A f \in Futures : fut[f] = "pending" =>
    IF seen[f] # version \/ closed THEN f \in woken \/ <<f, ctx[f]>> \in waking
                                   ELSE entry[f] = ctx[f]

\* Who is told that the channel is closed has seen everything published.
ClosedSeenAll == \A f \in Futures : fut[f] = "closed" => closed /\ seen[f] = version

\* All: an update reaches every receiver that waits for it, the last one included.
UpdatesArrive == WaitersMatch /\ NoMissedUpdate /\ ClosedSeenAll

=============================================================================

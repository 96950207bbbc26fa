------------------------------- MODULE Notify -------------------------------
(***************************************************************************)
(* lion-utility/src/sync/notify.rs: Notify over the WaiterKernel, used     *)
(* from several threads.                                                   *)
(*                                                                         *)
(* Critical sections of the std Mutex around NotifyInner are one step,     *)
(* except the loop of notify_waiters, which holds `lock` and flags one     *)
(* waiter per step.  A poll reads its flag before it takes the lock, which *)
(* makes it two steps.                                                     *)
(***************************************************************************)
EXTENDS WaiterKernel

CONSTANTS
  Wakers,    \* wakers that futures are polled with (one per task)
  MaxSent    \* bound: calls of notify_one

ASSUME SentAssumption == MaxSent \in Nat

NoWaker == "none"
ASSUME WakersAssumption == NoWaker \notin Wakers

VARIABLES
  entry,       \* NotifyInner::wakers: the waker stored for each parked id
  lock,        \* a thread is inside the loop of notify_waiters, holding the mutex
  collected,   \* to_wake: wakers that thread has collected
  waking,      \* wakers being called, the mutex released
  flag,        \* Notified::flag
  parked,      \* Notified::parked
  fut,         \* how far each Notified is
  ctx,         \* waker of each future's latest poll
  \* history variables
  sent,        \* notify_one calls so far
  consumed,    \* futures completed by one of them so far
  addressed,   \* futures that were parked when the last notify_waiters began
  woken        \* futures whose latest waker was called since their latest poll began

signalv == <<lock, collected>>
futv == <<flag, parked, fut, ctx>>
counts == <<sent, consumed>>
vars == <<kernel, entry, signalv, waking, futv, counts, addressed, woken>>

Flags == {"PENDING", "NOTIFIED_ONE", "NOTIFIED_ALL"}
FutStates == {"gone", "new", "polling", "pending", "ready"}

TypeOK ==
  /\ permit \in Nat /\ queue \in Seq(Futures)
  /\ entry \in [Futures -> Wakers \cup {NoWaker}]
  /\ lock \in BOOLEAN
  /\ collected \subseteq Futures \X Wakers /\ waking \subseteq Futures \X Wakers
  /\ flag \in [Futures -> Flags] /\ parked \subseteq Futures
  /\ fut \in [Futures -> FutStates] /\ ctx \in [Futures -> Wakers \cup {NoWaker}]
  /\ sent \in Nat /\ consumed \in Nat
  /\ addressed \subseteq Futures /\ woken \subseteq Futures

Init ==
  /\ with_permits(0)
  /\ entry = [f \in Futures |-> NoWaker]
  /\ lock = FALSE /\ collected = {} /\ waking = {}
  /\ flag = [f \in Futures |-> "PENDING"] /\ parked = {}
  /\ fut = [f \in Futures |-> "gone"] /\ ctx = [f \in Futures |-> NoWaker]
  /\ sent = 0 /\ consumed = 0 /\ addressed = {} /\ woken = {}

(***************************************************************************)
(* Delivery.  Every queued id has its waker entry (QueueMatchesWakers), so *)
(* the dead-id branch of the loops is never taken and deliver_one makes    *)
(* one kernel signal.                                                      *)
(***************************************************************************)
\* The flag of the dequeued waiter is set and its waker entry taken.
Dequeue(kind) ==
  /\ signal_woke
  /\ flag' = [flag EXCEPT ![Head(queue)] = kind]
  /\ entry' = [entry EXCEPT ![Head(queue)] = NoWaker]

Taken == <<Head(queue), entry[Head(queue)]>>

\* deliver_one, its mutex released and the waker called afterwards.
deliver_one ==
  \/ Dequeue("NOTIFIED_ONE") /\ waking' = waking \cup {Taken}
  \/ signal_stored /\ UNCHANGED <<flag, entry, waking>>

notify_one ==
  /\ ~lock /\ sent < MaxSent
  /\ sent' = sent + 1
  /\ deliver_one
  /\ UNCHANGED <<signalv, parked, fut, ctx, consumed, addressed, woken>>

\* notify_waiters takes the mutex ...
notify_waiters ==
  /\ ~lock
  /\ lock' = TRUE
  /\ addressed' = InQueue
  /\ UNCHANGED <<kernel, entry, collected, waking, futv, counts, woken>>

\* ... flags the queued waiters one by one ...
FlagWaiter ==
  /\ lock
  /\ Dequeue("NOTIFIED_ALL")
  /\ collected' = collected \cup {Taken}
  /\ UNCHANGED <<lock, waking, parked, fut, ctx, counts, addressed, woken>>

\* Faulty variant: only the head waiter is flagged.
Unlock_AfterOne ==
  /\ lock /\ (queue = <<>> \/ collected # {})
  /\ lock' = FALSE /\ collected' = {}
  /\ waking' = waking \cup collected
  /\ UNCHANGED <<kernel, entry, futv, counts, addressed, woken>>

\* ... and releases it, then calls their wakers.
Unlock ==
  /\ lock /\ queue = <<>>
  /\ lock' = FALSE /\ collected' = {}
  /\ waking' = waking \cup collected
  /\ UNCHANGED <<kernel, entry, futv, counts, addressed, woken>>

\* One waker is called.  It counts for the future if it is the waker of the
\* future's latest poll.
Wake(f, w) ==
  /\ <<f, w>> \in waking
  /\ waking' = waking \ {<<f, w>>}
  /\ woken' = IF ctx[f] = w THEN woken \cup {f} ELSE woken
  /\ UNCHANGED <<kernel, entry, signalv, futv, counts, addressed>>

(***************************************************************************)
(* Notified: poll and Drop.                                                *)
(***************************************************************************)
notified(f) ==
  /\ fut[f] = "gone"
  /\ fut' = [fut EXCEPT ![f] = "new"]
  /\ flag' = [flag EXCEPT ![f] = "PENDING"]
  /\ parked' = parked \ {f} /\ ctx' = [ctx EXCEPT ![f] = NoWaker]
  /\ woken' = woken \ {f}
  /\ UNCHANGED <<kernel, entry, signalv, waking, counts, addressed>>

\* Faulty variant: only notify_one's flag value completes the future.
PollLoad_OnlyOne(f, w) ==
  /\ fut[f] \in {"new", "pending"}
  /\ ctx' = [ctx EXCEPT ![f] = w]
  /\ woken' = woken \ {f}
  /\ fut' = [fut EXCEPT ![f] = IF flag[f] = "NOTIFIED_ONE" THEN "ready" ELSE "polling"]
  /\ consumed' = IF flag[f] = "NOTIFIED_ONE" THEN consumed + 1 ELSE consumed
  /\ UNCHANGED <<kernel, entry, signalv, waking, flag, parked, sent, addressed>>

\* The flag is read without the lock.
PollLoad(f, w) ==
  /\ fut[f] \in {"new", "pending"}
  /\ ctx' = [ctx EXCEPT ![f] = w]
  /\ woken' = woken \ {f}
  /\ fut' = [fut EXCEPT ![f] = IF flag[f] # "PENDING" THEN "ready" ELSE "polling"]
  /\ consumed' = IF flag[f] = "NOTIFIED_ONE" THEN consumed + 1 ELSE consumed
  /\ UNCHANGED <<kernel, entry, signalv, waking, flag, parked, sent, addressed>>

\* Then the lock is taken.
PollReady(f) ==
  /\ fut[f] = "polling" /\ ~lock /\ f \notin parked
  /\ take_step
  /\ fut' = [fut EXCEPT ![f] = "ready"]
  /\ consumed' = consumed + 1
  /\ UNCHANGED <<entry, signalv, waking, flag, parked, ctx, sent, addressed, woken>>

PollPark(f) ==
  /\ fut[f] = "polling" /\ ~lock /\ f \notin parked
  /\ park_step(f)
  /\ parked' = parked \cup {f}
  /\ entry' = [entry EXCEPT ![f] = ctx[f]]
  /\ fut' = [fut EXCEPT ![f] = "pending"]
  /\ UNCHANGED <<signalv, waking, flag, ctx, counts, addressed, woken>>

\* A parked future is polled again: only its waker is replaced, if still there.
PollAgain(f) ==
  /\ fut[f] = "polling" /\ ~lock /\ f \in parked
  /\ entry' = IF entry[f] # NoWaker THEN [entry EXCEPT ![f] = ctx[f]] ELSE entry
  /\ fut' = [fut EXCEPT ![f] = "pending"]
  /\ UNCHANGED <<kernel, signalv, waking, flag, parked, ctx, counts, addressed, woken>>

\* Completed, or never parked.
DropIdle(f) ==
  /\ fut[f] \in {"new", "ready"}
  /\ fut' = [fut EXCEPT ![f] = "gone"]
  /\ addressed' = addressed \ {f}
  /\ UNCHANGED <<kernel, entry, signalv, waking, flag, parked, ctx, counts, woken>>

\* Parked and still in the queue: withdrawn.
DropParked(f) ==
  /\ fut[f] = "pending" /\ ~lock
  /\ remove_step(f)
  /\ entry' = [entry EXCEPT ![f] = NoWaker]
  /\ fut' = [fut EXCEPT ![f] = "gone"]
  /\ addressed' = addressed \ {f}
  /\ UNCHANGED <<signalv, waking, flag, parked, ctx, counts, woken>>

\* Faulty variant: a broadcast is forwarded like a notify_one.
DropNotified_ForwardsAll(f) ==
  /\ fut[f] = "pending" /\ ~lock /\ f \notin InQueue
  /\ deliver_one
  /\ fut' = [fut EXCEPT ![f] = "gone"]
  /\ addressed' = addressed \ {f}
  /\ UNCHANGED <<signalv, parked, ctx, counts, woken>>

\* Dequeued and flagged, never polled since: notify_one's notification goes to
\* the next waiter, that of notify_waiters to nobody.
DropNotified(f) ==
  /\ fut[f] = "pending" /\ ~lock /\ f \notin InQueue
  /\ IF flag[f] = "NOTIFIED_ONE"
       THEN deliver_one
       ELSE UNCHANGED <<kernel, entry, waking, flag>>
  /\ fut' = [fut EXCEPT ![f] = "gone"]
  /\ addressed' = addressed \ {f}
  /\ UNCHANGED <<signalv, parked, ctx, counts, woken>>

(***************************************************************************)
(* Specification.                                                          *)
(***************************************************************************)
Polled(f) == PollReady(f) \/ PollPark(f) \/ PollAgain(f)
DropFuture(f) == DropIdle(f) \/ DropParked(f) \/ DropNotified(f)
Waking == \E f \in Futures, w \in Wakers : Wake(f, w)
FutureStep(f) == notified(f) \/ (\E w \in Wakers : PollLoad(f, w)) \/ Polled(f) \/ DropFuture(f)
WaitersStep == FlagWaiter \/ Unlock

Next == notify_one \/ notify_waiters \/ WaitersStep \/ Waking \/ \E f \in Futures : FutureStep(f)

Spec == Init /\ [][Next]_vars

\* A thread in notify_waiters or calling a waker goes on, the executor polls a
\* task that was woken, and a poll that waits for the std mutex gets it in the
\* end, though others take it again and again.
Fairness ==
  /\ WF_vars(WaitersStep)
  /\ \A f \in Futures, w \in Wakers : WF_vars(Wake(f, w))
  /\ \A f \in Futures :
       /\ WF_vars(f \in woken /\ \E w \in Wakers : PollLoad(f, w))
       /\ SF_vars(Polled(f))

FairSpec == Spec /\ Fairness

(***************************************************************************)
(* Properties.                                                             *)
(***************************************************************************)
\* The kernel's queue and the waker list hold the same waiters, none of them
\* flagged yet: a signal always finds the waker of the id it dequeues, and a
\* cancelled waiter leaves nothing behind that could swallow a notification.
QueueMatchesWakers ==
  \A f \in Futures : /\ f \in InQueue <=> entry[f] # NoWaker
                     /\ f \in InQueue => flag[f] = "PENDING" /\ fut[f] \in {"polling", "pending"}

\* notify_one's notifications on the way to a future that has not seen them.
Undelivered == {f \in Futures : flag[f] = "NOTIFIED_ONE" /\ fut[f] \in {"polling", "pending"}}

\* Every notify_one completes exactly one future, or is still stored or on the
\* way to one: cancelling a future that was picked forwards its notification,
\* and notify_waiters neither stores one nor is mistaken for one.
NotificationsConserved == sent = permit + Cardinality(Undelivered) + consumed

\* Both: what notify_one was called for is never lost or doubled.
NotificationsSound == QueueMatchesWakers /\ NotificationsConserved

\* When notify_waiters has released the mutex, every future that was parked when
\* it took it has been flagged.
BroadcastReachesAll == ~lock => \A f \in addressed : flag[f] # "PENDING"

\* A suspended future that was flagged has been woken through the waker of its
\* latest poll, or is about to be.
NoLostNotification ==
  \A f \in Futures : fut[f] = "pending" /\ flag[f] # "PENDING" =>
     f \in woken \/ <<f, ctx[f]>> \in waking \cup collected

\* Both: whom a notification was meant for finds out.
NotificationsArrive == BroadcastReachesAll /\ NoLostNotification

\* A flagged future completes or is dropped.
NotifiedCompletes ==
  \A f \in Futures : (fut[f] = "pending" /\ flag[f] # "PENDING") ~> (fut[f] \in {"ready", "gone"})

(***************************************************************************)
(* Seen from outside, Notify is one line served in turn: notify_waiters    *)
(* flags the queued futures one by one under the lock, but they are        *)
(* settled when it takes it.                                               *)
(***************************************************************************)
WaitingLine == IF lock THEN <<>> ELSE queue

\* Futures that a notify_waiters was for and that have not seen it.
SentAway ==
  {f \in Futures : \/ flag[f] = "NOTIFIED_ALL" /\ fut[f] \in {"polling", "pending"}
                   \/ lock /\ f \in InQueue}

NotifyLine == INSTANCE WaitLine WITH
  Start <- 0, Batch <- 1,
  free <- permit, line <- WaitingLine, given <- Undelivered,
  called <- SentAway, out <- consumed, open <- TRUE

\* notify_one wakes the future that has waited longest, whichever futures are
\* cancelled and whatever polls see of a notify_waiters that is under way, and
\* a stored notification is never taken past a waiting future.
ImplementsLine == NotifyLine!LineSpec

=============================================================================

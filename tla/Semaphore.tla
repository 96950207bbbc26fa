----------------------------- MODULE Semaphore -----------------------------
(***************************************************************************)
(* lion-utility/src/sync/semaphore.rs: a counting semaphore over the       *)
(* WaiterKernel, used from several threads.                                *)
(*                                                                         *)
(* Critical sections of the std Mutex around SemaphoreInner are one step,  *)
(* except signal_n, whose stores to the granted flags other threads see    *)
(* while the lock is held: the thread in signal_n holds `lock` and makes   *)
(* one step per kernel signal.  A poll reads its granted flag before it    *)
(* takes the lock, which makes it two steps.                               *)
(***************************************************************************)
EXTENDS WaiterKernel

CONSTANTS
  Wakers,       \* wakers that futures are polled with (one per task)
  Permits,      \* Semaphore::new(Permits)
  MaxPermits    \* bound: permits in existence, for add_permits

ASSUME PermitsAssumption == Permits \in Nat /\ MaxPermits \in Nat

NoWaker == "none"
ASSUME WakersAssumption == NoWaker \notin Wakers

VARIABLES
  closed,       \* SemaphoreInner::closed
  entry,        \* SemaphoreInner::wakers: the waker stored for each parked id
  lock,         \* a thread is inside signal_n, holding the mutex
  todo,         \* permits that thread still has to hand out
  collected,    \* to_wake: wakers that thread has collected
  waking,       \* wakers being called, the mutex released
  granted,      \* Acquire::granted
  parked,       \* Acquire::parked
  fut,          \* how far each Acquire is
  ctx,          \* waker of each future's latest poll
  held,         \* SemaphorePermits that exist
  \* history variables
  total,        \* permits in existence
  woken         \* futures whose latest waker was called since their latest poll began

inner == <<kernel, closed, entry>>
signalv == <<lock, todo, collected>>
futv == <<granted, parked, fut, ctx>>
vars == <<inner, signalv, waking, futv, held, total, woken>>

FutStates == {"gone", "new", "polling", "pending", "ok", "err"}

TypeOK ==
  /\ permit \in Nat /\ queue \in Seq(Futures)
  /\ closed \in BOOLEAN /\ entry \in [Futures -> Wakers \cup {NoWaker}]
  /\ lock \in BOOLEAN /\ todo \in Nat
  /\ collected \subseteq Futures \X Wakers /\ waking \subseteq Futures \X Wakers
  /\ granted \subseteq Futures /\ parked \subseteq Futures
  /\ fut \in [Futures -> FutStates] /\ ctx \in [Futures -> Wakers \cup {NoWaker}]
  /\ held \in Nat /\ total \in Nat
  /\ woken \subseteq Futures

\* Semaphore::new
new(permits) ==
  /\ with_permits(permits)
  /\ closed = FALSE /\ entry = [f \in Futures |-> NoWaker]
  /\ lock = FALSE /\ todo = 0 /\ collected = {} /\ waking = {}
  /\ granted = {} /\ parked = {}
  /\ fut = [f \in Futures |-> "gone"] /\ ctx = [f \in Futures |-> NoWaker]
  /\ held = 0 /\ total = permits /\ woken = {}

Init == new(Permits)

(***************************************************************************)
(* signal_n, entered with the mutex held and left by the release of it.    *)
(***************************************************************************)
signal_n(n) == lock' = TRUE /\ todo' = n /\ UNCHANGED collected

\* The head waiter is dequeued.  If its waker is still there it gets the
\* permit, else (a dead id) the permit is for the next one.
SignalWoke ==
  LET f == Head(queue)
      live == entry[f] # NoWaker
  IN /\ lock /\ todo > 0
     /\ signal_woke
     /\ entry' = [entry EXCEPT ![f] = NoWaker]
     /\ granted' = IF live THEN granted \cup {f} ELSE granted
     /\ collected' = IF live THEN collected \cup {<<f, entry[f]>>} ELSE collected
     /\ todo' = IF live THEN todo - 1 ELSE todo
     /\ UNCHANGED <<closed, lock, waking, parked, fut, ctx, held, total, woken>>

\* Faulty variant: the loop of signal_n makes one turn too many.
SignalStored_OnceMore ==
  /\ lock
  /\ signal_stored
  /\ todo' = todo - 1
  /\ UNCHANGED <<closed, entry, lock, collected, waking, futv, held, total, woken>>

\* No waiter is left: the permit is stored.
SignalStored ==
  /\ lock /\ todo > 0
  /\ signal_stored
  /\ todo' = todo - 1
  /\ UNCHANGED <<closed, entry, lock, collected, waking, futv, held, total, woken>>

\* Faulty variant: the collected wakers are not called.
Unlock_NoWake ==
  /\ lock /\ todo = 0
  /\ lock' = FALSE /\ collected' = {}
  /\ UNCHANGED <<inner, todo, waking, futv, held, total, woken>>

\* The mutex is released, then the collected wakers are called.
Unlock ==
  /\ lock /\ todo = 0
  /\ lock' = FALSE /\ collected' = {}
  /\ waking' = waking \cup collected
  /\ UNCHANGED <<inner, todo, futv, held, total, woken>>

\* One waker is called.  It counts for the future if it is the waker of the
\* future's latest poll.
Wake(f, w) ==
  /\ <<f, w>> \in waking
  /\ waking' = waking \ {<<f, w>>}
  /\ woken' = IF ctx[f] = w THEN woken \cup {f} ELSE woken
  /\ UNCHANGED <<inner, signalv, futv, held, total>>

(***************************************************************************)
(* Acquire::poll and poll_acquire_inner.                                   *)
(***************************************************************************)
\* Semaphore::acquire.
Acquire(f) ==
  /\ fut[f] = "gone"
  /\ fut' = [fut EXCEPT ![f] = "new"]
  /\ granted' = granted \ {f} /\ parked' = parked \ {f}
  /\ ctx' = [ctx EXCEPT ![f] = NoWaker]
  /\ woken' = woken \ {f}
  /\ UNCHANGED <<inner, signalv, waking, held, total>>

\* The granted flag is read without the lock.
PollLoad(f, w) ==
  /\ fut[f] \in {"new", "pending"}
  /\ ctx' = [ctx EXCEPT ![f] = w]
  /\ woken' = woken \ {f}
  /\ IF f \in granted
       THEN fut' = [fut EXCEPT ![f] = "ok"] /\ held' = held + 1
       ELSE fut' = [fut EXCEPT ![f] = "polling"] /\ UNCHANGED held
  /\ UNCHANGED <<inner, signalv, waking, granted, parked, total>>

\* Then the lock is taken.
PollClosed(f) ==
  /\ fut[f] = "polling" /\ ~lock /\ closed
  /\ fut' = [fut EXCEPT ![f] = "err"]
  /\ UNCHANGED <<inner, signalv, waking, granted, parked, ctx, held, total, woken>>

PollReady(f) ==
  /\ fut[f] = "polling" /\ ~lock /\ ~closed /\ f \notin parked
  /\ take_step
  /\ fut' = [fut EXCEPT ![f] = "ok"] /\ held' = held + 1
  /\ UNCHANGED <<closed, entry, signalv, waking, granted, parked, ctx, total, woken>>

PollPark(f) ==
  /\ fut[f] = "polling" /\ ~lock /\ ~closed /\ f \notin parked
  /\ park_step(f)
  /\ parked' = parked \cup {f}
  /\ entry' = [entry EXCEPT ![f] = ctx[f]]
  /\ fut' = [fut EXCEPT ![f] = "pending"]
  /\ UNCHANGED <<closed, signalv, waking, granted, ctx, held, total, woken>>

\* A parked future is polled again: only its waker is replaced, if still there.
PollAgain(f) ==
  /\ fut[f] = "polling" /\ ~lock /\ ~closed /\ f \in parked
  /\ entry' = IF entry[f] # NoWaker THEN [entry EXCEPT ![f] = ctx[f]] ELSE entry
  /\ fut' = [fut EXCEPT ![f] = "pending"]
  /\ UNCHANGED <<kernel, closed, signalv, waking, granted, parked, ctx, held, total, woken>>

(***************************************************************************)
(* Drop for Acquire and drop_acquire_inner.                                *)
(***************************************************************************)
\* Completed, or never parked.
DropIdle(f) ==
  /\ fut[f] = "ok" \/ (fut[f] \in {"new", "pending", "err"} /\ f \notin parked)
  /\ fut' = [fut EXCEPT ![f] = "gone"]
  /\ UNCHANGED <<inner, signalv, waking, granted, parked, ctx, held, total, woken>>

\* Faulty variant: a future that has handed out its permit is cancelled too.
Cancellable_Completed(f) == fut[f] \in {"pending", "err", "ok"} /\ f \in parked /\ ~lock

Cancellable(f) == fut[f] \in {"pending", "err"} /\ f \in parked /\ ~lock

\* Still in the queue: withdrawn.
DropParked(f) ==
  /\ Cancellable(f)
  /\ remove_step(f)
  /\ entry' = [entry EXCEPT ![f] = NoWaker]
  /\ fut' = [fut EXCEPT ![f] = "gone"]
  /\ UNCHANGED <<closed, signalv, waking, granted, parked, ctx, held, total, woken>>

\* Faulty variant: an unpolled grant dies with its future.
DropGranted_Swallows(f) ==
  /\ Cancellable(f) /\ f \notin InQueue
  /\ fut' = [fut EXCEPT ![f] = "gone"]
  /\ UNCHANGED <<inner, signalv, waking, granted, parked, ctx, held, total, woken>>

\* Dequeued: a permit that was granted and never polled for goes to the next
\* waiter.  A future dequeued as a dead id after close has none.
DropGranted(f) ==
  /\ Cancellable(f) /\ f \notin InQueue
  /\ fut' = [fut EXCEPT ![f] = "gone"]
  /\ IF f \in granted THEN signal_n(1) ELSE UNCHANGED signalv
  /\ UNCHANGED <<inner, waking, granted, parked, ctx, held, total, woken>>

(***************************************************************************)
(* The other operations.                                                   *)
(***************************************************************************)
try_acquire ==
  /\ ~lock /\ ~closed
  /\ take_step
  /\ held' = held + 1
  /\ UNCHANGED <<closed, entry, signalv, waking, futv, total, woken>>

\* Drop for SemaphorePermit: release(1).
Release ==
  /\ ~lock /\ held > 0
  /\ held' = held - 1
  /\ signal_n(1)
  /\ UNCHANGED <<inner, waking, futv, total, woken>>

\* SemaphorePermit::forget: the permit is gone for good.
Forget ==
  /\ held > 0
  /\ held' = held - 1 /\ total' = total - 1
  /\ UNCHANGED <<inner, signalv, waking, futv, woken>>

add_permits(n) ==
  /\ ~lock /\ total + n <= MaxPermits
  /\ total' = total + n
  /\ signal_n(n)
  /\ UNCHANGED <<inner, waking, futv, held, woken>>

\* The wakers are taken out and called; the kernel's queue keeps the ids.
Close ==
  /\ ~lock
  /\ closed' = TRUE
  /\ entry' = [f \in Futures |-> NoWaker]
  /\ waking' = waking \cup {<<f, entry[f]>> : f \in {g \in Futures : entry[g] # NoWaker}}
  /\ UNCHANGED <<kernel, signalv, futv, held, total, woken>>

(***************************************************************************)
(* Specification.                                                          *)
(***************************************************************************)
SignalStep == SignalWoke \/ SignalStored \/ Unlock
Polled(f) == PollClosed(f) \/ PollReady(f) \/ PollPark(f) \/ PollAgain(f)
DropFuture(f) == DropIdle(f) \/ DropParked(f) \/ DropGranted(f)
Waking == \E f \in Futures, w \in Wakers : Wake(f, w)
FutureStep(f) == Acquire(f) \/ (\E w \in Wakers : PollLoad(f, w)) \/ Polled(f) \/ DropFuture(f)
OwnerStep == try_acquire \/ Release \/ Forget \/ (\E n \in 0 .. MaxPermits : add_permits(n)) \/ Close

Next == SignalStep \/ Waking \/ (\E f \in Futures : FutureStep(f)) \/ OwnerStep

Spec == Init /\ [][Next]_vars

(***************************************************************************)
(* Properties.                                                             *)
(***************************************************************************)
\* Grants whose future has not taken them yet: it may still be polled, or be
\* dropped.
Unclaimed == {f \in granted : fut[f] \in {"polling", "pending", "err"}}

\* Permits are neither lost nor duplicated: each one is stored, in the hands of
\* a thread in signal_n, granted to a waiter that has not seen it yet, or held
\* -- also when waiters are cancelled, before or after the grant, and when
\* close leaves ids of closed waiters in the kernel's queue.
PermitsConserved == permit + todo + held + Cardinality(Unclaimed) = total

\* No permit lies idle while a waiter is queued, so nobody who comes later can
\* take one past it (try_acquire, or a first poll).
NoBarging == permit > 0 => queue = <<>>

\* A waiter that neither a grant nor close has reached is in the queue with a
\* waker, so that a later release finds it.
WaitersReachable ==
  \A f \in parked : fut[f] \in {"polling", "pending"} /\ f \notin granted /\ ~closed =>
     f \in InQueue /\ entry[f] # NoWaker

\* The permits, the kernel's queue and the wakers agree.
SemaphoreSound == PermitsConserved /\ NoBarging /\ WaitersReachable

\* What the waiter can go on for has happened.
Settled(f) == f \in granted \/ closed

\* A suspended Acquire with a grant, or whose semaphore was closed, has been
\* woken through the waker of its latest poll, or is about to be.
NoLostGrant ==
  \A f \in Futures : fut[f] = "pending" /\ Settled(f) =>
     f \in woken \/ <<f, ctx[f]>> \in waking \cup collected

(***************************************************************************)
(* Seen from outside, the semaphore is one line served in turn: signal_n   *)
(* serves its waiters one by one under the lock, but they are settled when *)
(* it is entered, and close sends away everybody although it leaves their  *)
(* ids in the kernel's queue.                                              *)
(***************************************************************************)
\* How many of the queue the thread in signal_n is going to grant a permit.
Settling == IF closed THEN 0 ELSE IF todo <= Len(queue) THEN todo ELSE Len(queue)

\* Waiters that close has reached and that have neither failed nor been dropped.
SentAway == {f \in parked : closed /\ f \notin granted /\ fut[f] \in {"polling", "pending"}}

\* The line without those, the permits that no waiter is going to get, and
\* everybody who has got one or is going to.
WaitingLine == IF closed THEN <<>> ELSE SubSeq(queue, Settling + 1, Len(queue))
FreePermits == permit + todo - Settling
HandedOut == Unclaimed \cup {queue[i] : i \in 1 .. Settling}

SemaphoreLine == INSTANCE WaitLine WITH
  Start <- Permits, Batch <- MaxPermits,
  free <- FreePermits, line <- WaitingLine, given <- HandedOut,
  called <- SentAway, out <- held, open <- ~closed

\* Waiters are served in the order in which they parked and nobody takes a
\* permit past them, whichever of them are cancelled, in the queue or after the
\* grant, and whatever polls see of a signal_n that is under way.
ImplementsLine == SemaphoreLine!LineSpec

=============================================================================

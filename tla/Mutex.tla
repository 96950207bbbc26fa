------------------------------- MODULE Mutex -------------------------------
(***************************************************************************)
(* lion-utility/src/sync/mutex.rs: the asynchronous Mutex, a Semaphore of  *)
(* one permit.  A Lock or LockOwned is an acquiring future, a MutexGuard   *)
(* or OwnedMutexGuard a held permit.  try_lock_owned forgets the           *)
(* SemaphorePermit and its guard releases one permit itself, so that the   *)
(* guard holds the permit in both cases.  Nothing adds permits or closes   *)
(* the semaphore.                                                          *)
(***************************************************************************)
EXTENDS Semaphore

\* lock, lock_owned; their polls and drops are those of the semaphore.
Locking(f) == FutureStep(f)

\* try_lock, try_lock_owned.
try_lock == try_acquire

\* Drop for MutexGuard and OwnedMutexGuard.
DropGuard == Release

MutexNext == SignalStep \/ Waking \/ (\E f \in Futures : Locking(f)) \/ try_lock \/ DropGuard

\* Mutex::new
MutexInit == new(1)

MutexSpec == MutexInit /\ [][MutexNext]_vars

\* The executor polls a task that was woken; a poll returns; a thread in
\* signal_n or calling a waker goes on; a guard is dropped in the end.
MutexFairness ==
  /\ WF_vars(SignalStep)
  /\ \A f \in Futures, w \in Wakers : WF_vars(Wake(f, w))
  /\ \A f \in Futures :
       /\ WF_vars(f \in woken /\ \E w \in Wakers : PollLoad(f, w))
       /\ WF_vars(Polled(f))
  /\ WF_vars(DropGuard)

FairMutexSpec == MutexSpec /\ MutexFairness

(***************************************************************************)
(* Properties.                                                             *)
(***************************************************************************)
\* Guards give out references into the UnsafeCell: there is never more than one.
MutualExclusion == held <= 1

\* A lock future that waits gets the mutex, or is dropped: no cancellation and
\* no race between a poll and an unlock leaves the mutex locked for ever.
LockObtained == \A f \in Futures : (fut[f] = "pending") ~> (fut[f] \in {"ok", "gone"})

=============================================================================

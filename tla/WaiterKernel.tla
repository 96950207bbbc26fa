---------------------------- MODULE WaiterKernel ----------------------------
(***************************************************************************)
(* lion-utility/src/sync/waiter/kernel.rs: the permit counter and the FIFO *)
(* queue of parked waiters under Semaphore, Mutex and Notify.  A waiter id *)
(* is given out once, when a future parks, and a future parks at most      *)
(* once, so the future itself stands for its id.                           *)
(*                                                                         *)
(* The operators are the steps of the kernel; the modules that extend this *)
(* one make them part of their actions, inside the critical section of the *)
(* lock around the kernel.                                                 *)
(***************************************************************************)
EXTENDS Integers, Sequences, FiniteSets

CONSTANT Futures    \* the futures that may wait

ASSUME FuturesAssumption == IsFiniteSet(Futures)

VARIABLES
  permit,   \* stored permits
  queue     \* parked waiters, oldest first

kernel == <<permit, queue>>

with_permits(p) == permit = p /\ queue = <<>>

InQueue == {queue[i] : i \in 1 .. Len(queue)}

\* Faulty variant: the permit is not checked.
take_step_unguarded ==
  /\ permit' = permit - 1
  /\ UNCHANGED queue

\* try_acquire_step, and wait_step when it answers Ready.
take_step ==
  /\ permit > 0
  /\ permit' = permit - 1
  /\ UNCHANGED queue

\* Faulty variant: the waiter is put in front of the others.
park_step_front(f) ==
  /\ permit = 0
  /\ queue' = <<f>> \o queue
  /\ UNCHANGED permit

\* wait_step, Park.
park_step(f) ==
  /\ permit = 0
  /\ queue' = Append(queue, f)
  /\ UNCHANGED permit

\* signal_step, Woke: the head of the queue is taken off.
signal_woke ==
  /\ queue # <<>>
  /\ queue' = Tail(queue)
  /\ UNCHANGED permit

\* signal_step, Stored.
signal_stored ==
  /\ queue = <<>>
  /\ permit' = permit + 1
  /\ UNCHANGED queue

\* find_first: the place of f's first occurrence.
find_first(f) ==
  CHOOSE i \in 1 .. Len(queue) : queue[i] = f /\ \A j \in 1 .. i - 1 : queue[j] # f

\* A queue without its i-th element.
Without(q, i) == [j \in 1 .. Len(q) - 1 |-> IF j < i THEN q[j] ELSE q[j + 1]]

\* Faulty variant: the head is removed instead of f.
remove_step_head(f) ==
  /\ f \in InQueue
  /\ queue' = Tail(queue)
  /\ UNCHANGED permit

\* remove_step, where it finds f.
remove_step(f) ==
  /\ f \in InQueue
  /\ queue' = Without(queue, find_first(f))
  /\ UNCHANGED permit

=============================================================================

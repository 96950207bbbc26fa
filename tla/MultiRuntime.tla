---------------------------- MODULE MultiRuntime ----------------------------
(***************************************************************************)
(* lion/src/multi.rs: a runtime on the thread of its owner and one on each *)
(* worker thread, which runs block_on on the receiver of a oneshot until   *)
(* Drop for MultiRuntime sends to it.  block_on is what module Executor    *)
(* promises of it: it polls its future, runs tasks, and polls again, since *)
(* no park lasts longer than the reactor's timeout.  A task that panics    *)
(* ends its worker thread.                                                 *)
(***************************************************************************)
EXTENDS JoinHandle, Oneshot, Integers

CONSTANT NumThreads     \* num_threads of MultiRuntime::new

Executors == 0..(NumThreads - 1)       \* 0 is the owner's thread
Workers == 1..(NumThreads - 1)
ASSUME ThreadsAssumption == NumThreads \in Nat \ {0} /\ Channels = Workers /\ RxWakers # {}

MainWaker == CHOOSE x \in RxWakers : TRUE     \* block_on polls with one waker

VARIABLES
  next,     \* MultiHandleInner::next, modulo the number of handles
  tasks,    \* each executor: jobs spawned on it and not finished
  worker,   \* each worker thread: polls its receiver, runs tasks, ended
  owner,    \* the MultiRuntime: in use, sending, joining, gone
  turn      \* Drop: the worker to send to or to join

multiv == <<next, tasks, worker, owner, turn>>

MultiTypeOK ==
  /\ JoinTypeOK /\ OneshotTypeOK
  /\ next \in Executors /\ tasks \in [Executors -> SUBSET Jobs]
  /\ worker \in [Workers -> {"poll", "run", "ended"}]
  /\ owner \in {"used", "sending", "joining", "gone"} /\ turn \in 1..NumThreads

\* MultiRuntime::new returns once every worker has built its runtime.
MultiInit ==
  /\ JoinInit /\ OneshotInit
  /\ next = 0 /\ tasks = [e \in Executors |-> {}]
  /\ worker = [w \in Workers |-> "poll"]
  /\ owner = "used" /\ turn = 1

\* MultiHandle::spawn; a clone of the handle may outlive the runtimes.
multi_spawn(j) ==
  /\ new_join(j)
  /\ tasks' = [tasks EXCEPT ![next] = @ \cup {j}]
  /\ next' = (next + 1) % NumThreads
  /\ UNCHANGED <<oneshotv, worker, owner, turn>>

\* A task of a runtime inside block_on finishes.
Alive(e) == IF e = 0 THEN owner = "used" ELSE worker[e] = "run"

TaskDone(e, j) ==
  /\ Alive(e) /\ j \in tasks[e]
  /\ complete(j)
  /\ tasks' = [tasks EXCEPT ![e] = @ \ {j}]
  /\ UNCHANGED <<oneshotv, next, worker, owner, turn>>

\* The worker's block_on polls the receiver, and returns when that is ready; the
\* Receiver is dropped with it.
WorkerPolls(w) ==
  /\ worker[w] = "poll" /\ recv[w] \in {"idle", "pending"}
  /\ \/ RxReady(w) /\ UNCHANGED worker
     \/ RxPending(w, MainWaker) /\ worker' = [worker EXCEPT ![w] = "run"]
  /\ UNCHANGED <<joinv, next, tasks, owner, turn>>

WorkerReturns(w) ==
  /\ worker[w] = "poll" /\ recv[w] \in {"value", "closed"}
  /\ oneshot_drop_receiver(w)
  /\ worker' = [worker EXCEPT ![w] = "ended"]
  /\ UNCHANGED <<joinv, next, tasks, owner, turn>>

\* Faulty variant: block_on polls its future again only when no task is left.
WorkerTicked_busy(w) ==
  /\ worker[w] = "run" /\ tasks[w] = {}
  /\ worker' = [worker EXCEPT ![w] = "poll"]
  /\ UNCHANGED <<joinv, oneshotv, next, tasks, owner, turn>>

\* tick is over: tasks were run and the reactor was polled.
WorkerTicked(w) ==
  /\ worker[w] = "run"
  /\ worker' = [worker EXCEPT ![w] = "poll"]
  /\ UNCHANGED <<joinv, oneshotv, next, tasks, owner, turn>>

\* A task panics: the thread unwinds, its receiver is dropped.
WorkerPanics(w, j) ==
  /\ worker[w] = "run" /\ j \in tasks[w]
  /\ tasks' = [tasks EXCEPT ![w] = @ \ {j}]
  /\ oneshot_drop_receiver(w)
  /\ worker' = [worker EXCEPT ![w] = "ended"]
  /\ UNCHANGED <<joinv, next, owner, turn>>

(***************************************************************************)
(* Drop for MultiRuntime                                                   *)
(***************************************************************************)
StartDrop ==
  /\ owner = "used"
  /\ owner' = "sending"
  /\ UNCHANGED <<joinv, oneshotv, next, tasks, worker, turn>>

\* tx.send(()), the call of the waker it took, and the drop of the Sender.
DropSends(w) ==
  /\ owner = "sending" /\ turn = w
  /\ \/ (oneshot_send(w) \/ WakeRx(w)) /\ UNCHANGED turn
     \/ tx[w] = "sent" /\ oneshot_drop_sender(w) /\ turn' = turn + 1
  /\ UNCHANGED <<joinv, next, tasks, worker, owner>>

DropSent ==
  /\ owner = "sending" /\ turn = NumThreads /\ \A w \in Workers : rx_waking[w] = NoRx
  /\ owner' = "joining" /\ turn' = 1
  /\ UNCHANGED <<joinv, oneshotv, next, tasks, worker>>

DropJoins(w) ==
  /\ owner = "joining" /\ turn = w /\ worker[w] = "ended"
  /\ turn' = turn + 1
  /\ UNCHANGED <<joinv, oneshotv, next, tasks, worker, owner>>

DropEnds ==
  /\ owner = "joining" /\ turn = NumThreads
  /\ owner' = "gone"
  /\ UNCHANGED <<joinv, oneshotv, next, tasks, worker, turn>>

WorkerStep(w) == WorkerPolls(w) \/ WorkerReturns(w) \/ WorkerTicked(w)
DropStep == DropSent \/ DropEnds \/ \E w \in Workers : DropSends(w) \/ DropJoins(w)

MultiNext ==
  \/ \E j \in Jobs : multi_spawn(j) \/ \E e \in Executors : TaskDone(e, j)
  \/ \E w \in Workers : WorkerStep(w) \/ \E j \in Jobs : WorkerPanics(w, j)
  \/ StartDrop \/ DropStep
  \/ PollJoin /\ UNCHANGED <<oneshotv, multiv>>

MultiSpec == MultiInit /\ [][MultiNext]_<<joinv, oneshotv, multiv>>

(***************************************************************************)
(* Properties.                                                             *)
(***************************************************************************)
\* Drop joins only threads that have ended or find the end of their block_on at their
\* next poll, and once it is over none of them is left.
ShutdownHeard ==
  /\ owner \in {"joining", "gone"} =>
       \A w \in Workers : worker[w] = "ended" \/ recv[w] \in {"value", "closed"}
                         \/ (Polls(w) /\ chan[w].st # "Empty")
  /\ owner = "gone" => \A w \in Workers : worker[w] = "ended"

\* A MultiRuntime that is dropped comes to an end: every worker thread leaves its
\* block_on, whatever it was doing when the oneshot was sent, or has ended before.
ShutdownEnds == []ShutdownHeard /\ ((owner = "sending") ~> (owner = "gone"))

=============================================================================

# Lion in TLA+

Lion is an asynchronous runtime for Rust in the style of tokio's
current-thread runtime.  Its sequential core (executor, reactor, timer wheel,
slab and the decision kernels of the synchronisation primitives) is verified
with Verus against an event log.  What lies around the core is *trusted glue*:
thread-local queues, wakers, the cross-thread queue and interrupt, and the
`Future` and `Drop` implementations of `Semaphore`, `Mutex`, `Notify`, the
channels, timers and sockets.  The repository's own account of its bugs
(`HANG_FIXING_STORY.md`) places all of them there.  This project models core
and glue together, with the interleavings of several threads that a
sequential proof does not see.

## Inventory

| Component | State | Operations | What is hard | Correct when |
|---|---|---|---|---|
| Executor (`lion-executor`) | `task_slab`, `TidLedger`, `local_queue`, tick budget; thread-local `REACTOR_READY_QUEUE`, `TASK_READY_QUEUE`, `DEFER_QUEUE`, `TASK_NOTIFIED`, `BLOCK_ON_YIELDED`, `CURRENT_TASK` | `block_on`, `tick`, `next_task`, `poll_task`, `park`, `spawn`, `yield_now`, wakes | three queues and a flag that suppresses duplicates, per-tick budget, thread-locals that outlive a runtime | no task and no wake is lost; every due task is polled |
| Cross-thread wake and spawn | `CrossThreadQueue`, `injection_queue`, `task_id_counter`, interrupt flag, mio waker | `wake_impl`, `InnerHandle::spawn`, `InterruptHandle::wake/reset`, `drain_cross_thread` | push-then-interrupt against reset-drain-poll | the runtime thread never sleeps on a woken task |
| WaiterKernel | permit counter, FIFO of parked ids | `try_acquire_step`, `wait_step`, `signal_step`, `remove_step` | cancellation in the middle of the queue | permits conserved, FIFO |
| Semaphore, Mutex | kernel, waker list, `closed`; per future `granted`, `parked`, `completed` | `acquire`/`lock` (poll, drop), `try_acquire`, `release`, `forget`, `add_permits`, `close` | flag read outside the lock, grants to futures that are dropped, wakers called after unlock | permits conserved, one guard, no barging, no lost grant |
| Notify | kernel, waker list; per future `flag`, `parked`, `completed` | `notify_one`, `notify_waiters`, `notified` (poll, drop) | the same, and a broadcast that must not be forwarded | every notification completes exactly one future |
| Reactor (`lion-reactor`) | resource slab, timer wheel, `pending_deregister`, `cached_now`, readiness bitmap | register/deregister I/O and timers, `set_waker`, `park` | stale time, reuse of a deregistered timer, edge-triggered events | an armed timer or ready socket wakes its latest waker |
| Time (`Sleep`, `Interval`, `Timeout`) | deadline, resource id | poll, reset, drop | re-registration in every poll | never early, always in the end |
| Channels (mpsc, oneshot, broadcast, watch) | kernels, waker lists | send, recv, reserve, close, drops | hints consumed by cancelled futures | values neither lost nor duplicated, no stuck peer |
| TCP/UDP glue | readiness flags | connect, read, write, accept | flags cleared at the wrong place | no wait for an edge that never comes |
| JoinHandle, BlockingPool | result slot and waker; worker queues | poll, complete; spawn | two threads; panics | a finished task's handle resolves |
| MultiRuntime | runtimes, shutdown channels | spawn, drop | joins its workers | shutdown ends |
| Timer wheel | levels of slots, deadlines, elapsed time | insert, remove, `try_pop_expired`, `next_deadline` | slot arithmetic, cascades, parks that skip rounds | equal to a map from id to deadline |
| Slabs | sequential containers | insert, remove | | equal to a map |
| fs, addresses, macros, benchmarks, Verus specifications and proofs | none at run time | | | not to be modelled |

A task calls wakers, handles and primitives inside its poll; a waker pushes
its id to a queue of the executor, directly on the runtime thread and through
the cross-thread queue and the interrupt elsewhere; `park` hands control to
the reactor, whose wakes go to `REACTOR_READY_QUEUE` for sockets and, since
`Sleep` registers the task's own waker, to `TASK_READY_QUEUE` for timers.  The
primitives keep the wakers of suspended futures and call them with their own
mutex released.

## Modules

| Module | Models |
|---|---|
| `Executor` | `lion-executor/src/{lib,handle,tls}.rs`, `executor/*.rs`, `types/waker.rs`, and the interrupt handle of `lion-reactor` |
| `Scheduler` | the abstract specification: what a runtime promises its tasks |
| `WaiterKernel` | `lion-utility/src/sync/waiter/kernel.rs`, as operators for the modules that queue waiters |
| `Semaphore`, `Mutex`, `Notify` | `lion-utility/src/sync/{semaphore,mutex,notify}.rs` |
| `WaitLine` | the abstract specification of these three: one line of waiters, served from its front |
| `Mpsc` | `sync/mpsc.rs` and `sync/channel_kernel.rs`: the bounded and the unbounded channel |
| `Subscribers`, `Watch`, `Broadcast` | `sync/watch.rs`, `sync/broadcast.rs` and their kernels; the first is the code the two share |
| `Oneshot` | `sync/oneshot.rs` and its kernel |
| `JoinHandle`, `BlockingPool` | `lion-executor/src/types/join_handle.rs`, `blocking.rs` |
| `MultiRuntime` | `lion/src/multi.rs`, over `JoinHandle` and `Oneshot` |
| `Timers` | the timers of `lion-reactor` (`handle.rs`, `reactor/{timer,park}.rs`) and `lion-utility/src/time/sleep/*.rs` |
| `TimerWheel` | `lion-timer-wheel/src/wheel.rs` |
| `TimerMap` | the abstract specification of the wheel: a map from id to deadline |
| `Io` | `lion-utility/src/net/{tcp,udp}` over the I/O half of `lion-reactor` (`register.rs`, `waker.rs`, `readiness.rs`, `park.rs`) |
| `ExecutorProofs`, `WaiterKernelProofs`, `SemaphoreProofs` (with `Mutex`), `NotifyProofs`, `MpscProofs`, `TimersProofs`, `IoProofs`, `PartsProofs` (everything in `MCParts`) | theorems and lemmas |
| `MC*` | instances for TLC; `MCParts` puts the parts that share no state with the rest side by side |

A definition whose comment calls it a faulty variant is not part of the model:
it is a plausible mistake in the definition it precedes, kept to show that a
property notices it.

**Executor.**  The runtime thread advances `pc` and `stage` (which part of
`tick` it is in).  A drain moves one id per step, so that other threads
(`Helpers`) act in between; nothing else can touch the runtime thread's own
structures, which makes this the code's drain.  `stage = "check"` is the part
of `park` from the reset of the interrupt flag to mio's poll; `pc = "fire"` is
the time inside `Reactor::park` in which it calls wakers: a socket's through
`ReactorWake`, a timer's through `TimerWake`, each into its own queue.  A user
future may wake any id whose waker exists, yield, spawn and return Ready or Pending.  A
foreign thread's wake is a push, a swap of the flag and, if it found the flag
clear, a write to mio's waker: three steps.  `owed`, `started`, `stale`,
`done` and `main_yielded` are history variables.  `NewRuntime` drops the
runtime and builds another one on the thread: executor, queues to it and
interrupt are new, the thread-local queues and flags are not.  `TaskStatus`
is the refinement mapping to `Scheduler`.

**Semaphore, Mutex, Notify.**  A critical section of the std mutex is one step,
except the loops that store flags other threads read without the mutex
(`signal_n`, `notify_waiters`): the thread in the loop holds `lock` and makes
one step per store.  A poll is two steps, the read of the flag and the critical
section.  Wakers collected under the lock are called afterwards, one per
step.  `entry[f]` is the waker stored for a parked future, `ctx[f]` the waker
of its latest poll, and `woken` the futures whose latest waker has been called
since that poll began.  A waiter id is given out once per future, so the
future stands for it.

**WaitLine.**  What all three promise their waiters, as one specification: a
permit that comes in is handed to whoever has waited longest, it is free only
when nobody waits, nobody takes one past the line, and who was handed one takes
it or hands it on.  The semaphore's permits are the line's, and a notification
of Notify is one too.  In the refinement mapping a call of `signal_n` or
`notify_waiters` has served its waiters when it has the lock: from outside, whom
it is still to flag (`Settling`) has been served already, although a poll may not
see it yet.  The line of the code is the rest of the kernel's queue
(`WaitingLine`), without the dead ids that `close` leaves there.

**Mpsc.**  Every operation is one critical section, followed by the call of the
waker it took as a step of its own.  `buffered` and `reserved` are the counts
of `ChannelKernel`, `buffer` the length of the `VecDeque` beside it; values are
counted and not looked at.  The module instantiates `WaiterKernel` twice, for
the senders that wait for a slot and for the receiver.  A slot is announced by
dequeuing a sender (`wake_one_tx`); the sender is then `Hinted` until it polls
again, and another sender may be faster.  Dropping a hinted sender passes the
hint on.  Capacity `U64Max` is the unbounded channel.

**Subscribers, Watch, Broadcast.**  A receiver compares its cursor `seen` with
the counter `version` of what was published, and waits when they are equal;
`wake_all` drains the queue.  `Watch` adds `wait_for`, an async function that
takes the mutex three times (`WaitForLook`, the suspension, `WaitForTake`) with
other threads in between.  `Broadcast` adds the ring of values beside the
kernel's count of its slots, with the lag answer when a receiver falls behind.

**Oneshot, JoinHandle.**  `Oneshot` keeps one record per channel.  `send`
consumes the Sender, whose Drop is a second critical section with a second
signal.  `JoinHandle` is a result and a waker under one mutex; a `JoinSender`
that is dropped leaves no trace.

**BlockingPool.**  The pool's `next` is a `Cell` in a type that claims `Sync`:
its read and its write are separate steps of a spawner.  A thread's
`park` consumes a token or sleeps, `unpark` leaves one.  A closure that panics
ends its thread, with the jobs queued for it.  `given` is a history variable.

**MultiRuntime.**  Each worker runs `block_on` on the receiver of a oneshot; its
steps are a poll of that future, a task, or a panic of a task that ends the
thread.  `Drop` sends to every worker and then joins them in order.

**Timers.**  The reactor is one record (wheel, slots, noted deregistration, next
id), and its operations are functions on it, because a poll of `Sleep` makes
two of them in a row with no other step in between.  The wheel is the map from
id to deadline that it implements (`TimerWheel` shows that it does); 0 stands
for no id and no deadline.  `park` and `wake_expired_timers` are the two halves
of `Reactor::park` around mio's poll: the first flushes the noted
deregistration (`park_action` of the executor), reads the clock and computes
the timeout, the second wakes what was due at that reading, on the success and
on the error path alike.  `now` and `until` are the locals of a park.  A Sleep
is `pending` while its latest poll in the current runtime returned Pending, and
`failed` after the panic that follows a refused registration.  `ctx`, `woken`
and `carried` are history variables.  `NewRuntime` replaces the reactor; the
cached clock is a thread-local and Sleeps may live on.

**TimerWheel, TimerMap.**  The wheel's slots are sequences of ids, level by
level.  `advance_to` and its cascade, the bounded scans of `next_deadline` and
the placement of a deadline on a level are those of the code, with the number
of slots and levels as constants.  The reactor's use is part of the model:
between two parks timers come and go, and a park pops with one time until
nothing is due.  `TimerMap` says what this must look like from outside: each
due timer is popped exactly once, none early, and `next_deadline` is the
earliest one.

**Io.**  One socket: a stream that is accepted or connecting, a listener or a UDP
socket.  The kernel side is external: what there is to read, room to write,
the state of the connection, and `edge`, the socket's place on epoll's ready
list.  `park` collects the event, sets the flags and wakes.  Polls try the
system call only when their flag is set, clear it as the code does (after
`WouldBlock`, but also after a short read or write), and store their waker in
the slot.  A poll and a park are one step each, since lion's side of a socket
lives on one thread.

**MCParts.**  `kind` chooses which part a behaviour is about (watch, broadcast,
oneshot, multi, pool, wheel); the variables of the others keep their initial
values.  One run then answers for all of them.

## Runs

| Run | Instance | Properties |
|---|---|---|
| `live` | 2 tasks, budget 1, 1 thread | `TypeOK`, `OnePlace`, `NoLostWake`, `ImplementsScheduler`, `MainIsPolled` |
| `threads` | 1 task, budget 2, 2 threads, 2 copies of an id, 2 runtimes | `NotifiedQueued`, `YieldSkipsTimeout`, `NoSleepOnWokenTask` |
| `semaphore` | 3 futures, up to 2 permits | `TypeOK`, `SemaphoreSound`, `NoLostGrant`, `ImplementsLine` |
| `semaphore_handover` | 1 future, 2 wakers | `NoLostGrant` is violated |
| `mutex` | 3 lock futures | `MutualExclusion`, `LockObtained` |
| `notify` | 2 futures, 3 `notify_one` | `TypeOK`, `NotificationsSound`, `NotificationsArrive`, `ImplementsLine`, `NotifiedCompletes` |
| `timers` | 2 Sleeps, 2 wakers, 3 ids, 3 instants, 2 runtimes | `TypeOK`, `WakeSourceKept`, `WheelSound`, `NeverEarly`, `NoOversleep`, `SleepCompletes` |
| `timers_restart` | 2 Sleeps, 1 waker, 2 runtimes | `HasWakeSource` is violated |
| `mpsc` | 2 senders, 2 wakers, capacities 1 and 2 and unbounded | `TypeOK`, `BooksAgree`, `SendersReachable`, `NoStuckReceiver` |
| `io` | 2 tasks, up to 3 units each way | `TypeOK`, `NoMissedReadiness`, `OperationsResume` |
| `io_eof` | 2 tasks, up to 2 units each way | `NoMissedEnd` is violated |
| `parts` | 2 receivers, 3 versions, ring of 2; 2 oneshots; 2 jobs, 2 pool threads, 2 spawners; 3 runtimes; 3 timers on a wheel of 3 levels of 3 slots | `TypeOK`, `UpdatesArrive`, `ReadyIsBuffered`, `OneshotAnswered`, `JoinAnswered`, `PoolServed`, `ShutdownEnds`, `ImplementsTimerMap` |

What they say, in short.  `OnePlace`: a task is in one place only, and no queue
offers it for a second start.  `NoLostWake`, `NotifiedQueued`: a woken task has
an entry on its way to `poll_task`, also when a raised flag suppressed the
push.  `NoSleepOnWokenTask`, `YieldSkipsTimeout`: `park` does not wait with
work to do.  A wake of the `block_on` future other than by a yield is not covered
by these two: its id is unknown to the ledger, `park` may sleep its 100 ms on it,
and the code promises no more than `MainIsPolled`, that it is polled again in the
end (`HANG_FIXING_STORY.md`: "eventually" is not "promptly").
`SemaphoreSound` is `PermitsConserved`, `NoBarging` and
`WaitersReachable`; `ImplementsLine` is the specification of `WaitLine`;
`NotificationsSound` says that queue and wakers match and that notifications
are conserved; `NotificationsArrive` that a broadcast reaches all who waited
when it was called and that no notification is lost on a suspended future;
`WheelSound` is `NoOrphanTimers`, `WheelMatchesSlots` and `WheelAhead`;
`BooksAgree` is `SlotsAccounted` and `TxHintsNotStored`; `SendersReachable` is
`NoStuckSender` (every free slot next to a waiting sender has been announced to
somebody who is still to look) and `HintsDelivered` (the announcement goes to
the latest waker); `NoMissedReadiness` is `NoMissedData`, `NoMissedRoom` and
`Registered`; `UpdatesArrive` is `WaitersMatch`, `NoMissedUpdate` and
`ClosedSeenAll` (only who has seen everything is told that the channel is
closed);
`PoolServed` is `NoSleepOnJob` and `JobsOnce` (a job is with its spawner, in one
queue or with one thread, and in none of these once it has its result; none is
lost while no closure has panicked); `ShutdownEnds` says that `Drop` returns, and
by `ShutdownHeard` that it joins only threads that have ended or will find the
end of their `block_on` at their next poll.

Why the bounds are enough.  Two tasks are needed for one to be polled while
another is queued; a budget of one makes the second task wait for the second
loop or the next tick; two copies of an id make an entry outlive the poll it
was for; two threads let one thread's interrupt swallow the other's; three
futures let one be cancelled in the middle of a queue of three.  Two Sleeps let
one take over the timer that the other gave up, two wakers tell whose waker
the timer then has, instants 0 to 2 put a deadline before, at and after the
cached clock, and with `MaxRid` = 4 three ids can be handed out before
registration fails.  Two senders and a capacity of one or two let a slot be
announced to one sender and taken by another, and let a hinted sender be
cancelled with the other one still queued.  Three units let a read be short,
exact and leave something.  Two pool threads and two spawners let the torn
round-robin position send both jobs to one queue.  A wheel of three levels with
three slots has 27 ticks; the times of the run lie at, just before and just
after the boundaries of its levels and beyond its range, and every jump from one
to another is a park.  `MaxTime` bounds the clock; `MaxRid` is the code's
`u64::MAX`; `U64Max` the capacity the code gives an unbounded channel.
`MaxCopies` bounds how often an id is queued when it is woken (the code bounds
no queue); `MaxTasks`, `MaxRuns`, `MaxPermits`, `MaxSent`, `MaxSenders`,
`MaxBuffered`, `MaxHints`, `MaxVersion` and `MaxRx` bound spawns, runtimes,
permits, notifications, handles, values, stored wakes, publications and what
the peer sends.  The theorems below hold for every value of these bounds.
Deadlock is not checked in `mpsc` and `parts`, where everything may be dropped.

Fairness.  `Executor`: a poll returns, the runtime thread is scheduled and
mio's poll returns after 100 ms at the latest (`WF` of `PollEnd` and
`RuntimeStep`), and a thread inside `wake` or `spawn` finishes the call.
Nothing obliges a task to wake, or the reactor to fire.  `Mutex`: a thread in
`signal_n` or calling a waker goes on, a woken task is polled (what `live`
shows of the executor), a poll ends, and guards are dropped in the end.
`Notify`: the same, with strong fairness for a poll that waits for the std
mutex, which others may take again and again.  `Timers`: time passes, the
thread parks and mio's poll returns, and a woken task is polled between two
parks (strong fairness, since polls are possible only then; again what `live`
shows).  `Io`: the thread parks and a woken task polls its operation; nothing
obliges the peer.  `MCParts`: the worker threads and the thread that drops a
`MultiRuntime` are scheduled.  Cancellation, further polls and new futures are
never obliged to happen.

## Findings

1. `Acquire::poll` loses its wake when the waker changes.  It reads `granted`
   before it locks, and its branch for a parked future does not read it again.
   A release in between calls the waker of the previous poll only.  A future
   that is moved between tasks, or polled under a combinator with wakers of
   its own, then waits with its permit granted (`semaphore_handover`).  With
   one waker per future the grant is never lost; that is theorem `GrantsKept`.
2. A `Sleep` that armed a timer under one runtime and is reset, polled or
   dropped under another one on the same thread deregisters whatever timer has
   its id there, since every reactor counts ids from 1.  The owner of that
   timer stays suspended with nothing to wake it (`timers_restart`), although
   `timeout.rs` relies on every Pending having a wake source.  Without such a
   Sleep nothing is lost; that is theorem `SleepsWoken`.
3. `poll_read` clears the readable flag after a short read.  If the end of the
   stream arrived with the data, in one event, the next `poll_read` waits for
   an edge that has been delivered already (`io_eof`).  The audit in
   `HANG_FIXING_STORY.md` says that every clear follows a `WouldBlock`; those
   after a short read and a short write do not.  For data the short read is
   safe, which `NoMissedReadiness` and theorem `EdgesNotMissed` show.

## Proofs

Proved by TLAPS, for every value of the constants (`WaiterKernelProofs` states
what the kernel's steps do to the queue as a set; the proofs that extend it
never look into the sequences):

- **Executor.**  `TypeCorrect`: `TypeOK` and `Control` (which `pc` belongs to
  which stage, and that a poll is only started within the budget) are inductive
  together.  `WakesKept` and `FlagsBacked`: `NoLostWake` and `NotifiedQueued`,
  neither of which is inductive alone: a push that the notified flag suppresses
  is harmless because of `NotifiedQueued`, and an id that is dropped by
  `filter_and_enqueue` is not live because every live task is in the ledger
  (`LiveKnown`), which the inductive invariant adds.  `WakesSignalled` and
  `NeverAsleepOnWoken`: from the reset of the interrupt flag on, a raised flag
  means that a write is pending or under way; with `NoLostWake` a woken task
  would have to be in the cross-thread queue, for which a thread is still to
  swap or write.  `TasksPlaced`: `OnePlace` is inductive once it is split into
  the places of a task, the injection queue without duplicates and one spawner
  per id.  `YieldsNotDelayed`: `YieldRemembered` follows the flag from the yield
  to the park that takes it.
- **Executor implements Scheduler.**  `ImplementsSafely` is `Spec => Sched!SSafe`,
  under the mapping of `TaskStatus`.  Every step is shown to be one abstract
  step or a stutter: sends of a spawn create, wakes wake, `poll_task` runs, its
  end suspends or finishes, and everything that moves ids between queues
  stutters, because a task's status depends on where it is and not on how often
  its id is queued.  The proof needs `OnePlace` and `StartedOK` (a task that has
  been polled is still stored or has finished, and only such a task is running
  or owed a wake).  The
  liveness promise of `Scheduler` is model-checked by `live`.
- **Semaphore, Mutex.**  `SemaphoreTypes`, `SemaphoreSafe`: the inductive invariant
  adds `Shape` (the queue has no duplicates and holds parked futures that are
  suspended or being polled; who has been granted has left it; outside `signal_n`
  nothing is collected).  `GrantsKept` assumes a single waker and adds that an
  armed entry is the waker of the latest poll.  `MutexExcludes` follows from the
  same invariant, and from a mutex, a semaphore made with one permit, never having
  more than one in existence.
- **Notify.**  `NotifyTypes`, `NotifySound`: `Shape` of `NotifyProofs`, with
  `Reached` for the futures that a running `notify_waiters` is still to flag.
  `NotificationsNoticed` assumes a single waker and adds `WakeArmed` (a flagged
  future has been woken or its waker is collected).
- **Semaphore, Mutex and Notify implement WaitLine.**  `SemaphoreInTurn`,
  `MutexInTurn`, `NotifyInTurn`, each `... => ImplementsLine`.  Every step is one of
  the line or a stutter: the call that starts `signal_n` hands out the permits of the
  whole loop, whose steps then stutter, since each moves a future from those to be
  served to those flagged; a poll joins, takes or claims; a drop leaves, refuses or
  forwards.  Here the order in the sequences matters and not only their members:
  that `remove_step` keeps the order of the others is `FirstPlace` and `RemoveStep`
  of `WaiterKernelProofs`.  The invariants above are needed in two places:
  `NoBarging`, for a permit that is free or a stored notification that is taken only
  when nobody is in line; and `Shape`, for a drop to find its future in the part of
  the queue where the line has it.
- **Mpsc.**  `MpscTypes`, `MpscBooks`, `SendersServed`, `ReceiverServed`, from one
  invariant: `Counted` (the books), `TxInv` (queue and wakers hold the same
  senders, nothing is stored), `RxInv` (the receiver is registered or awake),
  `HintsDelivered`, and `Announced`.  The last counts: with a sender in the
  queue there are at least as many hinted senders as free slots.  A step can
  free one slot and then hints a new sender, take one slot and lose one hinted
  sender, or cancel a hinted sender and hint another (`AnnouncedKept` states the
  three cases with cardinalities).  No bound of the model is used.
- **Timers.**  `TimersTypes`, `SleepsWoken`, `NeverSleepsTooLong`, `TimersOnTime`,
  `TimersConsistent`: one inductive invariant.  `ReactorOK` says that wheel and
  slots agree, that the noted timer is still armed and that ids not handed out
  are free; `Owned` that each id belongs to one suspended Sleep and is not the
  noted one, which is what keeps one Sleep's operations away from another's
  timer; `Times` orders the wheel's time, the cached clock and the clock;
  `Claimed` that every armed timer is some Sleep's, the noted one, or due.
  `Owned` is lost once a Sleep carries an id into another runtime (`carried`).
  What the reactor's functions change is stated in one lemma each
  (`FlushLemma`, `DeregisterLemma`, `RegisterLemma`) and the steps use these.
  The least deadline exists because `<` on the naturals is well-founded.
- **Io.**  `IoTypes`, `EdgesNotMissed`, for callers that use `try_io` to read
  (`ReadsOnly`).  The invariant says what a clear flag means: there is nothing
  to read, or no room and a note that makes the kernel announce it, or an event
  is still to be collected (`ReadFlag`, `WriteFlag`); that who is suspended with
  its flag set has been woken (`FlagWakes`); and who may poll an unconnected
  socket (`Usage`).
- **TimerWheel implements TimerMap.**  `WheelRefinesMap` is
  `WheelSpec => ImplementsTimerMap`, for every number of levels and slots, every
  set of timers and all times; `WheelTypeCorrect` is the wheel's bookkeeping.  The
  inductive invariant `TimersInv` has three parts.  `Sound`: slots, positions, deadlines,
  pending timers and the counters of the levels agree; it has a parameter, the
  timers that are out of one slot and not in another yet, so that it also holds
  between the steps of a cascade.  `Placed`: every timer is in a slot of
  `PlacedAt(elapsed)`, that is, in the slot of its own digit, ahead of the time on
  its level and, except on the last level, at most a round ahead.  The third says
  that pending timers are due and that there are none between two parks.
  The argument for `advance_to`: a timer whose slot time does not pass is still
  where it may be at the new time (`NotDrained`, from `SlotReached`: counting on
  slot by slot, the slot of any time that was passed is met within one round); the
  timers of a slot that is passed are pending or placed anew (`CascadeStep`), and
  if time stays in its slot on a level it does so on all above (`TicksSame`), so
  that draining may stop there.  For `next_deadline`: two slots less than a round
  apart are the same only at the same distance (`ModWindow`), so that on every level
  but the last the first occupied slot holds the level's earliest timer
  (`ScanLevel`), and a bound that skips a level is earlier than all of it.
  The loops are recursive functions of the number of rounds.  That such a function
  exists, and that what each round preserves holds after the last, is proved by
  the least number where it would fail (`Steps`, `Recursion`), since the library's
  induction theorems cannot be used here.
- **Watch, Broadcast.**  `WatchUpdatesArrive`, `BroadcastUpdatesArrive`.  Both
  channels share `SInv`,
  which speaks of one receiver at a time (`RxOK`): the properties themselves, and
  two facts without which they are not inductive: a queued receiver has seen
  everything, and no cursor is ahead of the counter (or a send could make a
  receiver that has something to see look like one that has not).  One lemma for
  each operation of `Subscribers`; the operations of the two channels are
  instances of these.  `BroadcastReadyIsBuffered`: `RingOK` says which number each
  slot of the ring holds, so that the ring and the count move in lockstep at
  every capacity.
- **Oneshot.**  `OneshotIsAnswered`, from `ChanOK`: only an undecided channel has a
  queued receiver, and a Sender that has not been used has decided nothing.
- **BlockingPool, JoinHandle.**  `PoolServesJobs`, `PoolJoinAnswered`.  `JoinAnswered`
  is inductive with its types.  `PoolServed` is not: a thread that has found its
  queue empty and has not parked yet must count as asleep (`ThreadOK`), and a job
  that is spawned must be nowhere yet (`Books`).  Each queue is seen as a set
  without repetitions (`QueueSteps`), and each step moves one job from one place
  to the next.
- **MultiRuntime.**  `MultiShutdownHeard`, `MultiAnswered`, for every number of
  threads: `OwnerOK` says which Senders are used up and which threads are joined
  at each `turn` of `Drop`, `WorkerOK` that a Receiver lives as long as its
  worker; the steps of the oneshots and handles are covered by the lemmas of
  their own modules.

- **The parts side by side.**  The theorems above speak of each part's own
  specification; `PartsTypes`, `PartsAreSafe` and `PartsRefineMap` of the
  composition `MCParts` that TLC checks.  `PartsInv` holds the invariant of the part
  that moves and of those it shares with others: the JoinHandles move with the pool
  and with `MultiRuntime`, the oneshots alone and with `MultiRuntime`, and a pool
  that does not move has no jobs, whatever the handles say.

The types of each part are theorems of their own (`WatchTypeCorrect`,
`BroadcastTypeCorrect`, `PoolTypeCorrect`, `MultiTypeCorrect`,
`WheelTypeCorrect`).

Assumptions are those of the modules (`FuturesAssumption` and the like: finite
sets of futures, wakers distinct from the value for none, positive bounds) and
the two named above, a single waker for `GrantsKept` and `NotificationsNoticed`
and `ReadsOnly` for `Io`.

Only model-checked: all liveness (`ImplementsScheduler`'s promise, `MainIsPolled`,
`LockObtained`, `NotifiedCompletes`, `SleepCompletes`, `OperationsResume`,
the end of `ShutdownEnds`), which is out of the prover's reach.  Every invariant
and every safety refinement that a passing run checks is a theorem.

## Not modelled

- The slabs: sequential containers with their own Verus proofs, used here as sets
  and functions.  `cached_min` of the wheel, which starts as `None` and stays so.
- File system, address parsing and macros: no state of their own.
- Verus specifications, proofs and the liveness crate (ghost code, erased at
  compile time), the benchmarks with their vendored applications, mutation tests
  and tools.  They are most of the repository's lines and no part of the runtime.
- Interval and Timeout have no actions of their own: they are uses of a Sleep's
  creation, poll, reset and drop.
- Panics in user futures under `block_on` (the std mutexes are never poisoned in
  the model); panics in pool closures and in tasks of a `MultiRuntime` are
  modelled.  The raw task waker over `GLOBAL_CTX` (unused by the code).
- `try_io` used to write: it clears the readable flag whatever it tried, and
  `NoMissedReadiness` does not hold then.  Two operations of one direction at a
  time, combinators with wakers of their own around a socket future, socket
  errors other than `WouldBlock` and a refused connection, half-closed sockets.
- The value that `wait_for` returns after a send in the gap before its last lock:
  the gap is in the model, but no text of the repository says what it should be.
- Overflow of 64-bit counters other than the reactor's ids, and memory orderings
  weaker than the code's acquire/release pairs provide.

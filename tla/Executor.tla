------------------------------ MODULE Executor ------------------------------
(***************************************************************************)
(* lion-executor: one runtime thread (block_on, tick, next_task,           *)
(* poll_task, park), the thread-local wake queues of tls.rs, the           *)
(* cross-thread wake queue, the injection queue of spawn, and the          *)
(* interrupt handle by which other threads get the runtime thread out of   *)
(* mio's poll.                                                             *)
(*                                                                         *)
(* The runtime thread advances `pc`; a drain or a drop of queue entries is *)
(* a loop of one step per entry, so that the steps of the other threads    *)
(* (Helpers) interleave with it where the code allows them to.             *)
(***************************************************************************)
EXTENDS Integers, Sequences, FiniteSets

CONSTANTS
  MaxTasks,       \* bound: tasks spawned on one runtime
  EventInterval,  \* RuntimeConfig::event_interval
  Helpers,        \* other threads holding wakers or a spawn handle
  MaxCopies,      \* bound: entries of one id in all queues together, when it is woken
  MaxRuns         \* bound: runtimes created on this thread

ASSUME ConstantsAssumption ==
  /\ MaxTasks \in Nat
  /\ EventInterval \in Nat \ {0}
  /\ MaxCopies \in Nat
  /\ MaxRuns \in Nat

Ids    == 1 .. MaxTasks   \* TaskIds handed out by task_id_counter, from 1
Main   == 0               \* the block_on future: TaskId(u64::MAX) in the code
Nobody == -1              \* CURRENT_TASK = None
AllIds == Ids \cup {Main}

VARIABLES
  pc,             \* where the runtime thread is
  stage,          \* which part of tick() is under way
  count,          \* tasks polled in this tick
  cur,            \* CURRENT_TASK
  slab,           \* task_slab: tasks whose future is stored
  ledger,         \* TidLedger: ids ever popped from injection
  local,          \* local_queue
  reactor_ready,  \* REACTOR_READY_QUEUE
  task_ready,     \* TASK_READY_QUEUE
  deferred,       \* DEFER_QUEUE
  notified,       \* TASK_NOTIFIED: ids whose flag is set
  yielded,        \* BLOCK_ON_YIELDED
  cross,          \* CrossThreadQueue
  injection,      \* injection_queue
  next_id,        \* task_id_counter
  intr,           \* InterruptHandleShared::notified
  edge,           \* mio waker: an event that poll has not returned yet
  timeout,        \* park was called with the 100 ms timeout (else with 0)
  hpc, hid,       \* helper threads: where each is, the id it is sending
  runs,           \* runtimes created so far
  \* history variables
  started,        \* ids polled at least once on this runtime: their wakers exist
  stale,          \* ids with wakers left over from an earlier runtime
  done,           \* tasks whose future returned Ready
  owed,           \* ids woken since their last poll began
  main_yielded    \* the block_on future yielded in its last poll

tlsq   == <<reactor_ready, task_ready, deferred, notified, yielded>>
execv  == <<slab, ledger, local, done>>
shared == <<cross, injection, next_id, intr, edge>>
helpv  == <<hpc, hid>>
ghost  == <<started, stale, owed, main_yielded>>
vars == <<pc, stage, count, cur, tlsq, execv, shared, timeout, helpv, runs, ghost>>

Elems(s) == {s[i] : i \in 1 .. Len(s)}

PCs == {"user", "poll", "deferred", "pop", "next", "pick", "reset",
        "drainR", "drainX", "drainT", "park", "fire"}
Stages == {"begin", "loop1", "check", "park", "loop2"}

TypeOK ==
  /\ pc \in PCs /\ stage \in Stages /\ count \in 0 .. EventInterval
  /\ cur \in AllIds \cup {Nobody}
  /\ slab \subseteq Ids /\ ledger \subseteq Ids /\ done \subseteq Ids
  /\ local \in Seq(Ids) /\ injection \in Seq(Ids)
  /\ reactor_ready \in Seq(AllIds) /\ task_ready \in Seq(AllIds)
  /\ deferred \in Seq(AllIds) /\ cross \in Seq(AllIds)
  /\ notified \subseteq Ids
  /\ next_id \in 1 .. MaxTasks + 1
  /\ yielded \in BOOLEAN /\ intr \in BOOLEAN /\ edge \in BOOLEAN
  /\ timeout \in BOOLEAN /\ main_yielded \in BOOLEAN
  /\ hpc \in [Helpers -> {"idle", "send", "swap", "write"}]
  /\ hid \in [Helpers -> Ids \cup {Nobody}]
  /\ runs \in Nat
  /\ started \subseteq AllIds /\ stale \subseteq AllIds /\ owed \subseteq AllIds

(***************************************************************************)
(* A freshly built Runtime, before the first block_on.                     *)
(***************************************************************************)
Init ==
  /\ pc = "user" /\ stage = "begin" /\ count = 0 /\ cur = Nobody
  /\ slab = {} /\ ledger = {} /\ local = <<>> /\ done = {}
  /\ reactor_ready = <<>> /\ task_ready = <<>> /\ deferred = <<>>
  /\ notified = {} /\ yielded = FALSE
  /\ cross = <<>> /\ injection = <<>> /\ next_id = 1
  /\ intr = FALSE /\ edge = FALSE /\ timeout = FALSE
  /\ hpc = [h \in Helpers |-> "idle"] /\ hid = [h \in Helpers |-> Nobody]
  /\ runs = 1
  /\ started = {} /\ stale = {} /\ owed = {} /\ main_yielded = FALSE

(***************************************************************************)
(* tls.rs: set_notified / push_task_ready / push_reactor_ready.  The       *)
(* block_on id is never deduplicated.                                      *)
(***************************************************************************)
SetNotified(t) == notified' = IF t = Main THEN notified ELSE notified \cup {t}

\* Faulty variant: a wake of the task under poll is taken for redundant.
Pushed_SkipsRunning(q, t) ==
  IF t # cur /\ (t = Main \/ t \notin notified) THEN Append(q, t) ELSE q

Pushed(q, t) == IF t = Main \/ t \notin notified THEN Append(q, t) ELSE q

\* The code bounds no queue; the model wakes an id only while it has few entries.
Copies(q, t) == Cardinality({i \in 1 .. Len(q) : q[i] = t})
Room(t) ==
  Copies(local, t) + Copies(reactor_ready, t) + Copies(task_ready, t)
    + Copies(deferred, t) + Copies(cross, t) < MaxCopies

push_task_ready(t) ==
  /\ task_ready' = Pushed(task_ready, t)
  /\ SetNotified(t)

push_reactor_ready(t) ==
  /\ reactor_ready' = Pushed(reactor_ready, t)
  /\ SetNotified(t)

(***************************************************************************)
(* What user code does on the runtime thread: inside a poll, or between    *)
(* two block_on calls.                                                     *)
(***************************************************************************)
UserCode == pc \in {"user", "poll"}

\* ExecutorWaker::wake_impl on the executor's own thread.  The waker may be
\* one that outlived an earlier runtime of this thread.
WakeLocal(t) ==
  /\ UserCode /\ t \in started \cup stale /\ (t \in notified \/ Room(t))
  /\ push_task_ready(t)
  /\ owed' = IF t \in started THEN owed \cup {t} ELSE owed
  /\ UNCHANGED <<pc, stage, count, cur, reactor_ready, deferred, yielded, execv,
                 shared, timeout, helpv, runs, started, stale, main_yielded>>

\* defer_current: what yield_now does.
Yield ==
  /\ pc = "poll" /\ Room(cur)
  /\ deferred' = Append(deferred, cur)
  /\ yielded' = (yielded \/ cur = Main)
  /\ owed' = owed \cup {cur}
  /\ main_yielded' = (main_yielded \/ cur = Main)
  /\ UNCHANGED <<pc, stage, count, cur, reactor_ready, task_ready, notified, execv,
                 shared, timeout, helpv, runs, started, stale>>

\* InnerHandle::spawn on the runtime thread.
SpawnLocal ==
  /\ UserCode /\ next_id <= MaxTasks
  /\ next_id' = next_id + 1
  /\ injection' = Append(injection, next_id)
  /\ intr' = TRUE
  /\ edge' = (edge \/ ~intr)
  /\ UNCHANGED <<pc, stage, count, cur, tlsq, execv, cross, timeout, helpv, runs, ghost>>

(***************************************************************************)
(* block_on: poll the main future, then tick, until it is ready.           *)
(***************************************************************************)
PollMain ==
  /\ pc' = "poll" /\ cur' = Main
  /\ started' = started \cup {Main}
  /\ owed' = owed \ {Main}
  /\ main_yielded' = FALSE

BlockOn ==
  /\ pc = "user"
  /\ PollMain
  /\ UNCHANGED <<stage, count, tlsq, execv, shared, timeout, helpv, runs, stale>>

MainReady ==
  /\ pc = "poll" /\ cur = Main
  /\ pc' = "user" /\ cur' = Nobody
  /\ UNCHANGED <<stage, count, tlsq, execv, shared, timeout, helpv, runs, ghost>>

MainPending ==
  /\ pc = "poll" /\ cur = Main
  /\ pc' = "deferred" /\ stage' = "begin" /\ cur' = Nobody
  /\ UNCHANGED <<count, tlsq, execv, shared, timeout, helpv, runs, ghost>>

(***************************************************************************)
(* tick: wake_deferred, then pop_injection.                                *)
(***************************************************************************)
\* filter_and_enqueue, one id: only ledger-known ids enter the local queue.
Enqueue(t) == local' = IF t \in ledger THEN Append(local, t) ELSE local

WakeDeferred ==
  /\ pc = "deferred"
  /\ IF deferred # <<>>
       THEN /\ Enqueue(Head(deferred))
            /\ deferred' = Tail(deferred)
            /\ UNCHANGED pc
       ELSE pc' = "pop" /\ UNCHANGED <<local, deferred>>
  /\ UNCHANGED <<stage, count, cur, reactor_ready, task_ready, notified, yielded, slab,
                 ledger, done, shared, timeout, helpv, runs, ghost>>

EnterLoop(s) == pc' = "next" /\ stage' = s

\* pop_injection_action: the queue has a task, and its id is not a duplicate.
InjectionFresh == injection # <<>> /\ Head(injection) \notin ledger

\* Faulty variant: a popped task is stored but not enqueued.
PopInjection_NotEnqueued ==
  /\ pc = "pop"
  /\ IF InjectionFresh
       THEN /\ ledger' = ledger \cup {Head(injection)}
            /\ slab' = slab \cup {Head(injection)}
            /\ UNCHANGED <<pc, stage, count>>
       ELSE /\ EnterLoop("loop1") /\ count' = 0
            /\ UNCHANGED <<ledger, slab>>
  /\ injection' = IF injection # <<>> THEN Tail(injection) ELSE injection
  /\ UNCHANGED <<cur, tlsq, local, done, cross, next_id, intr, edge, timeout, helpv, runs, ghost>>

\* One turn of pop_injection's loop.  A duplicate id would be dropped by
\* pop_injection_action and end the loop as an empty pop does.
PopInjection ==
  /\ pc = "pop"
  /\ IF InjectionFresh
       THEN LET t == Head(injection) IN
            /\ ledger' = ledger \cup {t}
            /\ slab' = slab \cup {t}
            /\ local' = Append(local, t)
            /\ UNCHANGED <<pc, stage, count>>
       ELSE /\ EnterLoop("loop1") /\ count' = 0
            /\ UNCHANGED <<ledger, slab, local>>
  /\ injection' = IF injection # <<>> THEN Tail(injection) ELSE injection
  /\ UNCHANGED <<cur, tlsq, done, cross, next_id, intr, edge, timeout, helpv, runs, ghost>>

(***************************************************************************)
(* poll_task(t), with the id removed from the local queue: the notified    *)
(* flag is cleared before the future runs.  An id with no stored future is *)
(* a no-op that still counts.                                              *)
(***************************************************************************)
\* Faulty variant: the flag stays raised once its entry is consumed.
clear_notified_omitted(t) == UNCHANGED notified

clear_notified(t) == notified' = notified \ {t}

PollTask(t, stored) ==
  /\ clear_notified(t)
  /\ IF t \in stored
       THEN /\ pc' = "poll" /\ cur' = t
            /\ slab' = stored \ {t}
            /\ started' = started \cup {t}
            /\ owed' = owed \ {t}
            /\ UNCHANGED count
       ELSE /\ pc' = "next" /\ count' = count + 1
            /\ slab' = stored
            /\ UNCHANGED <<cur, started, owed>>

\* Faulty variant: tick after tick, without going back to block_on's loop.
LeaveLoop_SkipsMain ==
  /\ IF stage = "loop1" THEN pc' = "reset" /\ stage' = "check"
                        ELSE pc' = "deferred" /\ stage' = "begin"
  /\ UNCHANGED <<cur, started, owed, main_yielded>>

\* The end of a poll_loop: park after the first, the main future after the
\* second.
LeaveLoop ==
  IF stage = "loop1"
    THEN /\ pc' = "reset" /\ stage' = "check"
         /\ UNCHANGED <<cur, started, owed, main_yielded>>
    ELSE PollMain /\ stage' = "begin"

\* poll_loop: the budget of the tick is used up.
LoopFull ==
  /\ pc = "next" /\ count >= EventInterval
  /\ LeaveLoop
  /\ UNCHANGED <<count, tlsq, execv, shared, timeout, helpv, runs, stale>>

\* Faulty variant: one poll over the budget.
NextLocal_OverBudget ==
  /\ pc = "next" /\ count <= EventInterval /\ local # <<>>
  /\ PollTask(Head(local), slab)
  /\ local' = Tail(local)
  /\ UNCHANGED <<stage, reactor_ready, task_ready, deferred, yielded, ledger, done,
                 shared, timeout, helpv, runs, stale, main_yielded>>

\* next_task, path 1: pop the local queue.
NextLocal ==
  /\ pc = "next" /\ count < EventInterval /\ local # <<>>
  /\ PollTask(Head(local), slab)
  /\ local' = Tail(local)
  /\ UNCHANGED <<stage, reactor_ready, task_ready, deferred, yielded, ledger, done,
                 shared, timeout, helpv, runs, stale, main_yielded>>

\* next_task: the local queue is empty, so drain the wake queues into it.
NextDrain ==
  /\ pc = "next" /\ count < EventInterval /\ local = <<>>
  /\ pc' = "drainR"
  /\ UNCHANGED <<stage, count, cur, tlsq, execv, shared, timeout, helpv, runs, ghost>>

\* next_task, path 2: pop after the drains.
PickDrained ==
  /\ pc = "pick" /\ local # <<>>
  /\ PollTask(Head(local), slab)
  /\ local' = Tail(local)
  /\ UNCHANGED <<stage, reactor_ready, task_ready, deferred, yielded, ledger, done,
                 shared, timeout, helpv, runs, stale, main_yielded>>

\* next_task, path 3: one pop of the injection queue, polled at once.
PickInjected ==
  /\ pc = "pick" /\ local = <<>> /\ InjectionFresh
  /\ ledger' = ledger \cup {Head(injection)}
  /\ PollTask(Head(injection), slab \cup {Head(injection)})
  /\ injection' = Tail(injection)
  /\ UNCHANGED <<stage, reactor_ready, task_ready, deferred, yielded, local, done,
                 cross, next_id, intr, edge, timeout, helpv, runs, stale, main_yielded>>

\* next_task returns None: the poll_loop ends.
PickNone ==
  /\ pc = "pick" /\ local = <<>>
  /\ ~InjectionFresh
  /\ LeaveLoop
  /\ injection' = IF injection # <<>> THEN Tail(injection) ELSE injection
  /\ UNCHANGED <<count, tlsq, execv, cross, next_id, intr, edge, timeout, helpv, runs, stale>>

\* The future of a task returned Ready: it is dropped.
TaskReady ==
  /\ pc = "poll" /\ cur \in Ids
  /\ done' = done \cup {cur}
  /\ pc' = "next" /\ cur' = Nobody /\ count' = count + 1
  /\ UNCHANGED <<stage, tlsq, slab, ledger, local, shared, timeout, helpv, runs, ghost>>

\* Faulty variant: a pending future is not put back.
TaskPending_Dropped ==
  /\ pc = "poll" /\ cur \in Ids
  /\ pc' = "next" /\ cur' = Nobody /\ count' = count + 1
  /\ UNCHANGED <<stage, tlsq, execv, shared, timeout, helpv, runs, ghost>>

\* It returned Pending: it goes back into the slab.
TaskPending ==
  /\ pc = "poll" /\ cur \in Ids
  /\ slab' = slab \cup {cur}
  /\ pc' = "next" /\ cur' = Nobody /\ count' = count + 1
  /\ UNCHANGED <<stage, tlsq, ledger, local, done, shared, timeout, helpv, runs, ghost>>

(***************************************************************************)
(* The drains of next_task and park, one id per step: REACTOR_READY_QUEUE, *)
(* then the cross-thread queue into TASK_READY_QUEUE, then that queue.     *)
(* park first runs the middle one alone (stage "check").                   *)
(***************************************************************************)
DrainReactor ==
  /\ pc = "drainR"
  /\ IF reactor_ready # <<>>
       THEN /\ Enqueue(Head(reactor_ready))
            /\ reactor_ready' = Tail(reactor_ready)
            /\ UNCHANGED pc
       ELSE pc' = "drainX" /\ UNCHANGED <<local, reactor_ready>>
  /\ UNCHANGED <<stage, count, cur, task_ready, deferred, notified, yielded, slab, ledger,
                 done, shared, timeout, helpv, runs, ghost>>

\* drain_cross_thread: try_recv until empty, each id through push_task_ready.
DrainCrossThread ==
  /\ pc = "drainX" /\ cross # <<>>
  /\ push_task_ready(Head(cross))
  /\ cross' = Tail(cross)
  /\ UNCHANGED <<pc, stage, count, cur, reactor_ready, deferred, yielded, execv,
                 injection, next_id, intr, edge, timeout, helpv, runs, ghost>>

CrossDrained ==
  /\ pc = "drainX" /\ cross = <<>> /\ stage # "check"
  /\ pc' = "drainT"
  /\ UNCHANGED <<stage, count, cur, tlsq, execv, shared, timeout, helpv, runs, ghost>>

DrainTaskReady ==
  /\ pc = "drainT"
  /\ IF task_ready # <<>>
       THEN /\ Enqueue(Head(task_ready))
            /\ task_ready' = Tail(task_ready)
            /\ UNCHANGED <<pc, stage>>
       ELSE /\ IF stage = "park" THEN EnterLoop("loop2") ELSE pc' = "pick" /\ UNCHANGED stage
            /\ UNCHANGED <<local, task_ready>>
  /\ UNCHANGED <<count, cur, reactor_ready, deferred, notified, yielded, slab, ledger,
                 done, shared, timeout, helpv, runs, ghost>>

(***************************************************************************)
(* park.                                                                   *)
(***************************************************************************)
\* Faulty variant: the interrupt flag is never lowered.
ResetInterrupt_Omitted ==
  /\ pc = "reset"
  /\ pc' = "drainX"
  /\ UNCHANGED <<stage, count, cur, tlsq, execv, shared, timeout, helpv, runs, ghost>>

\* reset_interrupt, before the cross-thread queue is drained.
ResetInterrupt ==
  /\ pc = "reset"
  /\ intr' = FALSE
  /\ pc' = "drainX"
  /\ UNCHANGED <<stage, count, cur, tlsq, execv, cross, injection, next_id, edge, timeout,
                 helpv, runs, ghost>>

\* Faulty variant: as before BLOCK_ON_YIELDED was introduced.
RequireTimeout_IgnoresYield ==
  deferred = <<>> /\ reactor_ready = <<>> /\ task_ready = <<>> /\ local = <<>>

\* Nothing to do: sleep up to 100 ms, else only look at the events.
RequireTimeout ==
  /\ ~yielded
  /\ deferred = <<>> /\ reactor_ready = <<>> /\ task_ready = <<>> /\ local = <<>>

\* Decide the timeout and enter the reactor.
ParkEnter ==
  /\ pc = "drainX" /\ stage = "check" /\ cross = <<>>
  /\ timeout' = RequireTimeout
  /\ yielded' = FALSE
  /\ pc' = "park"
  /\ UNCHANGED <<stage, count, cur, reactor_ready, task_ready, deferred, notified, execv,
                 shared, helpv, runs, ghost>>

\* mio's poll returns: an event, or the timeout.  It reports the waker's event once.
ParkReturn ==
  /\ pc = "park"
  /\ edge' = FALSE
  /\ timeout' = FALSE
  /\ pc' = "fire" /\ stage' = "park"
  /\ UNCHANGED <<count, cur, tlsq, execv, cross, injection, next_id, intr, helpv, runs, ghost>>

\* Reactor::park wakes a ready I/O resource, for which sockets register a waker of
\* create_reactor_waker_for_current.
ReactorWake(t) ==
  /\ pc = "fire" /\ t \in started /\ (t \in notified \/ Room(t))
  /\ push_reactor_ready(t)
  /\ owed' = owed \cup {t}
  /\ UNCHANGED <<pc, stage, count, cur, task_ready, deferred, yielded, execv, shared,
                 timeout, helpv, runs, started, stale, main_yielded>>

\* Reactor::park wakes an expired timer, for which Sleep registers the waker it is
\* polled with: wake_impl on the executor's own thread.
TimerWake(t) ==
  /\ pc = "fire" /\ t \in started /\ (t \in notified \/ Room(t))
  /\ push_task_ready(t)
  /\ owed' = owed \cup {t}
  /\ UNCHANGED <<pc, stage, count, cur, reactor_ready, deferred, yielded, execv, shared,
                 timeout, helpv, runs, started, stale, main_yielded>>

ParkDrain ==
  /\ pc = "fire"
  /\ pc' = "drainR"
  /\ UNCHANGED <<stage, count, cur, tlsq, execv, shared, timeout, helpv, runs, ghost>>

(***************************************************************************)
(* Other threads.                                                          *)
(***************************************************************************)
\* ExecutorWaker::wake_impl on a foreign thread: push, then interrupt.
WakeRemote(h, t) ==
  /\ hpc[h] = "idle" /\ t \in started /\ Room(t)
  /\ cross' = Append(cross, t)
  /\ hpc' = [hpc EXCEPT ![h] = "swap"]
  /\ owed' = owed \cup {t}
  /\ UNCHANGED <<pc, stage, count, cur, tlsq, execv, injection, next_id, intr, edge,
                 timeout, hid, runs, started, stale, main_yielded>>

\* InnerHandle::spawn on a foreign thread: take an id ...
SpawnAlloc(h) ==
  /\ hpc[h] = "idle" /\ next_id <= MaxTasks
  /\ next_id' = next_id + 1
  /\ hid' = [hid EXCEPT ![h] = next_id]
  /\ hpc' = [hpc EXCEPT ![h] = "send"]
  /\ UNCHANGED <<pc, stage, count, cur, tlsq, execv, cross, injection, intr, edge,
                 timeout, runs, ghost>>

\* ... and send the task, then interrupt.
SpawnSend(h) ==
  /\ hpc[h] = "send"
  /\ injection' = Append(injection, hid[h])
  /\ hid' = [hid EXCEPT ![h] = Nobody]
  /\ hpc' = [hpc EXCEPT ![h] = "swap"]
  /\ UNCHANGED <<pc, stage, count, cur, tlsq, execv, cross, next_id, intr, edge,
                 timeout, runs, ghost>>

\* InterruptHandleInner::wake: swap the flag; only the thread that finds it
\* clear writes to mio's waker.
InterruptSwap(h) ==
  /\ hpc[h] = "swap"
  /\ intr' = TRUE
  /\ hpc' = [hpc EXCEPT ![h] = IF intr THEN "idle" ELSE "write"]
  /\ UNCHANGED <<pc, stage, count, cur, tlsq, execv, cross, injection, next_id, edge,
                 timeout, hid, runs, ghost>>

InterruptWrite(h) ==
  /\ hpc[h] = "write"
  /\ edge' = TRUE
  /\ hpc' = [hpc EXCEPT ![h] = "idle"]
  /\ UNCHANGED <<pc, stage, count, cur, tlsq, execv, cross, injection, next_id, intr,
                 timeout, hid, runs, ghost>>

(***************************************************************************)
(* Drop the Runtime and build another one on the same thread.  Executor,   *)
(* queues to it and interrupt handle are new; the thread-local queues and  *)
(* notified flags are those the old runtime left.  A foreign thread in the *)
(* middle of a call finishes it on the old runtime's queue and interrupt.  *)
(***************************************************************************)
NewRuntime ==
  /\ pc = "user" /\ runs < MaxRuns
  /\ runs' = runs + 1
  /\ stale' = stale \cup started
  /\ slab' = {} /\ ledger' = {} /\ local' = <<>> /\ done' = {}
  /\ cross' = <<>> /\ injection' = <<>> /\ next_id' = 1
  /\ intr' = FALSE /\ edge' = FALSE
  /\ hpc' = [h \in Helpers |-> "idle"] /\ hid' = [h \in Helpers |-> Nobody]
  /\ started' = {} /\ owed' = {} /\ main_yielded' = FALSE
  /\ UNCHANGED <<pc, stage, count, cur, tlsq, timeout>>

(***************************************************************************)
(* Specification.                                                          *)
(***************************************************************************)
UserStep == (\E t \in AllIds : WakeLocal(t)) \/ Yield \/ SpawnLocal \/ BlockOn \/ NewRuntime

\* The runtime thread inside block_on: always enabled there.
PollEnd == MainReady \/ MainPending \/ TaskReady \/ TaskPending
RuntimeStep ==
  \/ WakeDeferred \/ PopInjection
  \/ LoopFull \/ NextLocal \/ NextDrain \/ PickDrained \/ PickInjected \/ PickNone
  \/ DrainReactor \/ DrainCrossThread \/ CrossDrained \/ DrainTaskReady
  \/ ResetInterrupt \/ ParkEnter \/ ParkReturn \/ ParkDrain
ReactorStep == \E t \in AllIds : ReactorWake(t) \/ TimerWake(t)
HelperCall(h) == SpawnSend(h) \/ InterruptSwap(h) \/ InterruptWrite(h)
HelperStep(h) == (\E t \in AllIds : WakeRemote(h, t)) \/ SpawnAlloc(h) \/ HelperCall(h)

Next == UserStep \/ PollEnd \/ RuntimeStep \/ ReactorStep \/ \E h \in Helpers : HelperStep(h)

Spec == Init /\ [][Next]_vars

\* A poll returns, the runtime thread is scheduled, mio's poll returns after
\* its timeout at the latest, and a thread inside wake or spawn finishes it.
Fairness ==
  /\ WF_vars(PollEnd)
  /\ WF_vars(RuntimeStep)
  /\ \A h \in Helpers : WF_vars(HelperCall(h))

FairSpec == Spec /\ Fairness

(***************************************************************************)
(* Where the runtime thread can be in tick().                              *)
(***************************************************************************)
Loops == {"loop1", "loop2"}
Drains == {"drainR", "drainX", "drainT"}

\* A task is current exactly during a poll, each pc belongs to its part of
\* tick, a poll is started only within the budget of event_interval, and a
\* sending thread has its id.
Control ==
  /\ pc = "poll" <=> cur # Nobody
  /\ cur \in Ids => stage \in Loops
  /\ pc \in {"next", "pick"} => stage \in Loops
  /\ pc \in {"drainR", "drainT"} => stage \in Loops \cup {"park"}
  /\ pc = "drainX" => stage \in Loops \cup {"park", "check"}
  /\ pc \in {"reset", "park"} => stage = "check"
  /\ pc = "fire" => stage = "park"
  /\ pc = "pick" \/ cur \in Ids \/ (pc \in Drains /\ stage \in Loops) => count < EventInterval
  /\ \A h \in Helpers : hpc[h] = "send" => hid[h] \in Ids

(***************************************************************************)
(* Properties.                                                             *)
(***************************************************************************)
\* Tasks whose future exists: stored in the slab or being polled.
Live == slab \cup ({cur} \cap Ids)

\* A raised TASK_NOTIFIED flag suppresses further pushes of the id
\* (set_notified returns false), so for a live task it must mean that an
\* entry is still on its way to poll_task: in a ready queue or in local_queue.
NotifiedQueued ==
  \A t \in Live : t \in notified =>
     t \in Elems(local) \cup Elems(reactor_ready) \cup Elems(task_ready)

\* No wake of a live task is lost: from the call of wake (or yield_now) until
\* its next poll begins, the task is in a queue that a later drain empties
\* into local_queue -- whatever queue, whichever thread, and also when the
\* wake comes during the task's own poll or meets a flag that an earlier
\* runtime of the thread left raised.
NoLostWake ==
  \A t \in Live \cap owed :
     t \in Elems(local) \cup Elems(reactor_ready) \cup Elems(task_ready)
            \cup Elems(deferred) \cup Elems(cross)

\* Ids taken by a spawn that has not sent its task yet.
Sending == {hid[h] : h \in {g \in Helpers : hpc[g] = "send"}}

\* Every spawned task is in exactly one place: with a spawning thread, once in
\* the injection queue, in the slab, under poll, or finished; and the ledger
\* knows it exactly from its pop on (pop_injection_action calls its duplicate
\* branch dead: an id in the injection queue is never in the ledger).
OnePlace ==
  /\ 1 .. next_id - 1 = Sending \cup Elems(injection) \cup Live \cup done
  /\ ledger = Live \cup done
  /\ slab \cap {cur} = {} /\ Live \cap done = {}
  /\ (Sending \cup Elems(injection)) \cap ledger = {}
  /\ Sending \cap Elems(injection) = {}
  /\ \A i, j \in 1 .. Len(injection) : injection[i] = injection[j] => i = j
  /\ \A g, h \in Helpers : hpc[g] = "send" /\ hpc[h] = "send" /\ hid[g] = hid[h] => g = h

\* The runtime thread is inside mio's poll and nothing is about to end it
\* before the 100 ms are over.
Asleep == /\ pc = "park" /\ timeout /\ ~edge
          /\ \A h \in Helpers : hpc[h] \notin {"swap", "write"}

\* park never sleeps on a woken task: not when the wake came from another
\* thread between the reset of the interrupt flag, the drain of the
\* cross-thread queue and the poll, nor when its interrupt was swallowed
\* because the flag was already raised.
NoSleepOnWokenTask == Asleep => slab \cap owed = {}

\* Why: from the reset of the interrupt flag to mio's poll, a raised flag and a
\* non-empty cross-thread queue both stand for a thread that is about to write
\* to mio's waker, or for a write that the poll will see.
WakeSignalled ==
  /\ pc = "park" /\ timeout =>
       /\ local = <<>> /\ reactor_ready = <<>> /\ task_ready = <<>> /\ deferred = <<>>
  /\ (pc = "park" \/ (pc = "drainX" /\ stage = "check")) /\ intr =>
       edge \/ \E h \in Helpers : hpc[h] = "write"
  /\ pc = "park" /\ cross # <<>> => edge \/ \E h \in Helpers : hpc[h] \in {"swap", "write"}

\* HANG_FIXING_STORY, story 2: when the block_on future yields, the next park
\* polls the reactor without waiting.
YieldSkipsTimeout == pc = "park" /\ main_yielded => ~timeout

\* The queues, flags and threads above implement the abstract Scheduler: its
\* wake bit is raised by every call of a waker and cleared by nothing but a
\* poll, and every due task is polled while block_on runs -- through spawns
\* and wakes of other threads, the per-tick budget of event_interval polls, and
\* interrupts that were swallowed.
TaskStatus ==
  [t \in Ids |-> CASE t \in done -> "done"
                    [] t = cur -> "running"
                    [] t \in slab \cap started -> "idle"
                    [] t \in (slab \ started) \cup Elems(injection) -> "new"
                    [] OTHER -> "none"]

Sched == INSTANCE Scheduler WITH
           Task <- Ids, status <- TaskStatus, woken <- Live \cap owed, active <- pc # "user"

ImplementsScheduler == Sched!SSpec

\* The block_on future is polled again and again until it is ready.
MainIsPolled == (pc = "deferred") ~> (cur = Main)

=============================================================================

------------------------------- MODULE Timers -------------------------------
(***************************************************************************)
(* The timers of lion-reactor (handle.rs, reactor/timer.rs, the timer part *)
(* of reactor/park.rs) and the Sleep future of lion-utility on top.        *)
(*                                                                         *)
(* One runtime thread: it runs tasks (phase "run"), which create, poll,    *)
(* reset and drop Sleeps, or is inside mio's poll (phase "park").  The     *)
(* timer wheel is the map from id to deadline that it implements.          *)
(***************************************************************************)
EXTENDS Integers, FiniteSetsExt

CONSTANTS
  Sleeps,        \* Sleep objects a program uses
  Wakers,        \* wakers that Sleeps are polled with (one per task)
  ParkTimeout,   \* the executor's park timeout (100 ms in the code)
  MaxTime,       \* bound: the clock
  MaxRid,        \* u64::MAX of next_resource_id
  MaxRuns        \* bound: runtimes created on this thread

ASSUME TimersAssumption ==
  /\ ParkTimeout \in Nat /\ MaxTime \in Nat /\ MaxRuns \in Nat
  /\ MaxRid \in Nat \ {0}

None == 0            \* no resource id, no deadline: both start at 1
NoWaker == "none"
ASSUME TimerWakersAssumption == NoWaker \notin Wakers

Time == 0..MaxTime
Rids == 1..MaxRid
NoPending == [rid |-> None, deadline |-> None]

VARIABLES
  clock,      \* Instant::now()
  cached,     \* CACHED_NOW; NotCached before the first park of the thread
  reactor,    \* the current runtime's Reactor
  deadline, rid, \* SleepKernel
  st,         \* how far each Sleep is
  phase,      \* "run" or "park"
  now,        \* `now` of the park (0 outside)
  until,      \* when its poll times out (0 outside)
  runs,       \* runtimes created so far
  \* history variables
  ctx,        \* waker of a suspended Sleep's latest poll
  woken,      \* suspended Sleeps whose latest waker their timer has called
  carried     \* a Sleep has carried the id of a timer into another runtime

sleepv == <<deadline, rid, st, ctx>>
parkv == <<phase, now, until>>
runv == <<runs, carried>>
vars == <<clock, cached, reactor, sleepv, parkv, runv, woken>>

NotCached == -1

\* idle: not suspended in this runtime, because it is new, was reset, or was
\* last polled in an earlier runtime.
SleepStates == {"gone", "idle", "pending", "done", "failed"}

Reactors == [wheel : [Rids -> Time], slot : [Rids -> Wakers \cup {NoWaker}],
             elapsed : Time, next : Rids,
             pending : [rid : Rids \cup {None}, deadline : Time]]

TypeOK ==
  /\ clock \in Time /\ cached \in Time \cup {NotCached}
  /\ reactor \in Reactors
  /\ deadline \in [Sleeps -> Time] /\ rid \in [Sleeps -> Rids \cup {None}]
  /\ st \in [Sleeps -> SleepStates]
  /\ ctx \in [Sleeps -> Wakers \cup {NoWaker}]
  /\ phase \in {"run", "park"} /\ now \in Time /\ until \in Nat
  /\ runs \in Nat /\ woken \subseteq Sleeps /\ carried \in BOOLEAN

(***************************************************************************)
(* The reactor's operations, as functions of its state.                    *)
(***************************************************************************)
\* Reactor::new.
NewReactor == [wheel |-> [i \in Rids |-> None], slot |-> [i \in Rids |-> NoWaker],
               elapsed |-> 0, next |-> 1, pending |-> NoPending]

\* wheel.remove and v_remove_timer_slot.
RemoveTimer(r, i) == [r EXCEPT !.wheel[i] = None, !.slot[i] = NoWaker]

\* Faulty variant: a put-off deregistration is forgotten.
flush_pending_deregister_forgets(r) == [r EXCEPT !.pending = NoPending]

\* A deregistration that was put off is carried out.
flush_pending_deregister(r) ==
  IF r.pending = NoPending THEN r
  ELSE [RemoveTimer(r, r.pending.rid) EXCEPT !.pending = NoPending]

\* ReactorHandle::deregister_timer: an armed timer is only noted, in case the
\* next registration asks for the same deadline.
deregister_timer(r, i) ==
  LET f == flush_pending_deregister(r) IN
  IF f.wheel[i] # None
    THEN [f EXCEPT !.pending = [rid |-> i, deadline |-> f.wheel[i]]]
    ELSE RemoveTimer(f, i)

\* Faulty variant: the last id is handed out and the counter overflows.
Exhausted_TooLate(r) == r.next > MaxRid

\* alloc_resource_id fails.
Exhausted(r) == r.next >= MaxRid

\* ReactorHandle::register_timer can reuse the timer noted.
Reusable(r, d) ==
  r.pending # NoPending /\ r.pending.deadline = d /\ r.slot[r.pending.rid] # NoWaker

\* The id that register_timer returns, None for an error.
registered_rid(r, d) ==
  IF Reusable(r, d) THEN r.pending.rid
  ELSE IF Exhausted(r) THEN None ELSE r.next

\* Faulty variant: the reused timer keeps its old waker.
register_timer_old_waker(r, d, w) ==
  IF Reusable(r, d) THEN [r EXCEPT !.pending = NoPending]
  ELSE LET f == flush_pending_deregister(r) IN
       IF Exhausted(f) THEN f
       ELSE [f EXCEPT !.wheel[f.next] = d, !.slot[f.next] = w, !.next = f.next + 1]

\* What register_timer leaves behind.
register_timer(r, d, w) ==
  IF Reusable(r, d)
    THEN [r EXCEPT !.pending = NoPending, !.slot[r.pending.rid] = w]
  ELSE LET f == flush_pending_deregister(r) IN
       IF Exhausted(f) THEN f
       ELSE [f EXCEPT !.wheel[f.next] = d, !.slot[f.next] = w, !.next = f.next + 1]

(***************************************************************************)
(* Sleep.                                                                  *)
(***************************************************************************)
Init ==
  /\ clock = 0 /\ cached = NotCached
  /\ reactor = NewReactor
  /\ deadline = [s \in Sleeps |-> 0] /\ rid = [s \in Sleeps |-> None]
  /\ st = [s \in Sleeps |-> "gone"] /\ ctx = [s \in Sleeps |-> NoWaker]
  /\ phase = "run" /\ now = 0 /\ until = 0
  /\ runs = 1 /\ carried = FALSE /\ woken = {}

\* Sleep::until, and for_duration with a deadline from the current clock on.
new(s, d) ==
  /\ phase = "run" /\ st[s] = "gone"
  /\ st' = [st EXCEPT ![s] = "idle"]
  /\ deadline' = [deadline EXCEPT ![s] = d]
  /\ UNCHANGED <<clock, cached, reactor, rid, ctx, parkv, runv, woken>>

\* The reactor once the timer that s holds is deregistered.
Released(s) == IF rid[s] = None THEN reactor ELSE deregister_timer(reactor, rid[s])

\* ReactorHandle::cached_now, or else the clock.
PollNow == IF cached = NotCached THEN clock ELSE cached

Due(s) == PollNow >= deadline[s]

\* The deadline has passed: Ready, and the timer is not deregistered.
PollReady(s) ==
  /\ phase = "run" /\ st[s] \in {"idle", "pending"}
  /\ Due(s)
  /\ st' = [st EXCEPT ![s] = "done"]
  /\ rid' = [rid EXCEPT ![s] = None]
  /\ ctx' = [ctx EXCEPT ![s] = NoWaker]
  /\ woken' = woken \ {s}
  /\ UNCHANGED <<clock, cached, reactor, deadline, parkv, runv>>

\* It has not: the timer is registered anew.  Pending, or a panic when the
\* reactor has no id left.
PollRegister(s, w) ==
  /\ phase = "run" /\ st[s] \in {"idle", "pending"}
  /\ ~Due(s)
  /\ reactor' = register_timer(Released(s), deadline[s], w)
  /\ rid' = [rid EXCEPT ![s] = registered_rid(Released(s), deadline[s])]
  /\ st' = [st EXCEPT ![s] = IF rid'[s] # None THEN "pending" ELSE "failed"]
  /\ ctx' = [ctx EXCEPT ![s] = w]
  /\ woken' = woken \ {s}
  /\ UNCHANGED <<clock, cached, deadline, parkv, runv>>

\* Interval re-arms its Sleep this way too, with a fresh one.
reset(s, d) ==
  /\ phase = "run" /\ st[s] \in {"idle", "pending", "done"}
  /\ reactor' = Released(s)
  /\ st' = [st EXCEPT ![s] = "idle"]
  /\ deadline' = [deadline EXCEPT ![s] = d]
  /\ rid' = [rid EXCEPT ![s] = None]
  /\ ctx' = [ctx EXCEPT ![s] = NoWaker]
  /\ woken' = woken \ {s}
  /\ UNCHANGED <<clock, cached, parkv, runv>>

drop(s) ==
  /\ phase = "run" /\ st[s] # "gone"
  /\ reactor' = Released(s)
  /\ st' = [st EXCEPT ![s] = "gone"]
  /\ deadline' = [deadline EXCEPT ![s] = 0] /\ rid' = [rid EXCEPT ![s] = None]
  /\ ctx' = [ctx EXCEPT ![s] = NoWaker]
  /\ woken' = woken \ {s}
  /\ UNCHANGED <<clock, cached, parkv, runv>>

(***************************************************************************)
(* Park.  The executor flushes the noted deregistration; the clock is read *)
(* once, before mio's poll, and the timers due at that reading are woken   *)
(* after it, whether the poll succeeded or failed.                         *)
(***************************************************************************)
Deadlines(r) == {r.wheel[i] : i \in {j \in Rids : r.wheel[j] # None}}

\* Faulty variant: the sleep is not cut short for the next deadline.
effective_until_no_deadline(r, t, timeout) == t + timeout

\* When the poll times out, for a park with `timeout` that begins at time t.
effective_until(r, t, timeout) ==
  Min({t + timeout} \cup {Max({t, d}) : d \in Deadlines(r)})

\* Instant::now, clamped to what the wheel has seen.
get_current_time(r) == Max({clock, r.elapsed})

\* Faulty variant: the time at which the poll is to end is published.
park_publishes_end(timeout) ==
  LET r == flush_pending_deregister(reactor) IN
  /\ phase = "run"
  /\ reactor' = r
  /\ now' = get_current_time(r)
  /\ until' = effective_until(r, now', timeout)
  /\ cached' = IF until' > MaxTime THEN MaxTime ELSE until'
  /\ phase' = "park"
  /\ UNCHANGED <<clock, sleepv, runv, woken>>

\* The executor asks for no timeout when a task is ready.
park(timeout) ==
  LET r == flush_pending_deregister(reactor) IN
  /\ phase = "run"
  /\ reactor' = r
  /\ now' = get_current_time(r)
  /\ cached' = now'
  /\ until' = effective_until(r, now', timeout)
  /\ phase' = "park"
  /\ UNCHANGED <<clock, sleepv, runv, woken>>

Expired == {i \in Rids : reactor.wheel[i] # None /\ reactor.wheel[i] <= now}

\* Suspended Sleeps whose own timer expires with the waker of their latest poll.
Fired == {s \in Sleeps : st[s] = "pending" /\ rid[s] \in Expired /\ reactor.slot[rid[s]] = ctx[s]}

\* Faulty variant: expired timers are removed, their wakers not called.
wake_expired_timers_silent ==
  /\ phase = "park"
  /\ reactor' = [reactor EXCEPT
       !.wheel = [i \in Rids |-> IF i \in Expired THEN None ELSE @[i]],
       !.slot = [i \in Rids |-> IF i \in Expired THEN NoWaker ELSE @[i]],
       !.elapsed = now]
  /\ phase' = "run" /\ now' = 0 /\ until' = 0
  /\ UNCHANGED <<clock, cached, sleepv, runv, woken>>

\* The poll returns: timed out, interrupted, with events or with an error.
wake_expired_timers ==
  /\ phase = "park"
  /\ reactor' = [reactor EXCEPT
       !.wheel = [i \in Rids |-> IF i \in Expired THEN None ELSE @[i]],
       !.slot = [i \in Rids |-> IF i \in Expired THEN NoWaker ELSE @[i]],
       !.elapsed = now]
  /\ woken' = woken \cup Fired
  /\ phase' = "run" /\ now' = 0 /\ until' = 0
  /\ UNCHANGED <<clock, cached, sleepv, runv>>

\* Time passes, in the poll too, which may return late.
Tick ==
  /\ clock < MaxTime
  /\ clock' = clock + 1
  /\ UNCHANGED <<cached, reactor, sleepv, parkv, runv, woken>>

\* The runtime is dropped and another one built.  CACHED_NOW is a thread-local,
\* and Sleeps that no task of the old runtime owned live on.
NewRuntime ==
  /\ phase = "run" /\ runs < MaxRuns
  /\ runs' = runs + 1
  /\ carried' = (carried \/ \E s \in Sleeps : rid[s] # None)
  /\ reactor' = NewReactor
  /\ st' = [s \in Sleeps |-> IF st[s] = "pending" THEN "idle" ELSE st[s]]
  /\ ctx' = [s \in Sleeps |-> NoWaker] /\ woken' = {}
  /\ UNCHANGED <<clock, cached, deadline, rid, parkv>>

(***************************************************************************)
(* Specification.                                                          *)
(***************************************************************************)
SleepStep(s) ==
  \/ \E d \in Time : new(s, d) \/ reset(s, d)
  \/ PollReady(s) \/ (\E w \in Wakers : PollRegister(s, w))
  \/ drop(s)
ParkStep == (\E t \in {0, ParkTimeout} : park(t)) \/ wake_expired_timers

Next == Tick \/ ParkStep \/ NewRuntime \/ \E s \in Sleeps : SleepStep(s)

Spec == Init /\ [][Next]_vars

Poll(s) == PollReady(s) \/ \E w \in Wakers : PollRegister(s, w)

\* Time passes, the thread parks again and again and mio's poll returns, and the
\* executor polls a woken task, between two parks.
Fairness ==
  /\ WF_vars(Tick) /\ WF_vars(ParkStep)
  /\ \A s \in Sleeps : SF_vars(s \in woken /\ Poll(s))

FairSpec == Spec /\ Fairness

(***************************************************************************)
(* Properties.                                                             *)
(***************************************************************************)
\* The timer that s holds will wake its latest poll at its deadline.
Armed(s) ==
  /\ rid[s] # None /\ rid[s] # reactor.pending.rid
  /\ reactor.wheel[rid[s]] = deadline[s]
  /\ reactor.slot[rid[s]] = ctx[s]

\* Every Sleep that returned Pending has a wake source: an armed timer with its
\* deadline and the waker of its latest poll, or that waker has been called.
\* timeout.rs:3 relies on it: "every Pending carries a wake source".
HasWakeSource == \A s \in Sleeps : st[s] = "pending" => s \in woken \/ Armed(s)

\* So it is as long as no Sleep outlives the runtime in which it armed a timer:
\* no reset, drop or re-registration of another Sleep takes the timer down, and
\* one that takes over a noted timer is woken in its place.
WakeSourceKept == ~carried => HasWakeSource

\* A timer in the wheel belongs to a suspended Sleep, is noted for removal, or
\* was left behind by a Sleep that completed before it fired, in which case it
\* is due.  Cancelled Sleeps leave no timers.
NoOrphanTimers ==
  \A i \in Rids : reactor.wheel[i] # None =>
     \/ \E s \in Sleeps : st[s] = "pending" /\ rid[s] = i
     \/ i = reactor.pending.rid
     \/ reactor.wheel[i] <= clock

\* The wheel and the slots hold the same timers, the noted one among them: an
\* expired timer finds a waker, and none is left in a slot that never fires.
WheelMatchesSlots ==
  /\ \A i \in Rids : reactor.wheel[i] # None <=> reactor.slot[i] # NoWaker
  /\ reactor.pending # NoPending => reactor.wheel[reactor.pending.rid] = reactor.pending.deadline

\* Between parks, every timer in the wheel lies ahead of the time it has
\* advanced to: the clock that Sleep::poll decides on, which is not the wheel's,
\* never lets it register a timer that TimerWheel::insert does not accept.
WheelAhead ==
  phase = "run" => \A i \in Rids : reactor.wheel[i] # None => reactor.wheel[i] > reactor.elapsed

\* All three: the wheel holds the timers it should, where it accepts them.
WheelSound == NoOrphanTimers /\ WheelMatchesSlots /\ WheelAhead

\* No Sleep completes before its deadline, although polls use a cached clock.
NeverEarly == \A s \in Sleeps : st[s] = "done" => clock >= deadline[s]

\* The thread never goes to sleep for longer than until the deadline of a
\* suspended Sleep.
NoOversleep ==
  phase = "park" /\ ~carried =>
    \A s \in Sleeps : st[s] = "pending" /\ s \notin woken => until <= Max({now, deadline[s]})

\* A suspended Sleep completes in the end, if it is not reset or dropped.
SleepCompletes == \A s \in Sleeps : st[s] = "pending" ~> (st[s] # "pending" \/ carried)

=============================================================================

---------------------------- MODULE TimerWheel ----------------------------
(***************************************************************************)
(* The hierarchical timer wheel (lion-timer-wheel/src/wheel.rs) as the     *)
(* reactor drives it: timers are inserted and removed while tasks run, and *)
(* a park calls try_pop_expired with one time until it answers None.       *)
(*                                                                         *)
(* cached_min is left out: it starts as None and no operation turns a None *)
(* into a Some, so next_deadline always scans.  The two VecMaps are        *)
(* functions of the id.                                                    *)
(***************************************************************************)
EXTENDS Integers, Sequences, FiniteSetsExt

CONSTANTS
  TimerIds,      \* resource ids, from 1
  WheelSize,     \* WHEEL_SIZE, 256
  NumLevels,     \* NUM_LEVELS, 4
  WheelTimes     \* bound: the times of parks and the deadlines

ASSUME WheelAssumption ==
  /\ TimerIds \subseteq Nat \ {0} /\ WheelTimes \subseteq Nat \ {0}
  /\ WheelSize \in Nat \ {0, 1} /\ NumLevels \in Nat \ {0, 1}

Levels == 0..(NumLevels - 1)
WheelSlots == 0..(WheelSize - 1)
NoTimer == 0           \* no timer, no deadline: both start at 1
NoPos == <<>>

VARIABLES
  wheel,         \* TimerWheel
  at,            \* `now` of the running wake_expired_timers; NoTimer outside
  answer         \* what the latest call returned; NoTimer for None

wheelv == <<wheel, at, answer>>

new_wheel ==
  [levels |-> [l \in Levels |-> [s \in WheelSlots |-> <<>>]], elapsed |-> 0,
   pending |-> <<>>, deadlines |-> [r \in TimerIds |-> NoTimer],
   positions |-> [r \in TimerIds |-> NoPos], level_counts |-> [l \in Levels |-> 0]]

WheelInit == wheel = new_wheel /\ at = NoTimer /\ answer = NoTimer

\* 1 << shift of a level: the time that one of its slots stands for.
Span[l \in 0..NumLevels] == IF l = 0 THEN 1 ELSE WheelSize * Span[l - 1]

\* x >> shift of a level: how many of its slots time has passed.
Ticks(x, l) == x \div Span[l]

\* The level by how far ahead the deadline is, the slot by its own digit.
level_slot(deadline, elapsed) ==
  LET level == Min({l \in Levels : l = NumLevels - 1 \/ deadline - elapsed < Span[l + 1]})
  IN <<level, Ticks(deadline, level) % WheelSize>>

wheel_insert_inner(w, r, deadline, elapsed) ==
  LET p == level_slot(deadline, elapsed)
  IN [w EXCEPT !.levels[p[1]][p[2]] = Append(@, r),
               !.level_counts[p[1]] = @ + 1,
               !.positions[r] = <<p[1], p[2], Len(w.levels[p[1]][p[2]]) + 1>>]

\* swap_remove: the last timer of the slot takes the place of the removed one,
\* and its position follows.
wheel_remove_inner(w, r) ==
  LET p == w.positions[r]
      s == w.levels[p[1]][p[2]]
      last == s[Len(s)]
      cleared == [w EXCEPT !.positions[r] = NoPos,
                           !.levels[p[1]][p[2]] = SubSeq([s EXCEPT ![p[3]] = last], 1, Len(s) - 1),
                           !.level_counts[p[1]] = @ - 1]
  IN IF p = NoPos THEN w
     ELSE IF last = r THEN cleared ELSE [cleared EXCEPT !.positions[last] = p]

\* A timer out of a drained slot: due, or placed by what is left of its way.
Cascade(w, r, now) ==
  IF w.deadlines[r] = NoTimer THEN w
  ELSE IF w.deadlines[r] <= now
    THEN [w EXCEPT !.positions[r] = NoPos, !.pending = Append(@, r)]
    ELSE wheel_insert_inner(w, r, w.deadlines[r], now)

DrainSlot(w, l, s, now) ==
  LET slot == w.levels[l][s]
      v[i \in 0..Len(slot)] ==
        IF i = 0 THEN [w EXCEPT !.levels[l][s] = <<>>, !.level_counts[l] = @ - Len(slot)]
                 ELSE Cascade(v[i - 1], slot[i], now)
  IN v[Len(slot)]

\* The slots that time passes on one level, once round at most.
DrainLevel(w, l, now) ==
  LET old == Ticks(w.elapsed, l)
      n == Min({Ticks(now, l) - old, WheelSize})
      v[i \in 0..n] == IF i = 0 THEN w ELSE DrainSlot(v[i - 1], l, (old + i) % WheelSize, now)
  IN v[n]

\* Level by level, up to the first where time stays in its slot.
advance_to(w, now) ==
  LET n == Min({l \in 0..NumLevels : l = NumLevels \/ Ticks(w.elapsed, l) = Ticks(now, l)})
      v[i \in 0..n] == IF i = 0 THEN w ELSE DrainLevel(v[i - 1], i - 1, now)
  IN [v[n] EXCEPT !.elapsed = now]

\* Pending timers from the end, those without a due deadline thrown away.
PopPending(w, now) ==
  LET due == {i \in DOMAIN w.pending : w.deadlines[w.pending[i]] \in 1..now}
      r == w.pending[Max(due)]
  IN IF due = {} THEN [rid |-> NoTimer, wheel |-> [w EXCEPT !.pending = <<>>]]
     ELSE [rid |-> r, wheel |-> [w EXCEPT !.pending = SubSeq(@, 1, Max(due) - 1),
                                          !.deadlines[r] = NoTimer, !.positions[r] = NoPos]]

try_pop_expired(w, now) ==
  LET first == PopPending(w, now)
      moved == IF first.wheel.elapsed < now THEN advance_to(first.wheel, now) ELSE first.wheel
  IN IF first.rid # NoTimer THEN first ELSE PopPending(moved, now)

(***************************************************************************)
(* next_deadline.  NoTimer is Rust's None.                                 *)
(***************************************************************************)
MinOf(ds) == IF ds \subseteq {NoTimer} THEN NoTimer ELSE Min(ds \ {NoTimer})

\* The slots in the order time reaches them; the first occupied one decides,
\* unless the candidate in hand is before all of it.  Every timer of a slot of
\* level 0 has the same deadline.
scan_level_min(w, l, bound) ==
  LET cur == Ticks(w.elapsed, l)
      Slot(o) == w.levels[l][(cur + o) % WheelSize]
      occupied == {o \in 1..WheelSize : Slot(o) # <<>>}
      o == Min(occupied)
  IN IF w.level_counts[l] = 0 \/ occupied = {} THEN NoTimer
     ELSE IF bound # NoTimer /\ Ticks(bound, l) < cur + o THEN NoTimer
     ELSE IF l = 0 THEN w.deadlines[Slot(o)[1]]
     ELSE MinOf({w.deadlines[r] : r \in Range(Slot(o))})

\* The last level, which holds timers more than a round ahead: all of it.
scan_level3_min(w) ==
  LET level == w.levels[NumLevels - 1]
  IN IF w.level_counts[NumLevels - 1] = 0 THEN NoTimer
     ELSE MinOf({w.deadlines[r] : r \in UNION {Range(level[s]) : s \in WheelSlots}})

\* Faulty variant: a timer found on level 0 is taken for the earliest.
scan_wheel_min_level0(w) ==
  LET c0 == scan_level_min(w, 0, NoTimer)
  IN IF c0 # NoTimer THEN c0
     ELSE MinOf({scan_level_min(w, l, c0) : l \in 1..(NumLevels - 2)} \cup {scan_level3_min(w)})

scan_wheel_min(w) ==
  LET due == MinOf({w.deadlines[w.pending[i]] : i \in DOMAIN w.pending})
      c0 == scan_level_min(w, 0, NoTimer)
  IN IF due # NoTimer THEN due
     ELSE MinOf({c0, scan_level3_min(w)} \cup
                {scan_level_min(w, l, c0) : l \in 1..(NumLevels - 2)})

(***************************************************************************)
(* The calls of the reactor.                                               *)
(***************************************************************************)
\* Reactor::register_timer only passes deadlines ahead of the wheel's time.
insert(r, d) ==
  /\ at = NoTimer /\ d > wheel.elapsed
  /\ wheel' = wheel_insert_inner([wheel_remove_inner(wheel, r) EXCEPT !.deadlines[r] = d],
                                 r, d, wheel.elapsed)
  /\ answer' = NoTimer
  /\ UNCHANGED at

remove(r) ==
  /\ at = NoTimer
  /\ wheel' = IF wheel.deadlines[r] = NoTimer THEN wheel
              ELSE [wheel_remove_inner(wheel, r) EXCEPT !.deadlines[r] = NoTimer]
  /\ answer' = NoTimer
  /\ UNCHANGED at

\* One round of the loop in wake_expired_timers, which ends with None.
wake_expired(now) ==
  /\ at \in {NoTimer, now} /\ now >= wheel.elapsed
  /\ LET p == try_pop_expired(wheel, now)
     IN /\ wheel' = p.wheel /\ answer' = p.rid
        /\ at' = IF p.rid = NoTimer THEN NoTimer ELSE now

next_deadline ==
  /\ at = NoTimer
  /\ answer' = IF \A r \in TimerIds : wheel.deadlines[r] = NoTimer THEN NoTimer
               ELSE scan_wheel_min(wheel)
  /\ UNCHANGED <<wheel, at>>

WheelNext ==
  \/ \E r \in TimerIds : \/ \E d \in WheelTimes : insert(r, d)
                         \/ remove(r)
  \/ \E now \in WheelTimes : wake_expired(now)
  \/ next_deadline

WheelSpec == WheelInit /\ [][WheelNext]_wheelv

\* The wheel's own bookkeeping: a timer with a deadline is pending or at its
\* position, slots hold nothing else, and the counters count them.
WheelTypeOK ==
  /\ {wheel.elapsed, at} \subseteq WheelTimes \cup {0} /\ answer \in WheelTimes \cup TimerIds \cup {NoTimer}
  /\ \A r \in TimerIds :
       LET p == wheel.positions[r]
       IN /\ p # NoPos => wheel.levels[p[1]][p[2]][p[3]] = r
          /\ wheel.deadlines[r] # NoTimer <=> p # NoPos \/ r \in Range(wheel.pending)
  /\ \A l \in Levels :
       wheel.level_counts[l] = Cardinality({r \in TimerIds : wheel.positions[r] # NoPos
                                                             /\ wheel.positions[r][1] = l})
  /\ \A l \in Levels, s \in WheelSlots : \A i \in DOMAIN wheel.levels[l][s] :
       wheel.positions[wheel.levels[l][s][i]] = <<l, s, i>>

(***************************************************************************)
(* The wheel is the map that reactor/timer.rs and Timers take it for: a    *)
(* park takes out exactly the timers that are due, whichever slots they    *)
(* were cascaded through, and next_deadline is the earliest deadline, so   *)
(* no park sleeps past a timer.                                            *)
(***************************************************************************)
TM == INSTANCE TimerMap WITH timers <- wheel.deadlines, clock <- wheel.elapsed

ImplementsTimerMap == TM!MapSpec

=============================================================================

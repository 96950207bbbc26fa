---------------------------- MODULE TimersProofs ----------------------------
(***************************************************************************)
(* Proofs about Timers for every number of Sleeps, wakers, ids, runtimes   *)
(* and instants.                                                           *)
(***************************************************************************)
EXTENDS Timers, TLAPS, WellFoundedInduction

(***************************************************************************)
(* The inductive invariant.                                                *)
(***************************************************************************)
\* A reactor between two calls: wheel and slots agree, a noted timer is still
\* armed with the deadline noted, and ids not handed out yet are free.
ReactorOK(r) ==
  /\ r \in Reactors
  /\ \A i \in Rids : r.wheel[i] # None <=> r.slot[i] # NoWaker
  /\ r.pending.rid = None <=> r.pending = NoPending
  /\ r.pending # NoPending => r.wheel[r.pending.rid] = r.pending.deadline /\ r.pending.deadline # None
  /\ \A i \in Rids : i >= r.next => r.wheel[i] = None

\* No Sleep has outlived a runtime: each id belongs to one suspended Sleep.
Owned ==
  /\ \A s \in Sleeps : rid[s] # None =>
       st[s] = "pending" /\ rid[s] < reactor.next /\ rid[s] # reactor.pending.rid
  /\ \A s, t \in Sleeps : s # t /\ rid[s] # None => rid[s] # rid[t]

\* The wheel, the cached clock and `now` never run ahead of the clock, and the
\* wheel has not advanced past the clock that polls go by.
Times ==
  /\ reactor.elapsed <= clock /\ now <= clock /\ cached <= clock
  /\ cached = NotCached => phase = "run" /\ reactor.elapsed = 0
  /\ cached # NotCached => reactor.elapsed <= cached
  /\ phase = "park" => now = cached /\ reactor.pending = NoPending

\* A suspended Sleep was polled with a waker.
Polled == \A s \in Sleeps : st[s] = "pending" => ctx[s] \in Wakers

IInv ==
  /\ TypeOK /\ ReactorOK(reactor) /\ Times /\ Polled
  /\ ~carried => Owned
  /\ WakeSourceKept /\ WheelAhead /\ NeverEarly /\ NoOversleep

(***************************************************************************)
(* What the reactor's operations do to it.                                 *)
(***************************************************************************)
\* r2 differs from r1 at most in the timers of the ids in I, and has no timer
\* with a deadline that r1 has not.
Within(r1, r2, I) ==
  /\ r2.elapsed = r1.elapsed
  /\ \A j \in Rids \ I : r2.wheel[j] = r1.wheel[j] /\ r2.slot[j] = r1.slot[j]
  /\ \A j \in Rids : r2.wheel[j] \in {None, r1.wheel[j]}

\* Two fields of a record are replaced.
LEMMA RecordLemma ==
  ASSUME NEW W, NEW S, NEW E, NEW N, NEW P,
         NEW r \in [wheel : W, slot : S, elapsed : E, next : N, pending : P],
         NEW w \in W, NEW s \in S, NEW e \in E, NEW n \in N, NEW p \in P
  PROVE  /\ [r EXCEPT !.wheel = w, !.slot = s] \in [wheel : W, slot : S, elapsed : E, next : N, pending : P]
         /\ [r EXCEPT !.wheel = w, !.slot = s, !.elapsed = e] \in [wheel : W, slot : S, elapsed : E, next : N, pending : P]
         /\ [r EXCEPT !.wheel = w, !.slot = s, !.next = n] \in [wheel : W, slot : S, elapsed : E, next : N, pending : P]
         /\ [r EXCEPT !.pending = p] \in [wheel : W, slot : S, elapsed : E, next : N, pending : P]
         /\ [r EXCEPT !.pending = p, !.slot = s] \in [wheel : W, slot : S, elapsed : E, next : N, pending : P]
OBVIOUS

\* The fields of a reactor with one timer removed.
LEMMA RemoveLemma ==
  ASSUME NEW r \in Reactors, NEW i \in Rids
  PROVE  LET q == RemoveTimer(r, i) IN
         /\ q \in Reactors
         /\ q.wheel = [r.wheel EXCEPT ![i] = None] /\ q.slot = [r.slot EXCEPT ![i] = NoWaker]
         /\ q.elapsed = r.elapsed /\ q.next = r.next /\ q.pending = r.pending
<1>1. /\ [r.wheel EXCEPT ![i] = None] \in [Rids -> Time]
      /\ [r.slot EXCEPT ![i] = NoWaker] \in [Rids -> Wakers \cup {NoWaker}]
  BY TimersAssumption DEF Reactors, Time, None
<1>2. RemoveTimer(r, i) \in Reactors
  BY <1>1, RecordLemma DEF RemoveTimer, Reactors
<1>3. QED
  BY <1>2 DEF RemoveTimer, Reactors

\* flush_pending_deregister touches the noted timer only.
LEMMA FlushLemma ==
  ASSUME NEW r, ReactorOK(r)
  PROVE  LET f == flush_pending_deregister(r) IN
         /\ ReactorOK(f) /\ f.pending = NoPending /\ f.next = r.next /\ Within(r, f, {r.pending.rid})
         /\ \A j \in Rids : j = r.pending.rid => f.wheel[j] = None
<1>0. None \notin Rids
  BY DEF None, Rids
<1>1. CASE r.pending = NoPending
  BY <1>0, <1>1 DEF NoPending, flush_pending_deregister, Within, ReactorOK, Reactors
<1>2. CASE r.pending # NoPending
  <2> DEFINE q == RemoveTimer(r, r.pending.rid)
             f == [q EXCEPT !.pending = NoPending]
  <2>1. r \in Reactors /\ r.pending.rid \in Rids
    BY <1>2 DEF ReactorOK, Reactors
  <2>2. /\ q \in Reactors
        /\ q.wheel = [r.wheel EXCEPT ![r.pending.rid] = None]
        /\ q.slot = [r.slot EXCEPT ![r.pending.rid] = NoWaker]
        /\ q.elapsed = r.elapsed /\ q.next = r.next
    BY <2>1, RemoveLemma
  <2>3. flush_pending_deregister(r) = f
    BY <1>2 DEF flush_pending_deregister
  <2> HIDE DEF q
  <2>4. NoPending \in [rid : Rids \cup {None}, deadline : Time]
    BY TimersAssumption DEF NoPending, Time, None
  <2>5. f \in Reactors
    BY <2>2, <2>4, RecordLemma DEF Reactors
  <2>6. f.wheel = q.wheel /\ f.slot = q.slot /\ f.elapsed = q.elapsed /\ f.next = q.next /\ f.pending = NoPending
    BY <2>2 DEF Reactors
  <2> HIDE DEF f
  <2>7. r.wheel \in [Rids -> Time] /\ r.slot \in [Rids -> Wakers \cup {NoWaker}] /\ r.next \in Nat
    BY <2>1 DEF Reactors, Rids
  <2>8. ReactorOK(f)
    BY <1>2, <2>1, <2>2, <2>5, <2>6, <2>7 DEF ReactorOK, NoPending
  <2>9. QED
    BY <2>1, <2>2, <2>3, <2>6, <2>7, <2>8 DEF Within
<1>3. QED
  BY <1>1, <1>2

\* deregister_timer touches the noted timer and its own, and notes no other.
LEMMA DeregisterLemma ==
  ASSUME NEW r, ReactorOK(r), NEW i \in Rids
  PROVE  LET g == deregister_timer(r, i) IN
         /\ ReactorOK(g) /\ g.next = r.next
         /\ g.pending.rid \in {None, i}
         /\ Within(r, g, {i, r.pending.rid})
         /\ g.wheel[i] # None => g.pending.rid = i
         /\ \A j \in Rids : j = r.pending.rid => g.wheel[j] = None
<1> DEFINE f == flush_pending_deregister(r)
<1>1. /\ ReactorOK(f) /\ f.pending = NoPending /\ f.next = r.next /\ Within(r, f, {r.pending.rid})
      /\ \A j \in Rids : j = r.pending.rid => f.wheel[j] = None
  BY FlushLemma
<1> HIDE DEF f
<1>2. deregister_timer(r, i) = IF f.wheel[i] # None
                                 THEN [f EXCEPT !.pending = [rid |-> i, deadline |-> f.wheel[i]]]
                                 ELSE RemoveTimer(f, i)
  BY DEF deregister_timer, f
<1>3. f \in Reactors /\ f.wheel \in [Rids -> Time] /\ f.slot \in [Rids -> Wakers \cup {NoWaker}] /\ f.next \in Nat
  BY <1>1 DEF ReactorOK, Reactors, Rids
<1>4. CASE f.wheel[i] # None
  <2> DEFINE p == [rid |-> i, deadline |-> f.wheel[i]]
             g == [f EXCEPT !.pending = p]
  <2>1. p \in [rid : Rids \cup {None}, deadline : Time]
    BY <1>3
  <2>2. p.rid = i /\ p.deadline = f.wheel[i] /\ i # None
    BY DEF None, Rids
  <2> HIDE DEF p
  <2>3. p # NoPending
    BY <2>2 DEF NoPending
  <2>4. g \in Reactors
    BY <1>3, <2>1, RecordLemma DEF Reactors
  <2>5. g.wheel = f.wheel /\ g.slot = f.slot /\ g.elapsed = f.elapsed /\ g.next = f.next /\ g.pending = p
    BY <1>3 DEF Reactors
  <2>6. deregister_timer(r, i) = g
    BY <1>2, <1>4 DEF p
  <2> HIDE DEF g
  <2>7. ReactorOK(g)
    BY <1>1, <1>4, <2>2, <2>4, <2>5, <2>3 DEF ReactorOK
  <2>8. QED
    BY <1>1, <2>2, <2>5, <2>6, <2>7 DEF Within
<1>5. CASE f.wheel[i] = None
  <2> DEFINE g == RemoveTimer(f, i)
  <2>1. /\ g \in Reactors
        /\ g.wheel = [f.wheel EXCEPT ![i] = None] /\ g.slot = [f.slot EXCEPT ![i] = NoWaker]
        /\ g.elapsed = f.elapsed /\ g.next = f.next /\ g.pending = f.pending
    BY <1>3, RemoveLemma
  <2>2. deregister_timer(r, i) = g
    BY <1>2, <1>5
  <2> HIDE DEF g
  <2>3. ReactorOK(g)
    BY <1>1, <1>3, <2>1 DEF ReactorOK, NoPending
  <2>4. QED
    BY <1>1, <1>3, <2>1, <2>2, <2>3 DEF Within, NoPending
<1>6. QED
  BY <1>4, <1>5

\* register_timer arms the timer whose id it returns, touches no other but the
\* noted one, and takes over the noted id or hands out a new one.
LEMMA RegisterLemma ==
  ASSUME NEW r, ReactorOK(r), NEW d \in Time, d # None, NEW w \in Wakers
  PROVE  LET g == register_timer(r, d, w)
             i == registered_rid(r, d)
         IN  /\ ReactorOK(g) /\ g.pending = NoPending /\ g.next >= r.next /\ g.elapsed = r.elapsed
             /\ \A j \in Rids \ {i, r.pending.rid} : g.wheel[j] = r.wheel[j] /\ g.slot[j] = r.slot[j]
             /\ \A j \in Rids : g.wheel[j] \in {None, d, r.wheel[j]}
             /\ i \in Rids \cup {None}
             /\ i # None => /\ i \in {r.pending.rid, r.next} /\ (i = r.next => i # r.pending.rid)
                            /\ i < g.next /\ g.wheel[i] = d /\ g.slot[i] = w
                            /\ i = r.pending.rid => r.wheel[i] = d
             /\ \A j \in Rids : j = r.pending.rid /\ j # i => g.wheel[j] = None
<1> DEFINE g == register_timer(r, d, w)
           i == registered_rid(r, d)
           f == flush_pending_deregister(r)
<1>1. r \in Reactors /\ r.wheel \in [Rids -> Time] /\ r.slot \in [Rids -> Wakers \cup {NoWaker}] /\ r.next \in Rids
  BY DEF ReactorOK, Reactors
<1>2. CASE Reusable(r, d)
  <2>1. /\ r.pending.rid \in Rids /\ r.pending # NoPending
        /\ r.wheel[r.pending.rid] = d /\ r.pending.rid < r.next
    BY <1>1, <1>2 DEF Reusable, ReactorOK, Reactors, Rids
  <2>2. i = r.pending.rid
    BY <1>2 DEF registered_rid
  <2>3. g = [r EXCEPT !.pending = NoPending, !.slot = [r.slot EXCEPT ![r.pending.rid] = w]]
    BY <1>2 DEF register_timer
  <2> HIDE DEF g, i
  <2>4. /\ NoPending \in [rid : Rids \cup {None}, deadline : Time]
        /\ [r.slot EXCEPT ![r.pending.rid] = w] \in [Rids -> Wakers \cup {NoWaker}]
    BY <1>1, <2>1, TimersAssumption DEF NoPending, Time, None
  <2>5. g \in Reactors
    BY <1>1, <2>3, <2>4, RecordLemma DEF Reactors
  <2>6. /\ g.wheel = r.wheel /\ g.slot = [r.slot EXCEPT ![r.pending.rid] = w]
        /\ g.elapsed = r.elapsed /\ g.next = r.next /\ g.pending = NoPending
    BY <1>1, <2>3 DEF Reactors
  <2>7. ReactorOK(g)
    BY <1>1, <2>1, <2>5, <2>6, TimerWakersAssumption DEF ReactorOK, NoPending
  <2>8. r.next \in Nat /\ i \in Nat
    BY <1>1, <2>1, <2>2 DEF Rids
  <2>9. QED
    BY <1>1, <2>1, <2>2, <2>6, <2>7, <2>8 DEF g, i
<1>3. CASE ~Reusable(r, d)
  <2>1. /\ ReactorOK(f) /\ f.pending = NoPending /\ f.next = r.next /\ Within(r, f, {r.pending.rid})
        /\ \A j \in Rids : j = r.pending.rid => f.wheel[j] = None
    BY FlushLemma
  <2> HIDE DEF f
  <2>2. f \in Reactors /\ f.wheel \in [Rids -> Time] /\ f.slot \in [Rids -> Wakers \cup {NoWaker}]
    BY <2>1 DEF ReactorOK, Reactors
  <2>3. CASE Exhausted(f)
    <3>1. g = f /\ i = None
      BY <1>3, <2>1, <2>3 DEF register_timer, registered_rid, Exhausted, f
    <3>2. QED
      BY <1>1, <2>1, <3>1 DEF Within, Rids
  <2>4. CASE ~Exhausted(f)
    <3>1. i = r.next /\ r.next < MaxRid
      BY <1>1, <1>3, <2>1, <2>4, TimersAssumption DEF registered_rid, Exhausted, Rids
    <3>2. g = [f EXCEPT !.wheel = [f.wheel EXCEPT ![r.next] = d], !.slot = [f.slot EXCEPT ![r.next] = w],
                        !.next = r.next + 1]
      BY <1>3, <2>1, <2>4 DEF register_timer, f
    <3> HIDE DEF g, i
    <3>3. /\ [f.wheel EXCEPT ![r.next] = d] \in [Rids -> Time]
          /\ [f.slot EXCEPT ![r.next] = w] \in [Rids -> Wakers \cup {NoWaker}]
          /\ r.next + 1 \in Rids
      BY <1>1, <2>2, <3>1, TimersAssumption DEF Rids
    <3>4. g \in Reactors
      BY <2>2, <3>2, <3>3, RecordLemma DEF Reactors
    <3>5. /\ g.wheel = [f.wheel EXCEPT ![r.next] = d] /\ g.slot = [f.slot EXCEPT ![r.next] = w]
          /\ g.elapsed = f.elapsed /\ g.next = r.next + 1 /\ g.pending = NoPending
      BY <2>1, <2>2, <3>2 DEF Reactors
    <3>6. r.next \in Nat /\ r.next # None /\ r.next # r.pending.rid /\ Rids \subseteq Nat
      BY <1>1 DEF Rids, None, ReactorOK, NoPending, Reactors
    <3>7. ReactorOK(g)
      BY <1>1, <2>1, <2>2, <3>4, <3>5, <3>6, TimerWakersAssumption DEF ReactorOK, NoPending
    <3>8. QED
      BY <1>1, <2>1, <2>2, <3>1, <3>5, <3>6, <3>7 DEF Within, g, i
  <2>5. QED
    BY <2>3, <2>4
<1>4. QED
  BY <1>2, <1>3

(***************************************************************************)
(* Time.                                                                   *)
(***************************************************************************)
\* Max of two numbers.
LEMMA MaxLemma ==
  ASSUME NEW a \in Nat, NEW b \in Nat
  PROVE  Max({a, b}) = IF a >= b THEN a ELSE b
<1> DEFINE P(x) == x \in {a, b} /\ \A y \in {a, b} : x >= y
<1>1. \E x : P(x)
  OBVIOUS
<1>2. P(CHOOSE x : P(x))
  BY <1>1, Zenon
<1>3. Max({a, b}) = CHOOSE x : P(x)
  BY DEF Max
<1>4. QED
  BY <1>2, <1>3

\* A set of natural numbers has a least element.
LEMMA MinLemma ==
  ASSUME NEW S, S \subseteq Nat, S # {}
  PROVE  Min(S) \in S /\ \A y \in S : Min(S) <= y
<1> DEFINE P(x) == x \in S /\ \A y \in S : x <= y
           R == OpToRel(<, Nat)
<1>1. IsWellFoundedOn(R, Nat)
  BY NatLessThanWellFounded, Zenon
<1>2. R = {ss \in Nat \X Nat : ss[1] < ss[2]}
  BY Zenon DEF OpToRel
<1> HIDE DEF R
<1>3. \E x \in S : \A y \in S : ~(<<y, x>> \in R)
  BY <1>1, WFMin
<1>4. \A x, y \in Nat : <<y, x>> \in R <=> y < x
  BY <1>2
<1>5. PICK m \in S : \A y \in S : ~(<<y, m>> \in R)
  BY <1>3
<1>6. ASSUME NEW y \in S PROVE m <= y
  <2>1. m \in Nat /\ y \in Nat
    OBVIOUS
  <2>2. ~(y < m)
    BY <1>4, <1>5, <2>1
  <2>3. QED
    BY <2>1, <2>2
<1>7. \E z : P(z)
  BY <1>5, <1>6
<1>8. P(CHOOSE x : P(x))
  BY <1>7, Zenon
<1>9. Min(S) = CHOOSE x : P(x)
  BY DEF Min
<1>10. QED
  BY <1>8, <1>9

\* The poll of a park is asked to return by the next deadline.
LEMMA UntilLemma ==
  ASSUME NEW r \in Reactors, NEW t \in Nat, NEW timeout \in Nat
  PROVE  /\ effective_until(r, t, timeout) \in Nat
         /\ \A i \in Rids : r.wheel[i] # None => effective_until(r, t, timeout) <= Max({t, r.wheel[i]})
<1> DEFINE S == {t + timeout} \cup {Max({t, d}) : d \in Deadlines(r)}
<1>1. Deadlines(r) \subseteq Nat
  BY DEF Deadlines, Reactors, Time
<1>2. ASSUME NEW d \in Deadlines(r) PROVE Max({t, d}) \in Nat
  <2>1. d \in Nat
    BY <1>1
  <2>2. Max({t, d}) = IF t >= d THEN t ELSE d
    BY <2>1, MaxLemma
  <2>3. QED
    BY <2>1, <2>2
<1>3. S \subseteq Nat /\ S # {}
  <2>1. t + timeout \in Nat
    OBVIOUS
  <2>2. QED
    BY <1>2, <2>1, Zenon
<1>4. Min(S) \in S /\ \A y \in S : Min(S) <= y
  BY <1>3, MinLemma
<1>5. effective_until(r, t, timeout) = Min(S)
  BY DEF effective_until
<1>6. \A i \in Rids : r.wheel[i] # None => Max({t, r.wheel[i]}) \in S
  BY DEF Deadlines
<1>7. QED
  BY <1>3, <1>4, <1>5, <1>6

(***************************************************************************)
(* The steps of a Sleep.                                                   *)
(***************************************************************************)
\* Giving up the timer of s disturbs no other Sleep's timer.
LEMMA ReleasedLemma ==
  ASSUME IInv, NEW s \in Sleeps
  PROVE  LET g == Released(s) IN
         /\ ReactorOK(g) /\ g.next = reactor.next
         /\ g.elapsed = reactor.elapsed
         /\ \A j \in Rids : g.wheel[j] \in {None, reactor.wheel[j]}
         /\ ~carried => \A t \in Sleeps \ {s} : rid[t] # None =>
              /\ rid[t] # g.pending.rid
              /\ g.wheel[rid[t]] = reactor.wheel[rid[t]] /\ g.slot[rid[t]] = reactor.slot[rid[t]]
<1> DEFINE g == Released(s)
<1>1. CASE rid[s] = None
  BY <1>1 DEF Released, IInv, Owned, ReactorOK
<1>2. CASE rid[s] # None
  <2>1. rid[s] \in Rids /\ rid \in [Sleeps -> Rids \cup {None}]
    BY <1>2 DEF IInv, TypeOK
  <2>2. g = deregister_timer(reactor, rid[s])
    BY <1>2 DEF Released
  <2>3. /\ ReactorOK(g) /\ g.next = reactor.next
        /\ g.pending.rid \in {None, rid[s]}
        /\ Within(reactor, g, {rid[s], reactor.pending.rid})
    BY <2>1, <2>2, DeregisterLemma DEF IInv
  <2> HIDE DEF g
  <2>4. ASSUME ~carried, NEW t \in Sleeps \ {s}, rid[t] # None
        PROVE  rid[t] \in Rids /\ rid[t] # rid[s] /\ rid[t] # reactor.pending.rid
    BY <2>1, <2>4 DEF IInv, Owned
  <2>5. QED
    BY <2>3, <2>4 DEF Within, g
<1>3. QED
  BY <1>1, <1>2

\* The parts of the type invariant that the steps of a Sleep rely on.
LEMMA Types ==
  ASSUME IInv
  PROVE  /\ clock \in Nat /\ now \in Nat /\ cached \in Int /\ reactor.elapsed \in Nat /\ reactor.next \in Nat
         /\ reactor \in Reactors /\ \A s \in Sleeps : deadline[s] \in Nat /\ rid[s] \in Nat
         /\ \A i \in Rids : reactor.wheel[i] \in Nat
         /\ PollNow \in Nat /\ PollNow <= clock /\ reactor.elapsed <= PollNow
<1>1. Time \subseteq Nat /\ Rids \subseteq Nat
  BY DEF Time, Rids
<1>2. reactor \in Reactors /\ reactor.elapsed \in Time /\ reactor.next \in Rids /\ reactor.wheel \in [Rids -> Time]
  BY DEF IInv, ReactorOK, Reactors
<1>3. clock \in Nat /\ now \in Nat /\ cached \in Nat \cup {-1}
  BY <1>1 DEF IInv, TypeOK, NotCached
<1>4. ASSUME NEW s \in Sleeps PROVE deadline[s] \in Nat /\ rid[s] \in Nat
  <2>1. deadline[s] \in Time /\ (rid[s] \in Rids \/ rid[s] = 0)
    BY DEF IInv, TypeOK, None
  <2>2. QED
    BY <2>1 DEF Time, Rids
<1>5. reactor.elapsed \in Nat /\ reactor.next \in Nat /\ \A i \in Rids : reactor.wheel[i] \in Nat
  BY <1>1, <1>2
<1>6. PollNow \in Nat /\ PollNow <= clock /\ reactor.elapsed <= PollNow
  BY <1>3, <1>5 DEF IInv, Times, PollNow, NotCached
<1>7. QED
  BY <1>2, <1>3, <1>4, <1>5, <1>6

\* Sleep::until.
LEMMA NewStep ==
  ASSUME IInv, NEW s \in Sleeps, NEW d \in Time, new(s, d)
  PROVE  IInv'
<1>1. TypeOK'
  BY DEF IInv, TypeOK, new, SleepStates, parkv, runv
<1>2. ReactorOK(reactor)' /\ Times' /\ WheelAhead'
  BY DEF IInv, ReactorOK, Times, WheelAhead, new, parkv, Reactors
<1>3. (~carried => Owned)' /\ WakeSourceKept' /\ NoOversleep'
  BY DEF IInv, TypeOK, Owned, WakeSourceKept, HasWakeSource, Armed, NoOversleep, new, parkv, runv
<1>4. NeverEarly' /\ Polled'
  BY DEF IInv, TypeOK, NeverEarly, Polled, new
<1>5. QED
  BY <1>1, <1>2, <1>3, <1>4 DEF IInv

\* A poll that completes.
LEMMA PollReadyStep ==
  ASSUME IInv, NEW s \in Sleeps, PollReady(s)
  PROVE  IInv'
<1>1. TypeOK'
  BY DEF IInv, TypeOK, PollReady, SleepStates, parkv, runv
<1>2. ReactorOK(reactor)' /\ Times' /\ WheelAhead'
  BY DEF IInv, ReactorOK, Times, WheelAhead, PollReady, parkv, Reactors
<1>3. (~carried => Owned)' /\ WakeSourceKept' /\ NoOversleep'
  BY DEF IInv, TypeOK, Owned, WakeSourceKept, HasWakeSource, Armed, NoOversleep, PollReady, parkv, runv
<1>4. NeverEarly' /\ Polled'
  BY Types DEF IInv, TypeOK, NeverEarly, Polled, PollReady, Due
<1>5. QED
  BY <1>1, <1>2, <1>3, <1>4 DEF IInv

\* reset and drop: s gives its timer up and is not suspended any more.
LEMMA ReleaseStep ==
  ASSUME IInv, NEW s \in Sleeps, drop(s) \/ \E d \in Time : reset(s, d)
  PROVE  IInv'
<1> DEFINE g == Released(s)
<1>1. /\ reactor' = g /\ rid' = [rid EXCEPT ![s] = None]
      /\ st'[s] \in {"gone", "idle"} /\ st' = [st EXCEPT ![s] = st'[s]]
      /\ deadline'[s] \in Time /\ deadline' = [deadline EXCEPT ![s] = deadline'[s]]
      /\ ctx' = [ctx EXCEPT ![s] = NoWaker] /\ woken' = woken \ {s}
      /\ phase = "run" /\ UNCHANGED <<clock, cached, phase, now, until, runs, carried>>
  BY TimersAssumption DEF IInv, TypeOK, drop, reset, parkv, runv, Time
<1>2. /\ ReactorOK(g) /\ g.next = reactor.next /\ g.elapsed = reactor.elapsed
      /\ \A j \in Rids : g.wheel[j] \in {None, reactor.wheel[j]}
      /\ ~carried => \A t \in Sleeps \ {s} : rid[t] # None =>
           /\ rid[t] # g.pending.rid
           /\ g.wheel[rid[t]] = reactor.wheel[rid[t]] /\ g.slot[rid[t]] = reactor.slot[rid[t]]
  BY ReleasedLemma
<1> HIDE DEF g
<1>3. TypeOK'
  BY <1>1, <1>2 DEF IInv, TypeOK, SleepStates, ReactorOK
<1>4. ReactorOK(reactor)' /\ Times'
  BY <1>1, <1>2 DEF IInv, Times, ReactorOK, Reactors
<1>5. WheelAhead' /\ NeverEarly' /\ NoOversleep' /\ Polled'
  BY <1>1, <1>2 DEF IInv, TypeOK, WheelAhead, NeverEarly, NoOversleep, Polled
<1>6. (~carried => Owned)'
  BY <1>1, <1>2 DEF IInv, TypeOK, Owned
<1>7. WakeSourceKept'
  BY <1>1, <1>2 DEF IInv, TypeOK, Owned, WakeSourceKept, HasWakeSource, Armed
<1>8. QED
  BY <1>3, <1>4, <1>5, <1>6, <1>7 DEF IInv

\* A poll that registers its timer anew.
LEMMA PollRegisterStep ==
  ASSUME IInv, NEW s \in Sleeps, NEW w \in Wakers, PollRegister(s, w)
  PROVE  IInv'
<1> DEFINE g == Released(s)
           d == deadline[s]
           h == register_timer(g, d, w)
           i == registered_rid(g, d)
<1>1. /\ ReactorOK(g) /\ g.next = reactor.next /\ g.elapsed = reactor.elapsed
      /\ \A j \in Rids : g.wheel[j] \in {None, reactor.wheel[j]}
      /\ ~carried => \A t \in Sleeps \ {s} : rid[t] # None =>
           /\ rid[t] # g.pending.rid
           /\ g.wheel[rid[t]] = reactor.wheel[rid[t]] /\ g.slot[rid[t]] = reactor.slot[rid[t]]
  BY ReleasedLemma
<1> HIDE DEF g
<1>2. d \in Time /\ d # None /\ d > reactor.elapsed
  BY Types DEF PollRegister, Due, IInv, TypeOK, None
<1> HIDE DEF d
<1>3. /\ ReactorOK(h) /\ h.pending = NoPending /\ h.next >= g.next /\ h.elapsed = g.elapsed
      /\ \A j \in Rids \ {i, g.pending.rid} : h.wheel[j] = g.wheel[j] /\ h.slot[j] = g.slot[j]
      /\ \A j \in Rids : h.wheel[j] \in {None, d, g.wheel[j]}
      /\ i \in Rids \cup {None}
      /\ i # None => /\ i \in {g.pending.rid, g.next} /\ (i = g.next => i # g.pending.rid)
                     /\ i < h.next /\ h.wheel[i] = d /\ h.slot[i] = w
  BY <1>1, <1>2, RegisterLemma
<1>4. /\ reactor' = h /\ rid' = [rid EXCEPT ![s] = i]
      /\ st' = [st EXCEPT ![s] = IF i # None THEN "pending" ELSE "failed"]
      /\ ctx' = [ctx EXCEPT ![s] = w] /\ woken' = woken \ {s} /\ phase = "run"
      /\ UNCHANGED <<clock, cached, deadline, phase, now, until, runs, carried>>
  BY DEF PollRegister, parkv, runv, IInv, TypeOK, g, d
<1> HIDE DEF h, i
<1>5. TypeOK'
  BY <1>3, <1>4 DEF IInv, TypeOK, SleepStates, ReactorOK
<1>6. ReactorOK(reactor)' /\ Times'
  BY <1>1, <1>3, <1>4 DEF IInv, Times, ReactorOK, Reactors
<1>7. WheelAhead'
  BY <1>1, <1>2, <1>3, <1>4 DEF IInv, WheelAhead
<1>8. NeverEarly' /\ NoOversleep' /\ Polled'
  BY <1>4 DEF IInv, TypeOK, NeverEarly, NoOversleep, Polled
<1>9. ASSUME ~carried, NEW t \in Sleeps \ {s}, rid[t] # None
      PROVE  /\ rid[t] \in Rids /\ rid[t] # i /\ rid[t] < h.next
             /\ h.wheel[rid[t]] = reactor.wheel[rid[t]] /\ h.slot[rid[t]] = reactor.slot[rid[t]]
  <2>1. rid[t] \in Rids /\ rid[t] < reactor.next /\ rid[t] # g.pending.rid
    BY <1>1, <1>9 DEF IInv, TypeOK, Owned
  <2>2. reactor.next \in Nat /\ h.next \in Nat /\ rid[t] \in Nat
    BY <1>3, <2>1 DEF IInv, ReactorOK, Reactors, Rids
  <2>3. rid[t] # i
    BY <1>1, <1>3, <1>9, <2>1, <2>2
  <2>4. QED
    BY <1>1, <1>3, <1>9, <2>1, <2>2, <2>3
<1>10. (~carried => Owned)'
  BY <1>3, <1>4, <1>9 DEF IInv, TypeOK, Owned, NoPending
<1>11. WakeSourceKept'
  <2> SUFFICES ASSUME ~carried, NEW t \in Sleeps, st'[t] = "pending", t \notin woken'
               PROVE  Armed(t)'
    BY <1>4 DEF WakeSourceKept, HasWakeSource
  <2>1. CASE t = s
    BY <1>3, <1>4, <2>1 DEF IInv, TypeOK, Armed, NoPending, d
  <2>2. CASE t # s
    <3>1. st[t] = "pending" /\ t \notin woken /\ ctx'[t] = ctx[t] /\ rid'[t] = rid[t]
      BY <1>4, <2>2 DEF IInv, TypeOK
    <3>2. Armed(t)
      BY <3>1 DEF IInv, WakeSourceKept, HasWakeSource
    <3>3. QED
      BY <1>3, <1>4, <1>9, <2>2, <3>1, <3>2 DEF Armed, NoPending
  <2>3. QED
    BY <2>1, <2>2
<1>12. QED
  BY <1>5, <1>6, <1>7, <1>8, <1>10, <1>11 DEF IInv

(***************************************************************************)
(* The steps of the runtime.                                               *)
(***************************************************************************)
\* The flush before a park disturbs no suspended Sleep, and the poll is timed by
\* the timers that are left.
LEMMA ParkBegins ==
  ASSUME IInv, NEW timeout \in {0, ParkTimeout}, park(timeout)
  PROVE  IInv'
<1> DEFINE r == flush_pending_deregister(reactor)
<1>1. ReactorOK(r) /\ r.pending = NoPending /\ r.next = reactor.next /\ Within(reactor, r, {reactor.pending.rid})
  BY FlushLemma DEF IInv
<1>2. get_current_time(r) = clock
  <2>1. clock \in Nat /\ r.elapsed \in Nat /\ r.elapsed <= clock
    BY <1>1, Types DEF IInv, Times, Within
  <2>2. QED
    BY <2>1, MaxLemma DEF get_current_time
<1>3. /\ phase = "run" /\ reactor' = r /\ now' = clock /\ cached' = clock /\ phase' = "park"
      /\ until' = effective_until(r, clock, timeout)
      /\ UNCHANGED <<clock, deadline, rid, st, ctx, runs, carried, woken>>
  BY <1>2 DEF park, sleepv, runv
<1> HIDE DEF r
<1>4. r \in Reactors /\ timeout \in Nat /\ clock \in Nat
  BY <1>1, Types, TimersAssumption DEF ReactorOK
<1>5. /\ until' \in Nat
      /\ \A i \in Rids : r.wheel[i] # None => until' <= Max({clock, r.wheel[i]})
  BY <1>3, <1>4, UntilLemma
<1>6. TypeOK'
  BY <1>3, <1>4, <1>5 DEF IInv, TypeOK
<1>7. ReactorOK(reactor)' /\ Times' /\ WheelAhead' /\ NeverEarly' /\ Polled'
  <2>1. cached' # NotCached
    BY <1>3, <1>4 DEF NotCached
  <2>2. QED
    BY <1>1, <1>3, <1>4, <2>1 DEF IInv, Times, Within, WheelAhead, NeverEarly, Polled, ReactorOK, Reactors
<1>8. (~carried => Owned)'
  BY <1>1, <1>3 DEF IInv, Owned, NoPending
<1>9. ASSUME ~carried, NEW t \in Sleeps, st[t] = "pending", t \notin woken
      PROVE  Armed(t)' /\ r.wheel[rid[t]] = deadline[t] /\ rid[t] \in Rids /\ deadline[t] # None
  <2>1. Armed(t) /\ rid[t] \in Rids
    BY <1>9 DEF IInv, TypeOK, WakeSourceKept, HasWakeSource, Armed
  <2>2. r.wheel[rid[t]] = deadline[t] /\ r.slot[rid[t]] = ctx[t]
    BY <1>1, <2>1 DEF Armed, Within
  <2>3. deadline[t] # None
    <3>1. ctx[t] # NoWaker
      BY <1>9, TimerWakersAssumption DEF IInv, Polled
    <3>2. QED
      BY <1>1, <2>1, <2>2, <3>1 DEF ReactorOK
  <2>4. QED
    BY <1>1, <1>3, <2>1, <2>2, <2>3 DEF Armed, NoPending
<1>10. WakeSourceKept'
  BY <1>3, <1>9 DEF WakeSourceKept, HasWakeSource
<1>11. NoOversleep'
  BY <1>3, <1>5, <1>9 DEF NoOversleep
<1>12. QED
  BY <1>6, <1>7, <1>8, <1>10, <1>11 DEF IInv

\* The end of a park: the suspended Sleeps whose timers expire are woken.
LEMMA ParkEnds ==
  ASSUME IInv, wake_expired_timers
  PROVE  IInv'
<1> DEFINE W == [i \in Rids |-> IF i \in Expired THEN None ELSE reactor.wheel[i]]
           S == [i \in Rids |-> IF i \in Expired THEN NoWaker ELSE reactor.slot[i]]
           h == [reactor EXCEPT !.wheel = W, !.slot = S, !.elapsed = now]
<1>1. /\ phase = "park" /\ reactor' = h /\ woken' = woken \cup Fired
      /\ phase' = "run" /\ now' = 0 /\ until' = 0
      /\ UNCHANGED <<clock, cached, deadline, rid, st, ctx, runs, carried>>
  BY DEF wake_expired_timers, sleepv, runv
<1>2. reactor \in Reactors /\ now \in Time
  BY DEF IInv, TypeOK
<1>3. W \in [Rids -> Time] /\ S \in [Rids -> Wakers \cup {NoWaker}]
  BY <1>2, TimersAssumption DEF Reactors, Time, None
<1> HIDE DEF W, S
<1>4. h \in Reactors
  BY <1>2, <1>3, RecordLemma DEF Reactors
<1>5. h.wheel = W /\ h.slot = S /\ h.elapsed = now /\ h.next = reactor.next /\ h.pending = reactor.pending
  BY <1>2 DEF Reactors
<1> HIDE DEF h
<1>6. \A i \in Rids : /\ i \in Expired => W[i] = None /\ S[i] = NoWaker
                      /\ i \notin Expired => W[i] = reactor.wheel[i] /\ S[i] = reactor.slot[i]
  BY DEF W, S
<1>7. TypeOK'
  BY <1>1, <1>4, TimersAssumption DEF IInv, TypeOK, Time, Fired
<1>8. reactor.pending = NoPending /\ now = cached /\ cached # NotCached
  BY <1>1 DEF IInv, Times
<1>9. ReactorOK(reactor)'
  BY <1>1, <1>4, <1>5, <1>6, <1>8 DEF IInv, ReactorOK
<1>10. Times' /\ NeverEarly' /\ Polled' /\ NoOversleep'
  BY <1>1, <1>5, <1>8, Types DEF IInv, Times, NeverEarly, Polled, NoOversleep
<1>11. WheelAhead'
  BY <1>1, <1>5, <1>6, Types DEF WheelAhead, Expired
<1>12. (~carried => Owned)'
  BY <1>1, <1>5 DEF IInv, Owned
<1>13. WakeSourceKept'
  <2> SUFFICES ASSUME ~carried, NEW t \in Sleeps, st[t] = "pending", t \notin woken \cup Fired
               PROVE  Armed(t)'
    BY <1>1 DEF WakeSourceKept, HasWakeSource
  <2>1. Armed(t) /\ rid[t] \in Rids
    BY DEF IInv, TypeOK, WakeSourceKept, HasWakeSource, Armed
  <2>2. rid[t] \notin Expired
    BY <2>1 DEF Fired, Armed
  <2>3. QED
    BY <1>1, <1>5, <1>6, <2>1, <2>2 DEF Armed
<1>14. QED
  BY <1>7, <1>9, <1>10, <1>11, <1>12, <1>13 DEF IInv

\* Time passes.
LEMMA TickStep ==
  ASSUME IInv, Tick
  PROVE  IInv'
<1>1. /\ clock \in Nat /\ clock' = clock + 1 /\ clock' \in Time
      /\ UNCHANGED <<cached, reactor, deadline, rid, st, ctx, phase, now, until, runs, carried, woken>>
  BY Types, TimersAssumption DEF Tick, IInv, TypeOK, Time, sleepv, parkv, runv
<1>2. TypeOK' /\ ReactorOK(reactor)' /\ Polled'
  BY <1>1 DEF IInv, TypeOK, ReactorOK, Polled
<1>3. Times' /\ NeverEarly'
  BY <1>1, Types DEF IInv, Times, NeverEarly
<1>4. (~carried => Owned)' /\ WakeSourceKept' /\ WheelAhead' /\ NoOversleep'
  BY <1>1 DEF IInv, Owned, WakeSourceKept, HasWakeSource, Armed, WheelAhead, NoOversleep
<1>5. QED
  BY <1>2, <1>3, <1>4 DEF IInv

\* Another runtime: its reactor is empty, and unless ids are carried over no
\* Sleep holds one.
LEMMA NewRuntimeStep ==
  ASSUME IInv, NewRuntime
  PROVE  IInv'
<1>1. /\ phase = "run" /\ runs' = runs + 1 /\ reactor' = NewReactor
      /\ carried' = (carried \/ \E s \in Sleeps : rid[s] # None)
      /\ st' = [s \in Sleeps |-> IF st[s] = "pending" THEN "idle" ELSE st[s]]
      /\ ctx' = [s \in Sleeps |-> NoWaker] /\ woken' = {}
      /\ UNCHANGED <<clock, cached, deadline, rid, phase, now, until>>
  BY DEF NewRuntime, parkv
<1>2. /\ NewReactor \in Reactors /\ NewReactor.elapsed = 0 /\ NewReactor.pending = NoPending
      /\ NewReactor.pending.rid = None /\ \A i \in Rids : NewReactor.wheel[i] = None /\ NewReactor.slot[i] = NoWaker
  BY TimersAssumption DEF NewReactor, Reactors, NoPending, None, Time, Rids
<1>3. TypeOK'
  BY <1>1, <1>2 DEF IInv, TypeOK, SleepStates
<1>4. ReactorOK(reactor)'
  BY <1>1, <1>2 DEF ReactorOK
<1>5. Times'
  BY <1>1, <1>2, Types DEF IInv, Times, TypeOK, Time, NotCached
<1>6. \A s \in Sleeps : st'[s] # "pending" /\ (st'[s] = "done" => st[s] = "done")
  BY <1>1 DEF IInv, TypeOK
<1>7. Polled' /\ NeverEarly' /\ WakeSourceKept' /\ NoOversleep' /\ WheelAhead'
  BY <1>1, <1>2, <1>6 DEF IInv, Polled, NeverEarly, WakeSourceKept, HasWakeSource, NoOversleep, WheelAhead
<1>8. (~carried => Owned)'
  BY <1>1 DEF Owned
<1>9. QED
  BY <1>3, <1>4, <1>5, <1>7, <1>8 DEF IInv

(***************************************************************************)
(* The invariant is inductive.                                             *)
(***************************************************************************)
\* The invariant holds at first ...
LEMMA InitIInv == Init => IInv
<1> SUFFICES ASSUME Init PROVE IInv
  OBVIOUS
<1>1. /\ NewReactor \in Reactors /\ NewReactor.elapsed = 0 /\ NewReactor.pending = NoPending
      /\ NewReactor.pending.rid = None /\ \A i \in Rids : NewReactor.wheel[i] = None /\ NewReactor.slot[i] = NoWaker
  BY TimersAssumption DEF NewReactor, Reactors, NoPending, None, Time, Rids
<1>2. TypeOK
  <2>1. 0 \in Time
    BY TimersAssumption DEF Time
  <2>2. QED
    BY <1>1, <2>1 DEF Init, TypeOK, SleepStates
<1>3. ReactorOK(reactor)
  BY <1>1 DEF Init, ReactorOK
<1>4. Times
  BY <1>1 DEF Init, Times, NotCached
<1>5. Polled /\ NeverEarly /\ WakeSourceKept /\ NoOversleep /\ WheelAhead /\ Owned
  BY <1>1 DEF Init, Polled, NeverEarly, WakeSourceKept, HasWakeSource, NoOversleep, WheelAhead, Owned
<1>6. QED
  BY <1>2, <1>3, <1>4, <1>5 DEF IInv

\* ... and every step keeps it.
LEMMA NextIInv == IInv /\ [Next]_vars => IInv'
<1> SUFFICES ASSUME IInv, [Next]_vars PROVE IInv'
  OBVIOUS
<1>1. CASE Tick
  BY <1>1, TickStep
<1>2. CASE ParkStep
  BY <1>2, ParkBegins, ParkEnds DEF ParkStep
<1>3. CASE NewRuntime
  BY <1>3, NewRuntimeStep
<1>4. ASSUME NEW s \in Sleeps, SleepStep(s)
      PROVE  IInv'
  BY <1>4, NewStep, PollReadyStep, PollRegisterStep, ReleaseStep DEF SleepStep
<1>5. CASE UNCHANGED vars
  BY <1>5 DEF vars, sleepv, parkv, runv, IInv, TypeOK, ReactorOK, Times, Polled, Owned, WakeSourceKept,
              HasWakeSource, Armed, WheelAhead, NeverEarly, NoOversleep
<1>6. QED
  BY <1>1, <1>2, <1>3, <1>4, <1>5 DEF Next

(***************************************************************************)
(* Timers that nobody waits for.                                           *)
(***************************************************************************)
\* The timer of a suspended Sleep, if still armed, has the Sleep's deadline,
\* even where a Sleep from an earlier runtime has interfered.
OwnDeadline(s) ==
  st[s] = "pending" =>
    /\ rid[s] \in Rids /\ rid[s] < reactor.next
    /\ reactor.wheel[rid[s]] \in {None, deadline[s]}

Claimed == NoOrphanTimers /\ \A s \in Sleeps : OwnDeadline(s)

\* What is left of the claims once s has given its timer up: the timers of
\* other Sleeps, the one noted, and those that are due.
LEMMA ReleasedClaims ==
  ASSUME IInv, Claimed, NEW s \in Sleeps
  PROVE  LET g == Released(s) IN
         /\ ReactorOK(g) /\ g.next = reactor.next
         /\ \A j \in Rids : g.wheel[j] \in {None, reactor.wheel[j]}
         /\ \A j \in Rids : g.wheel[j] # None =>
              \/ \E t \in Sleeps \ {s} : st[t] = "pending" /\ rid[t] = j
              \/ j = g.pending.rid
              \/ g.wheel[j] <= clock
<1> DEFINE g == Released(s)
<1>1. /\ ReactorOK(g) /\ g.next = reactor.next
      /\ \A j \in Rids : g.wheel[j] \in {None, reactor.wheel[j]}
  BY ReleasedLemma
<1>2. ASSUME NEW j \in Rids, g.wheel[j] # None
      PROVE  \/ \E t \in Sleeps \ {s} : st[t] = "pending" /\ rid[t] = j
             \/ j = g.pending.rid
             \/ g.wheel[j] <= clock
  <2>1. g.wheel[j] = reactor.wheel[j]
    BY <1>1, <1>2
  <2>2. \/ \E t \in Sleeps : st[t] = "pending" /\ rid[t] = j
        \/ j = reactor.pending.rid
        \/ g.wheel[j] <= clock
    BY <1>2, <2>1 DEF Claimed, NoOrphanTimers
  <2>3. CASE rid[s] = None
    <3>1. g = reactor /\ j # None
      BY <2>3 DEF Released, None, Rids
    <3>2. QED
      BY <2>2, <2>3, <3>1
  <2>4. CASE rid[s] # None
    <3>1. rid[s] \in Rids
      BY <2>4 DEF IInv, TypeOK
    <3>2. g = deregister_timer(reactor, rid[s])
      BY <2>4 DEF Released
    <3> HIDE DEF g
    <3>3. /\ g.wheel[rid[s]] # None => g.pending.rid = rid[s]
          /\ \A k \in Rids : k = reactor.pending.rid => g.wheel[k] = None
      <4>1. ReactorOK(reactor)
        BY DEF IInv
      <4>2. QED
        BY <3>1, <3>2, <4>1, DeregisterLemma, Zenon
    <3>4. QED
      BY <1>2, <2>2, <3>3
  <2>5. QED
    BY <2>3, <2>4
<1>3. QED
  BY <1>1, <1>2

\* A poll that arms a timer claims it.
LEMMA RegisterClaims ==
  ASSUME IInv, Claimed, NEW s \in Sleeps, NEW w \in Wakers, PollRegister(s, w)
  PROVE  Claimed'
<1> DEFINE g == Released(s)
           d == deadline[s]
           h == register_timer(g, d, w)
           i == registered_rid(g, d)
<1>1. /\ ReactorOK(g) /\ g.next = reactor.next
      /\ \A j \in Rids : g.wheel[j] \in {None, reactor.wheel[j]}
      /\ \A j \in Rids : g.wheel[j] # None =>
           \/ \E t \in Sleeps \ {s} : st[t] = "pending" /\ rid[t] = j
           \/ j = g.pending.rid
           \/ g.wheel[j] <= clock
  BY ReleasedClaims
<1> HIDE DEF g
<1>2. d \in Time /\ d # None
  BY Types DEF PollRegister, Due, IInv, TypeOK, None
<1> HIDE DEF d
<1>3. /\ ReactorOK(h) /\ h.next >= g.next
      /\ \A j \in Rids \ {i, g.pending.rid} : h.wheel[j] = g.wheel[j]
      /\ i \in Rids \cup {None}
      /\ i # None => /\ i \in {g.pending.rid, g.next} /\ (i = g.next => i # g.pending.rid)
                     /\ i < h.next /\ h.wheel[i] = d /\ (i = g.pending.rid => g.wheel[i] = d)
      /\ \A j \in Rids : j = g.pending.rid /\ j # i => h.wheel[j] = None
  BY <1>1, <1>2, RegisterLemma
<1>4. /\ reactor' = h /\ rid' = [rid EXCEPT ![s] = i]
      /\ st' = [st EXCEPT ![s] = IF i # None THEN "pending" ELSE "failed"]
      /\ UNCHANGED <<clock, deadline>>
  BY DEF PollRegister, IInv, TypeOK, g, d
<1> HIDE DEF h, i
<1>5. rid \in [Sleeps -> Rids \cup {None}] /\ st \in [Sleeps -> SleepStates] /\ None \notin Rids
  BY DEF IInv, TypeOK, None, Rids
<1>6. g.next \in Nat /\ h.next \in Nat /\ Rids \subseteq Nat /\ h.next >= g.next
  BY <1>1, <1>3 DEF ReactorOK, Reactors, Rids
<1>7. ASSUME NEW t \in Sleeps PROVE OwnDeadline(t)'
  <2>1. CASE t = s
    BY <1>3, <1>4, <1>5, <2>1 DEF OwnDeadline, d
  <2>2. CASE t # s /\ st[t] = "pending"
    <3>1. rid[t] \in Rids /\ rid[t] < g.next /\ g.wheel[rid[t]] \in {None, deadline[t]}
      BY <1>1, <2>2 DEF Claimed, OwnDeadline
    <3>2. rid[t] < h.next
      <4>1. rid[t] \in Nat /\ rid[t] < g.next
        BY <1>6, <3>1
      <4>2. \A a, b, c \in Nat : a < b /\ c >= b => a < c
        OBVIOUS
      <4>3. QED
        BY <1>6, <4>1, <4>2, Zenon
    <3>3. rid[t] # g.next
      BY <1>6, <3>1
    <3>4. h.wheel[rid[t]] \in {None, g.wheel[rid[t]]}
      BY <1>3, <1>5, <3>1, <3>3
    <3>5. QED
      BY <1>4, <1>5, <2>2, <3>1, <3>2, <3>4 DEF OwnDeadline
  <2>3. CASE t # s /\ st[t] # "pending"
    BY <1>4, <1>5, <2>3 DEF OwnDeadline
  <2>4. QED
    BY <2>1, <2>2, <2>3
<1>8. NoOrphanTimers'
  <2> SUFFICES ASSUME NEW j \in Rids, h.wheel[j] # None, j # i
               PROVE  \/ \E t \in Sleeps \ {s} : st[t] = "pending" /\ rid[t] = j
                      \/ h.wheel[j] <= clock
    BY <1>4, <1>5 DEF NoOrphanTimers
  <2>1. j # g.pending.rid /\ h.wheel[j] = g.wheel[j]
    BY <1>3
  <2>2. QED
    BY <1>1, <2>1
<1>9. QED
  BY <1>7, <1>8 DEF Claimed

\* Every step keeps the claims.
LEMMA ClaimedStep == IInv /\ Claimed /\ [Next]_vars => Claimed'
<1> SUFFICES ASSUME IInv, Claimed, [Next]_vars PROVE Claimed'
  OBVIOUS
<1>0. /\ rid \in [Sleeps -> Rids \cup {None}] /\ st \in [Sleeps -> SleepStates] /\ None \notin Rids
      /\ deadline \in [Sleeps -> Time] /\ ReactorOK(reactor)
  BY DEF IInv, TypeOK, None, Rids
<1>1. CASE Tick
  <2>1. clock' = clock + 1 /\ UNCHANGED <<reactor, deadline, rid, st>>
    BY <1>1 DEF Tick, sleepv
  <2>2. \A j \in Rids : reactor.wheel[j] <= clock => reactor.wheel[j] <= clock'
    BY <2>1, Types
  <2>3. QED
    BY <2>1, <2>2 DEF Claimed, NoOrphanTimers, OwnDeadline
<1>2. ASSUME NEW t \in {0, ParkTimeout}, park(t) PROVE Claimed'
  <2> DEFINE r == flush_pending_deregister(reactor)
  <2>1. /\ r.next = reactor.next /\ Within(reactor, r, {reactor.pending.rid})
        /\ \A j \in Rids : j = reactor.pending.rid => r.wheel[j] = None
    BY <1>0, FlushLemma
  <2>2. reactor' = r /\ UNCHANGED <<clock, deadline, rid, st>>
    BY <1>2 DEF park, sleepv
  <2> HIDE DEF r
  <2>3. NoOrphanTimers'
    BY <2>1, <2>2 DEF Claimed, NoOrphanTimers, Within
  <2>4. \A s \in Sleeps : OwnDeadline(s)'
    BY <2>1, <2>2 DEF Claimed, OwnDeadline, Within
  <2>5. QED
    BY <2>3, <2>4 DEF Claimed
<1>3. CASE wake_expired_timers
  <2>1. /\ reactor'.next = reactor.next /\ reactor'.pending = reactor.pending
        /\ \A j \in Rids : reactor'.wheel[j] \in {None, reactor.wheel[j]}
        /\ UNCHANGED <<clock, deadline, rid, st>>
    BY <1>0, <1>3 DEF wake_expired_timers, sleepv, ReactorOK, Reactors
  <2>2. QED
    BY <2>1 DEF Claimed, NoOrphanTimers, OwnDeadline
<1>4. CASE NewRuntime
  <2>1. reactor' = NewReactor /\ \A s \in Sleeps : st'[s] # "pending"
    BY <1>0, <1>4 DEF NewRuntime
  <2>2. \A j \in Rids : NewReactor.wheel[j] = None
    BY DEF NewReactor
  <2>3. QED
    BY <2>1, <2>2 DEF Claimed, NoOrphanTimers, OwnDeadline
<1>5. ASSUME NEW s \in Sleeps, NEW d \in Time, new(s, d) PROVE Claimed'
  BY <1>0, <1>5 DEF new, Claimed, NoOrphanTimers, OwnDeadline
<1>6. ASSUME NEW s \in Sleeps, PollReady(s) PROVE Claimed'
  <2>1. /\ st' = [st EXCEPT ![s] = "done"] /\ rid' = [rid EXCEPT ![s] = None]
        /\ UNCHANGED <<clock, reactor, deadline>>
    BY <1>6 DEF PollReady
  <2>2. deadline[s] <= clock
    BY <1>6, Types DEF PollReady, Due
  <2>3. st[s] = "pending" => reactor.wheel[rid[s]] \in {None, deadline[s]}
    BY DEF Claimed, OwnDeadline
  <2>4. NoOrphanTimers'
    BY <1>0, <2>1, <2>2, <2>3 DEF Claimed, NoOrphanTimers
  <2>5. QED
    BY <1>0, <2>1, <2>4 DEF Claimed, OwnDeadline
<1>7. ASSUME NEW s \in Sleeps, NEW w \in Wakers, PollRegister(s, w) PROVE Claimed'
  BY <1>7, RegisterClaims
<1>8. ASSUME NEW s \in Sleeps, drop(s) \/ \E d \in Time : reset(s, d) PROVE Claimed'
  <2> DEFINE g == Released(s)
  <2>1. /\ reactor' = g /\ rid' = [rid EXCEPT ![s] = None]
        /\ st'[s] # "pending" /\ st' = [st EXCEPT ![s] = st'[s]]
        /\ deadline' = [deadline EXCEPT ![s] = deadline'[s]]
        /\ UNCHANGED clock
    BY <1>0, <1>8 DEF drop, reset
  <2>2. /\ g.next = reactor.next
        /\ \A j \in Rids : g.wheel[j] \in {None, reactor.wheel[j]}
        /\ \A j \in Rids : g.wheel[j] # None =>
             \/ \E t \in Sleeps \ {s} : st[t] = "pending" /\ rid[t] = j
             \/ j = g.pending.rid
             \/ g.wheel[j] <= clock
    BY ReleasedClaims
  <2> HIDE DEF g
  <2>3. \A t \in Sleeps \ {s} : st'[t] = st[t] /\ rid'[t] = rid[t] /\ deadline'[t] = deadline[t]
    BY <1>0, <2>1
  <2>4. NoOrphanTimers'
    BY <2>1, <2>2, <2>3 DEF NoOrphanTimers
  <2>5. \A t \in Sleeps : OwnDeadline(t)'
    BY <2>1, <2>2, <2>3 DEF Claimed, OwnDeadline
  <2>6. QED
    BY <2>4, <2>5 DEF Claimed
<1>9. CASE UNCHANGED vars
  BY <1>9 DEF vars, sleepv, Claimed, NoOrphanTimers, OwnDeadline
<1>10. QED
  BY <1>1, <1>2, <1>3, <1>4, <1>5, <1>6, <1>7, <1>8, <1>9 DEF Next, ParkStep, SleepStep

(***************************************************************************)
(* The theorems.                                                           *)
(***************************************************************************)
\* The types of the reactor, the Sleeps and the park, ids at their limit and
\* the clock at its bound included.
THEOREM TimersTypes == Spec => []TypeOK
<1>1. IInv => TypeOK
  BY DEF IInv
<1>2. QED
  BY <1>1, InitIInv, NextIInv, PTL DEF Spec

\* For any Sleeps, wakers, ids, runtimes and instants: a suspended Sleep keeps
\* its wake source as long as none outlives the runtime in which it armed a
\* timer.
THEOREM SleepsWoken == Spec => []WakeSourceKept
<1>1. IInv => WakeSourceKept
  BY DEF IInv
<1>2. QED
  BY <1>1, InitIInv, NextIInv, PTL DEF Spec

\* The thread does not sleep past the deadline of a suspended Sleep.
THEOREM NeverSleepsTooLong == Spec => []NoOversleep
<1>1. IInv => NoOversleep
  BY DEF IInv
<1>2. QED
  BY <1>1, InitIInv, NextIInv, PTL DEF Spec

\* No Sleep completes early, in whatever order runtimes are replaced, parks
\* begin and end and Sleeps are polled.
THEOREM TimersOnTime == Spec => []NeverEarly
<1>1. IInv => NeverEarly
  BY DEF IInv
<1>2. QED
  BY <1>1, InitIInv, NextIInv, PTL DEF Spec

\* The wheel and the slots agree, cancelled Sleeps leave no timer behind and the
\* wheel accepts every timer that is registered -- also when a Sleep has carried
\* its id into another runtime.
THEOREM TimersConsistent == Spec => []WheelSound
<1>1. Init => Claimed
  <2>1. \A j \in Rids : NewReactor.wheel[j] = None
    BY DEF NewReactor
  <2>2. QED
    BY <2>1 DEF Init, Claimed, NoOrphanTimers, OwnDeadline
<1>2. IInv /\ Claimed => WheelSound
  BY DEF IInv, ReactorOK, Claimed, WheelSound, WheelMatchesSlots
<1>3. QED
  BY <1>1, <1>2, InitIInv, NextIInv, ClaimedStep, PTL DEF Spec

=============================================================================

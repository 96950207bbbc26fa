---------------------------- MODULE BlockingPool ----------------------------
(***************************************************************************)
(* lion-executor/src/blocking.rs: threads that each drain a queue of their *)
(* own and then sleep in thread::park, and spawn, which any thread may     *)
(* call on the one global pool.  The pool claims Sync while the round-     *)
(* robin position is a Cell, so its read and its write may be torn apart   *)
(* by another spawn.  A closure that panics ends its thread.               *)
(***************************************************************************)
EXTENDS JoinHandle, Integers, Sequences

CONSTANTS
  PoolSize,    \* num_threads
  Spawners     \* threads that call spawn

PoolThreads == 0..(PoolSize - 1)
NoJob == "none"
ASSUME PoolAssumption == PoolSize \in Nat \ {0} /\ NoJob \notin Jobs

VARIABLES
  position,   \* BlockingPool::next
  pqueue,     \* Worker::queue
  running,    \* each thread: the closure it calls
  pstate,     \* each thread: about to pop, to park, parked, calling a closure, ended
  token,      \* std: an unpark that no park has used up
  spc,        \* each spawner: idle, or what it does next: set, push, unpark
  sidx, sjob, \* each spawner: the thread it chose, the job it spawns
  given       \* history: the jobs that were given to the pool

poolv == <<position, pqueue, running, pstate, token, spc, sidx, sjob, given>>

PoolTypeOK ==
  /\ JoinTypeOK
  /\ position \in 0..PoolSize
  /\ pqueue \in [PoolThreads -> Seq(Jobs)] /\ running \in [PoolThreads -> Jobs \cup {NoJob}]
  /\ pstate \in [PoolThreads -> {"pop", "empty", "parked", "call", "ended"}]
  /\ token \in [PoolThreads -> BOOLEAN]
  /\ spc \in [Spawners -> {"idle", "set", "push", "unpark"}]
  /\ sidx \in [Spawners -> PoolThreads] /\ sjob \in [Spawners -> Jobs \cup {NoJob}]
  /\ given \subseteq Jobs

PoolInit ==
  /\ JoinInit
  /\ position = 0
  /\ pqueue = [p \in PoolThreads |-> <<>>] /\ running = [p \in PoolThreads |-> NoJob]
  /\ pstate = [p \in PoolThreads |-> "pop"] /\ token = [p \in PoolThreads |-> FALSE]
  /\ spc = [s \in Spawners |-> "idle"] /\ sidx = [s \in Spawners |-> 0]
  /\ sjob = [s \in Spawners |-> NoJob] /\ given = {}

(***************************************************************************)
(* BlockingPool::spawn                                                     *)
(***************************************************************************)
pool_spawn(s, j) ==
  /\ spc[s] = "idle"
  /\ new_join(j)
  /\ sidx' = [sidx EXCEPT ![s] = position % PoolSize] /\ sjob' = [sjob EXCEPT ![s] = j]
  /\ spc' = [spc EXCEPT ![s] = "set"] /\ given' = given \cup {j}
  /\ UNCHANGED <<position, pqueue, running, pstate, token>>

SpawnSet(s) ==
  /\ spc[s] = "set"
  /\ position' = sidx[s] + 1
  /\ spc' = [spc EXCEPT ![s] = "push"]
  /\ UNCHANGED <<joinv, pqueue, running, pstate, token, sidx, sjob, given>>

SpawnPush(s) ==
  /\ spc[s] = "push"
  /\ pqueue' = [pqueue EXCEPT ![sidx[s]] = Append(@, sjob[s])]
  /\ spc' = [spc EXCEPT ![s] = "unpark"]
  /\ UNCHANGED <<joinv, position, running, pstate, token, sidx, sjob, given>>

\* Faulty variant: a thread that is not parked is not told.
SpawnUnpark_sleeping(s) ==
  /\ spc[s] = "unpark"
  /\ token' = [token EXCEPT ![sidx[s]] = @ \/ pstate[sidx[s]] = "parked"]
  /\ spc' = [spc EXCEPT ![s] = "idle"] /\ sjob' = [sjob EXCEPT ![s] = NoJob]
  /\ UNCHANGED <<joinv, position, pqueue, running, pstate, sidx, given>>

SpawnUnpark(s) ==
  /\ spc[s] = "unpark"
  /\ token' = [token EXCEPT ![sidx[s]] = TRUE]
  /\ spc' = [spc EXCEPT ![s] = "idle"] /\ sjob' = [sjob EXCEPT ![s] = NoJob]
  /\ UNCHANGED <<joinv, position, pqueue, running, pstate, sidx, given>>

(***************************************************************************)
(* The threads.                                                            *)
(***************************************************************************)
PoolPop(p) ==
  /\ pstate[p] = "pop" /\ pqueue[p] # <<>>
  /\ running' = [running EXCEPT ![p] = Head(pqueue[p])]
  /\ pqueue' = [pqueue EXCEPT ![p] = Tail(@)]
  /\ pstate' = [pstate EXCEPT ![p] = "call"]
  /\ UNCHANGED <<joinv, position, token, spc, sidx, sjob, given>>

\* The queue was empty, its lock is released, and park is still to be called.
PoolEmpty(p) ==
  /\ pstate[p] = "pop" /\ pqueue[p] = <<>>
  /\ pstate' = [pstate EXCEPT ![p] = "empty"]
  /\ UNCHANGED <<joinv, position, pqueue, running, token, spc, sidx, sjob, given>>

PoolPark(p) ==
  /\ pstate[p] = "empty"
  /\ pstate' = [pstate EXCEPT ![p] = "parked"]
  /\ UNCHANGED <<joinv, position, pqueue, running, token, spc, sidx, sjob, given>>

\* thread::park returns when there is a token, and uses it up.
PoolUnparked(p) ==
  /\ pstate[p] = "parked" /\ token[p]
  /\ token' = [token EXCEPT ![p] = FALSE]
  /\ pstate' = [pstate EXCEPT ![p] = "pop"]
  /\ UNCHANGED <<joinv, position, pqueue, running, spc, sidx, sjob, given>>

PoolDone(p) ==
  /\ pstate[p] = "call"
  /\ complete(running[p])
  /\ running' = [running EXCEPT ![p] = NoJob]
  /\ pstate' = [pstate EXCEPT ![p] = "pop"]
  /\ UNCHANGED <<position, pqueue, token, spc, sidx, sjob, given>>

\* The closure panics: its JoinSender is dropped and the thread ends.
PoolPanic(p) ==
  /\ pstate[p] = "call"
  /\ running' = [running EXCEPT ![p] = NoJob]
  /\ pstate' = [pstate EXCEPT ![p] = "ended"]
  /\ UNCHANGED <<joinv, position, pqueue, token, spc, sidx, sjob, given>>

PoolThread(p) == PoolPop(p) \/ PoolEmpty(p) \/ PoolPark(p) \/ PoolUnparked(p) \/ PoolDone(p)
Spawning(s) == SpawnSet(s) \/ SpawnPush(s) \/ SpawnUnpark(s)

PoolNext ==
  \/ \E s \in Spawners : Spawning(s) \/ \E j \in Jobs : pool_spawn(s, j)
  \/ \E p \in PoolThreads : PoolThread(p) \/ PoolPanic(p)
  \/ PollJoin /\ UNCHANGED poolv

PoolSpec == PoolInit /\ [][PoolNext]_<<joinv, poolv>>

(***************************************************************************)
(* Properties.                                                             *)
(***************************************************************************)
\* No living thread sleeps on a job: it has an unpark left over or a spawner is about
\* to give it one.
NoSleepOnJob ==
  \A p \in PoolThreads : pqueue[p] # <<>> /\ pstate[p] = "parked" =>
    token[p] \/ \E s \in Spawners : spc[s] = "unpark" /\ sidx[s] = p

\* The jobs that a spawner has still to push, that are queued, that are running.
Holding == {s \in Spawners : spc[s] \in {"set", "push"}}
Held == {sjob[s] : s \in Holding}
Waiting == UNION {{pqueue[p][i] : i \in DOMAIN pqueue[p]} : p \in PoolThreads}
Running == {running[p] : p \in PoolThreads} \ {NoJob}
Unanswered == {j \in given : join[j] \in {"idle", "pending"} /\ j \notin result}

\* However spawns and threads interleave, a job is in one place at a time and in none
\* once it has its result, so that no closure is called twice; and as long as no
\* thread has panicked, every job without a result is in such a place.
JobsOnce ==
  /\ \A s, t \in Holding : sjob[s] = sjob[t] => s = t
  /\ \A p, q \in PoolThreads : \A i \in DOMAIN pqueue[p], k \in DOMAIN pqueue[q] :
       pqueue[p][i] = pqueue[q][k] => p = q /\ i = k
  /\ \A p, q \in PoolThreads : running[p] = running[q] /\ running[p] # NoJob => p = q
  /\ Held \cap Waiting = {} /\ Held \cap Running = {} /\ Waiting \cap Running = {}
  /\ Held \cup Waiting \cup Running \subseteq Unanswered
  /\ (\A p \in PoolThreads : pstate[p] # "ended") => Unanswered \subseteq Held \cup Waiting \cup Running

\* Both: every job is run, and once.
PoolServed == NoSleepOnJob /\ JobsOnce

=============================================================================

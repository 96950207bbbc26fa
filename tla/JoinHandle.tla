----------------------------- MODULE JoinHandle -----------------------------
(***************************************************************************)
(* lion-executor/src/types/join_handle.rs: a result and a waker under one  *)
(* std mutex, shared by the JoinHandle that is awaited and the JoinSender  *)
(* that the job completes.  A JoinSender that is dropped (the job panicked *)
(* or its executor is gone) leaves no trace, and abort does nothing.       *)
(***************************************************************************)
CONSTANTS
  Jobs,        \* spawned tasks and blocking closures
  Joiners      \* wakers that JoinHandles are polled with

NoJoiner == "none"
ASSUME JoinersAssumption == NoJoiner \notin Joiners

VARIABLES
  result,   \* JoinState::result: jobs whose result is stored
  jwaker,   \* JoinState::waker
  join,     \* each JoinHandle: not spawned, not polled, pending, answered
  jctx,     \* waker of the latest poll
  jwoken    \* history: handles whose latest waker was called since their latest poll

joinv == <<result, jwaker, join, jctx, jwoken>>

JoinTypeOK ==
  /\ result \subseteq Jobs /\ jwoken \subseteq Jobs
  /\ jwaker \in [Jobs -> Joiners \cup {NoJoiner}] /\ jctx \in [Jobs -> Joiners \cup {NoJoiner}]
  /\ join \in [Jobs -> {"none", "idle", "pending", "answered"}]

JoinInit ==
  /\ result = {} /\ jwoken = {}
  /\ jwaker = [j \in Jobs |-> NoJoiner] /\ jctx = [j \in Jobs |-> NoJoiner]
  /\ join = [j \in Jobs |-> "none"]

\* JoinHandle::new
new_join(j) ==
  /\ join[j] = "none"
  /\ join' = [join EXCEPT ![j] = "idle"]
  /\ UNCHANGED <<result, jwaker, jctx, jwoken>>

JoinReady(j) ==
  /\ join[j] \in {"idle", "pending"} /\ j \in result
  /\ result' = result \ {j}
  /\ join' = [join EXCEPT ![j] = "answered"] /\ jwoken' = jwoken \ {j}
  /\ UNCHANGED <<jwaker, jctx>>

\* Faulty variant: the waker of the first poll is kept.
JoinPending_first(j, w) ==
  /\ join[j] \in {"idle", "pending"} /\ j \notin result
  /\ jwaker' = [jwaker EXCEPT ![j] = IF @ = NoJoiner THEN w ELSE @]
  /\ jctx' = [jctx EXCEPT ![j] = w]
  /\ join' = [join EXCEPT ![j] = "pending"] /\ jwoken' = jwoken \ {j}
  /\ UNCHANGED result

JoinPending(j, w) ==
  /\ join[j] \in {"idle", "pending"} /\ j \notin result
  /\ jwaker' = [jwaker EXCEPT ![j] = w]
  /\ jctx' = [jctx EXCEPT ![j] = w]
  /\ join' = [join EXCEPT ![j] = "pending"] /\ jwoken' = jwoken \ {j}
  /\ UNCHANGED result

\* Dropping a JoinHandle changes nothing; a handle that is not polled stands for it.
PollJoin == \E j \in Jobs : JoinReady(j) \/ \E w \in Joiners : JoinPending(j, w)

\* JoinSender::complete; the waker is called under the mutex.
complete(j) ==
  /\ result' = result \cup {j}
  /\ jwaker' = [jwaker EXCEPT ![j] = NoJoiner]
  /\ jwoken' = IF join[j] = "pending" /\ jwaker[j] = jctx[j] THEN jwoken \cup {j} ELSE jwoken
  /\ UNCHANGED <<join, jctx>>

(***************************************************************************)
(* Properties.                                                             *)
(***************************************************************************)
\* A task that awaits a JoinHandle is registered with the waker of its latest poll
\* until the result is there, and has then been woken through it.
JoinAnswered ==
  \A j \in Jobs : join[j] = "pending" => IF j \in result THEN j \in jwoken ELSE jwaker[j] = jctx[j]

=============================================================================

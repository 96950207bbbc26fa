------------------------------ MODULE Scheduler ------------------------------
(***************************************************************************)
(* What a runtime promises its tasks, with no queues, flags or threads:    *)
(* tasks are run one at a time, a finished task never again, a wake stays  *)
(* in force until the task is run, and while block_on runs every new and   *)
(* every woken task is run.                                                *)
(***************************************************************************)
CONSTANT Task

VARIABLES
  status,   \* of each task
  woken,    \* tasks woken and not run since
  active    \* some block_on is running

svars == <<status, woken, active>>

Statuses == {"none", "new", "idle", "running", "done"}

SInit ==
  /\ status = [t \in Task |-> "none"]
  /\ woken = {}
  /\ active = FALSE

\* A spawn takes effect.
Create(t) ==
  /\ status[t] = "none"
  /\ status' = [status EXCEPT ![t] = "new"]
  /\ UNCHANGED <<woken, active>>

\* A task that exists may be woken at any time, also while it runs.
Wake(t) ==
  /\ status[t] \in {"idle", "running"}
  /\ woken' = woken \cup {t}
  /\ UNCHANGED <<status, active>>

\* A task may also be run without having been woken.
Run(t) ==
  /\ active /\ status[t] \in {"new", "idle"}
  /\ \A u \in Task : status[u] # "running"
  /\ status' = [status EXCEPT ![t] = "running"]
  /\ woken' = woken \ {t}
  /\ UNCHANGED active

Suspend(t) ==
  /\ status[t] = "running"
  /\ status' = [status EXCEPT ![t] = "idle"]
  /\ UNCHANGED <<woken, active>>

Finish(t) ==
  /\ status[t] = "running"
  /\ status' = [status EXCEPT ![t] = "done"]
  /\ woken' = woken \ {t}
  /\ UNCHANGED active

Enter == ~active /\ active' = TRUE /\ UNCHANGED <<status, woken>>

Leave ==
  /\ active /\ active' = FALSE
  /\ \A t \in Task : status[t] # "running"
  /\ UNCHANGED <<status, woken>>

\* The runtime is replaced by a new one.
Reset ==
  /\ ~active
  /\ status' = [t \in Task |-> "none"] /\ woken' = {}
  /\ UNCHANGED active

SNext ==
  \/ \E t \in Task : Create(t) \/ Wake(t) \/ Run(t) \/ Suspend(t) \/ Finish(t)
  \/ Enter \/ Leave \/ Reset

SSafe == SInit /\ [][SNext]_svars

Due(t) == status[t] = "new" \/ (status[t] = "idle" /\ t \in woken)

Promise == \A t \in Task : (active /\ Due(t)) ~> (status[t] = "running" \/ ~active)

SSpec == SSafe /\ Promise

=============================================================================

------------------------------ MODULE MCParts ------------------------------
(***************************************************************************)
(* Parts of the system that share no state, side by side: kind says which  *)
(* one a behaviour is about, and the variables of the others keep their    *)
(* initial values.                                                         *)
(***************************************************************************)
EXTENDS Watch, Broadcast, MultiRuntime, BlockingPool, TimerWheel

VARIABLE kind

Kinds == {"watch", "broadcast", "oneshot", "multi", "pool", "wheel"}

vars == <<svars, watchv, ringv, oneshotv, joinv, multiv, poolv, wheelv, kind>>

TypeOK ==
  /\ kind \in Kinds
  /\ WatchTypeOK /\ RingTypeOK /\ MultiTypeOK /\ PoolTypeOK /\ WheelTypeOK

Init ==
  /\ kind \in Kinds
  /\ IF kind = "broadcast" THEN BroadcastInit /\ CallsInit ELSE WatchInit /\ RingInit
  /\ kind # "watch" => ~value
  /\ MultiInit /\ PoolInit /\ WheelInit

Next ==
  /\ UNCHANGED kind
  /\ \/ kind = "watch" /\ WatchNext /\ UNCHANGED <<ringv, oneshotv, joinv, multiv, poolv, wheelv>>
     \/ kind = "broadcast" /\ BroadcastNext /\ UNCHANGED <<watchv, oneshotv, joinv, multiv, poolv, wheelv>>
     \/ kind = "oneshot" /\ OneshotNext /\ UNCHANGED <<svars, watchv, ringv, joinv, multiv, poolv, wheelv>>
     \/ kind = "multi" /\ MultiNext /\ UNCHANGED <<svars, watchv, ringv, poolv, wheelv>>
     \/ kind = "pool" /\ PoolNext /\ UNCHANGED <<svars, watchv, ringv, oneshotv, multiv, wheelv>>
     \/ kind = "wheel" /\ WheelNext /\ UNCHANGED <<svars, watchv, ringv, oneshotv, joinv, multiv, poolv>>

\* The worker threads run, and so does the thread that drops the MultiRuntime.
Multi(A) == kind = "multi" /\ A /\ UNCHANGED <<svars, watchv, ringv, poolv, wheelv, kind>>

Spec ==
  /\ Init /\ [][Next]_vars
  /\ WF_vars(Multi(DropStep)) /\ \A w \in Workers : WF_vars(Multi(WorkerStep(w)))

=============================================================================

----------------------------- MODULE Broadcast -----------------------------
(***************************************************************************)
(* lion-utility/src/sync/broadcast.rs over broadcast_kernel.rs: a ring of  *)
(* the latest values, each with its sequence number, and receivers with a  *)
(* cursor.  A value is its sequence number.  The kernel counts the ring's  *)
(* slots and decides from the count; the ring itself is kept beside it.    *)
(***************************************************************************)
EXTENDS Subscribers

CONSTANTS
  Capacity,           \* of the ring
  MaxSenders          \* bound: Sender handles

ASSUME RingAssumption == Capacity \in Nat \ {0} /\ MaxSenders \in Nat

VARIABLES
  buffered,      \* BroadcastKernel::buffered
  buffer,        \* the ring's slots, oldest first
  sender_count

ringv == <<buffered, buffer, sender_count>>
bvars == <<svars, ringv>>

RingTypeOK ==
  /\ buffered \in 0..Capacity /\ buffer \in Seq(Nat) /\ Len(buffer) <= Capacity
  /\ sender_count \in Nat

RingInit == buffered = 0 /\ buffer = <<>> /\ sender_count = 1
BroadcastInit == SubscribersInit(0) /\ RingInit

Oldest == version - buffered

\* Faulty variant: the ring makes room one slot too early.
send_early_pop ==
  /\ sender_count > 0 /\ ~closed /\ version < MaxVersion
  /\ version' = version + 1
  /\ buffered' = IF buffered < Capacity THEN buffered + 1 ELSE buffered
  /\ buffer' = Append(IF Len(buffer) + 1 = Capacity THEN Tail(buffer) ELSE buffer, version)
  /\ wake_all
  /\ UNCHANGED <<closed, rxs, sender_count>>

\* Faulty variant: the ring never makes room.
send_grows ==
  /\ sender_count > 0 /\ ~closed /\ version < MaxVersion
  /\ version' = version + 1
  /\ buffered' = IF buffered < Capacity THEN buffered + 1 ELSE buffered
  /\ buffer' = Append(buffer, version)
  /\ wake_all
  /\ UNCHANGED <<closed, rxs, sender_count>>

\* Sender::send; the receivers it counts are not used.
broadcast_send ==
  /\ sender_count > 0 /\ ~closed /\ version < MaxVersion
  /\ version' = version + 1
  /\ buffered' = IF buffered < Capacity THEN buffered + 1 ELSE buffered
  /\ buffer' = Append(IF Len(buffer) = Capacity THEN Tail(buffer) ELSE buffer, version)
  /\ wake_all
  /\ UNCHANGED <<closed, rxs, sender_count>>

\* Clone for Sender
broadcast_clone_sender ==
  /\ sender_count \in 1..(MaxSenders - 1)
  /\ sender_count' = sender_count + 1
  /\ UNCHANGED <<svars, buffered, buffer>>

\* Drop for Sender: the last one closes the channel.
broadcast_drop_sender ==
  /\ sender_count > 0
  /\ sender_count' = sender_count - 1
  /\ IF sender_count = 1
     THEN closed' = TRUE /\ wake_all /\ UNCHANGED <<version, rxs>>
     ELSE UNCHANGED svars
  /\ UNCHANGED <<buffered, buffer>>

\* recv_step, Lagged or Ready, and the cursor the caller keeps.
recv_step(f) ==
  \/ seen[f] < Oldest /\ See(f, Oldest)
  \/ seen[f] >= Oldest /\ seen[f] < version /\ See(f, seen[f] + 1)

\* try_recv; with nothing to receive it changes nothing.
try_recv(f) ==
  /\ fut[f] = "idle"
  /\ recv_step(f)
  /\ UNCHANGED <<version, closed, wait, fut, ctx, woken, ringv>>

\* Recv::poll, a value or the number of values missed.
RecvReady(f) ==
  /\ fut[f] \in {"idle", "pending"}
  /\ recv_step(f)
  /\ Become(f, "done") /\ Ended(f)
  /\ UNCHANGED <<version, closed, wait, ringv>>

\* Recv::poll, nothing to receive: Closed or Pending.
RecvNone(f, w) ==
  /\ seen[f] = version
  /\ Closed(f) \/ Park(f, w) \/ Again(f, w)
  /\ UNCHANGED ringv

\* Sender::subscribe and Receiver::resubscribe
broadcast_subscribe(f) ==
  /\ sender_count > 0 \/ \E g \in Futures : fut[g] = "idle"
  /\ NewReceiver(f, version)

BroadcastReceiver(f) ==
  \/ try_recv(f) \/ RecvReady(f)
  \/ \E w \in Wakers : RecvNone(f, w)
  \/ /\ \/ DropFuture(f) \/ broadcast_subscribe(f) \/ DropReceiver(f)
        \/ \E g \in Futures : CloneReceiver(f, g)
     /\ UNCHANGED ringv

BroadcastNext ==
  \/ broadcast_send \/ broadcast_clone_sender \/ broadcast_drop_sender
  \/ \E f \in Futures : BroadcastReceiver(f)
  \/ \E f \in Futures, w \in Wakers : Wake(f, w) /\ UNCHANGED ringv

BroadcastSpec == BroadcastInit /\ [][BroadcastNext]_bvars

(***************************************************************************)
(* Properties.                                                             *)
(***************************************************************************)
\* The slot of every number the kernel answers Ready for is in the ring
\* ("the glue holds the real T ring and moves in lockstep"), so that val.unwrap()
\* never panics with the mutex held, and no cursor runs ahead of what was sent.
ReadyIsBuffered ==
  \A f \in Futures : fut[f] # "none" =>
    /\ seen[f] <= version
    /\ \A n \in Oldest..(version - 1) : n >= seen[f] => \E i \in DOMAIN buffer : buffer[i] = n

=============================================================================

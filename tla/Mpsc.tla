-------------------------------- MODULE Mpsc --------------------------------
(***************************************************************************)
(* lion-utility/src/sync/mpsc.rs: the bounded and the unbounded channel,   *)
(* over a ChannelKernel (channel_kernel.rs) that counts slots and two      *)
(* WaiterKernels, one for the receiver and one for senders that wait for a *)
(* slot.  Sender, Receiver and their futures are used from several         *)
(* threads.                                                                *)
(*                                                                         *)
(* Every operation is one critical section of the std mutex, which decides *)
(* everything, and then calls the waker it took, with the mutex released:  *)
(* one step each.  A value is counted, not looked at.  A sender gets a new *)
(* id each time it parks, and has at most one id in the kernel's queue, so *)
(* the future stands for it.                                               *)
(***************************************************************************)
EXTENDS Integers, Sequences, FiniteSets

CONSTANTS
  Futures,      \* Send and Reserve futures, and the Permits of the latter
  Wakers,       \* wakers that futures are polled with (one per task)
  Capacities,   \* capacities given to channel()
  U64Max,       \* the capacity of an unbounded channel
  MaxBuffered,  \* bound: values in an unbounded channel
  MaxSenders,   \* bound: Sender handles
  MaxHints      \* bound: stored wakes of the receiver's kernel

NoWaker == "none"
Rx == "rx"      \* the Recv future; a Receiver has at most one

ASSUME FuturesAssumption == IsFiniteSet(Futures) /\ Rx \notin Futures
ASSUME WakersAssumption == NoWaker \notin Wakers
ASSUME CapacityAssumption == Capacities \subseteq Nat \ {0} /\ U64Max \in Nat \ Capacities
ASSUME BoundsAssumption == /\ MaxBuffered \in 0 .. U64Max
                           /\ MaxSenders \in Nat /\ MaxHints \in Nat

VARIABLES
  capacity, buffered, reserved,   \* ChannelKernel
  buffer,                         \* number of values in the VecDeque
  tx_permit, tx_queue,            \* tx_kernel
  entry,                          \* tx_wakers: the waker stored for each parked sender
  rx_permit, rx_queue,            \* rx_kernel
  rx_waker,
  sender_count, rx_closed,
  fut,         \* each sender future: none or not polled yet, a Send or Reserve
               \* that is pending, one that returned Err after it was parked,
               \* a Permit
  recv,        \* the Recv future: none or not polled yet, pending, finished after it
               \* was parked; "gone" when the Receiver is dropped
  ctx,         \* waker of the latest poll of each future
  waking,      \* wakers being called, the mutex released
  woken        \* history: futures whose latest waker was called since their latest poll

slots == <<capacity, buffered, reserved, buffer>>
txv == <<tx_permit, tx_queue, entry>>
rxv == <<rx_permit, rx_queue, rx_waker>>
handles == <<sender_count, rx_closed>>
vars == <<slots, txv, rxv, handles, fut, recv, ctx, waking, woken>>

tx == INSTANCE WaiterKernel WITH permit <- tx_permit, queue <- tx_queue
rx == INSTANCE WaiterKernel WITH Futures <- {Rx}, permit <- rx_permit, queue <- rx_queue

Pending == {f \in Futures : fut[f] \in {"send", "reserve"}}

TypeOK ==
  /\ capacity \in Capacities \cup {U64Max}
  /\ buffered \in Nat /\ reserved \in Nat /\ buffer \in Nat
  /\ tx_permit \in Nat /\ tx_queue \in Seq(Futures)
  /\ entry \in [Futures -> Wakers \cup {NoWaker}]
  /\ rx_permit \in Nat /\ rx_queue \in Seq({Rx}) /\ rx_waker \in Wakers \cup {NoWaker}
  /\ sender_count \in Nat /\ rx_closed \in BOOLEAN
  /\ fut \in [Futures -> {"idle", "send", "reserve", "failed", "permit"}]
  /\ recv \in {"idle", "pending", "done", "gone"}
  /\ ctx \in [Futures \cup {Rx} -> Wakers \cup {NoWaker}]
  /\ waking \subseteq (Futures \cup {Rx}) \X Wakers
  /\ woken \subseteq Futures \cup {Rx}

\* channel(capacity) and unbounded_channel().
Init ==
  /\ capacity \in Capacities \cup {U64Max}
  /\ buffered = 0 /\ reserved = 0 /\ buffer = 0
  /\ tx!with_permits(0) /\ entry = [f \in Futures |-> NoWaker]
  /\ rx!with_permits(0) /\ rx_waker = NoWaker
  /\ sender_count = 1 /\ rx_closed = FALSE
  /\ fut = [f \in Futures |-> "idle"] /\ recv = "idle"
  /\ ctx = [x \in Futures \cup {Rx} |-> NoWaker]
  /\ waking = {} /\ woken = {}

Bounded == capacity # U64Max

(***************************************************************************)
(* ChannelKernel.                                                          *)
(***************************************************************************)
HasSlot == buffered + reserved < capacity

\* Faulty variant: reserved slots are not counted.
try_push_over_reserved ==
  /\ buffered < capacity
  /\ buffered' = buffered + 1 /\ UNCHANGED <<capacity, reserved>>

try_push == HasSlot /\ buffered' = buffered + 1 /\ UNCHANGED <<capacity, reserved>>

\* Faulty variant: an empty buffer is popped.
pop_unguarded == buffered' = buffered - 1 /\ UNCHANGED <<capacity, reserved>>

pop == buffered > 0 /\ buffered' = buffered - 1 /\ UNCHANGED <<capacity, reserved>>

reserve == HasSlot /\ reserved' = reserved + 1 /\ UNCHANGED <<capacity, buffered>>
fill == buffered' = buffered + 1 /\ reserved' = reserved - 1 /\ UNCHANGED capacity
unreserve == reserved' = reserved - 1 /\ UNCHANGED <<capacity, buffered>>

(***************************************************************************)
(* Wakes.                                                                  *)
(***************************************************************************)
Called(x, w) == IF w = NoWaker THEN {} ELSE {<<x, w>>}

\* wake_rx_bounded and wake_rx_unbounded.
wake_rx ==
  /\ rx!signal_woke \/ rx!signal_stored
  /\ waking' = waking \cup Called(Rx, rx_waker)
  /\ rx_waker' = NoWaker

\* wake_one_tx_bounded: ids are dequeued up to the first one with a waker; the
\* kernel is not signalled once its queue is empty.
wake_one_tx ==
  /\ UNCHANGED tx_permit
  /\ \/ \E i \in 1 .. Len(tx_queue) :
          /\ entry[tx_queue[i]] # NoWaker
          /\ \A j \in 1 .. i - 1 : entry[tx_queue[j]] = NoWaker
          /\ tx_queue' = SubSeq(tx_queue, i + 1, Len(tx_queue))
          /\ entry' = [entry EXCEPT ![tx_queue[i]] = NoWaker]
          /\ waking' = waking \cup {<<tx_queue[i], entry[tx_queue[i]]>>}
     \/ /\ \A i \in 1 .. Len(tx_queue) : entry[tx_queue[i]] = NoWaker
        /\ tx_queue' = <<>>
        /\ UNCHANGED <<entry, waking>>

\* remove_step of the kernel, whether it finds f or not.
remove_step(f) == tx!remove_step(f) \/ (f \notin tx!InQueue /\ UNCHANGED <<tx_permit, tx_queue>>)

remove_tx_waiter(f) == remove_step(f) /\ entry' = [entry EXCEPT ![f] = NoWaker]

\* A waker taken under the mutex is called.
Wake(x, w) ==
  /\ <<x, w>> \in waking
  /\ waking' = waking \ {<<x, w>>}
  /\ woken' = IF ctx[x] = w THEN woken \cup {x} ELSE woken
  /\ UNCHANGED <<slots, txv, rxv, handles, fut, recv, ctx>>

\* A poll begins; the poll that ends a future, or its Drop.
Polled(x, w) == ctx' = [ctx EXCEPT ![x] = w] /\ woken' = woken \ {x}
Ended(x) == ctx' = [ctx EXCEPT ![x] = NoWaker] /\ woken' = woken \ {x}

(***************************************************************************)
(* The sending half.  A future is not polled after it returned Ready, and  *)
(* Drop does nothing for one that completed or never parked, so these are  *)
(* "idle" at once.                                                         *)
(***************************************************************************)
Become(f, s) == fut' = [fut EXCEPT ![f] = s]
CanPoll(f, kind) == fut[f] = kind \/ (fut[f] = "idle" /\ sender_count > 0)

\* A value enters the channel.
PushValue ==
  /\ buffer' = buffer + 1
  /\ rx_permit < MaxHints
  /\ wake_rx

try_send ==
  /\ Bounded /\ sender_count > 0 /\ ~rx_closed
  /\ try_push /\ PushValue
  /\ UNCHANGED <<txv, handles, fut, recv, ctx, woken>>

\* UnboundedSender::send
send_unbounded ==
  /\ ~Bounded /\ sender_count > 0 /\ ~rx_closed /\ buffer < MaxBuffered
  /\ try_push /\ PushValue
  /\ UNCHANGED <<txv, handles, fut, recv, ctx, woken>>

try_reserve(f) ==
  /\ Bounded /\ sender_count > 0 /\ fut[f] = "idle" /\ ~rx_closed
  /\ reserve
  /\ Become(f, "permit")
  /\ UNCHANGED <<buffer, txv, rxv, handles, recv, ctx, waking, woken>>

\* Send::poll and Reserve::poll, the receiver closed.  `completed` stays false.
SenderClosed(f, kind) ==
  /\ Bounded /\ CanPoll(f, kind) /\ rx_closed
  /\ Ended(f)
  /\ Become(f, IF fut[f] = "idle" THEN "idle" ELSE "failed")
  /\ UNCHANGED <<slots, txv, rxv, handles, recv, waking>>

\* What a sender that completes does if it was parked.
Withdraw(f) == IF fut[f] = "idle" THEN UNCHANGED txv ELSE remove_tx_waiter(f)

\* Send::poll, a slot is free.
SendReady(f) ==
  /\ Bounded /\ CanPoll(f, "send") /\ ~rx_closed
  /\ try_push /\ PushValue
  /\ Withdraw(f)
  /\ Ended(f) /\ Become(f, "idle")
  /\ UNCHANGED <<handles, recv>>

\* Reserve::poll, a slot is free.
ReserveReady(f) ==
  /\ Bounded /\ CanPoll(f, "reserve") /\ ~rx_closed
  /\ reserve
  /\ Withdraw(f)
  /\ Ended(f) /\ Become(f, "permit")
  /\ UNCHANGED <<buffer, rxv, handles, recv, waking>>

\* No slot, still registered: the waker is replaced.
SenderAgain(f, w) ==
  /\ f \in Pending /\ ~rx_closed /\ ~HasSlot /\ entry[f] # NoWaker
  /\ entry' = [entry EXCEPT ![f] = w]
  /\ Polled(f, w)
  /\ UNCHANGED <<slots, tx_permit, tx_queue, rxv, handles, fut, recv, waking>>

\* No slot, first poll or dequeued since the last one: parked (again).  wait_step
\* never answers Ready, since no hint is ever stored (TxHintsNotStored).
SenderPark(f, w, kind) ==
  /\ Bounded /\ CanPoll(f, kind) /\ ~rx_closed /\ ~HasSlot /\ entry[f] = NoWaker
  /\ tx!park_step(f)
  /\ entry' = [entry EXCEPT ![f] = w]
  /\ Polled(f, w) /\ Become(f, kind)
  /\ UNCHANGED <<slots, rxv, handles, recv, waking>>

\* Faulty variant: the hint of a woken sender that is dropped is not forwarded.
drop_tx_waiter_keeps(f) ==
  /\ f \in Pending \/ fut[f] = "failed"
  /\ remove_tx_waiter(f)
  /\ Become(f, "idle") /\ Ended(f)
  /\ UNCHANGED <<slots, rxv, handles, recv, waking>>

\* drop_tx_waiter: a queued sender is withdrawn, one that is not queued any more
\* passes its hint on.
drop_tx_waiter(f) ==
  /\ f \in Pending \/ fut[f] = "failed"
  /\ IF f \in tx!InQueue THEN remove_tx_waiter(f) /\ UNCHANGED waking ELSE wake_one_tx
  /\ Become(f, "idle") /\ Ended(f)
  /\ UNCHANGED <<slots, rxv, handles, recv>>

\* Permit::send
PermitSend(f) ==
  /\ fut[f] = "permit"
  /\ fill /\ PushValue
  /\ Become(f, "idle")
  /\ UNCHANGED <<txv, handles, recv, ctx, woken>>

PermitDrop(f) ==
  /\ fut[f] = "permit"
  /\ unreserve /\ wake_one_tx
  /\ Become(f, "idle")
  /\ UNCHANGED <<buffer, rxv, handles, recv, ctx, woken>>

CloneSender ==
  /\ sender_count \in 1 .. MaxSenders - 1
  /\ sender_count' = sender_count + 1
  /\ UNCHANGED <<slots, txv, rxv, rx_closed, fut, recv, ctx, waking, woken>>

\* Faulty variant: the last handle does not wake the receiver.
DropSender_silent ==
  /\ sender_count > 1 \/ (sender_count = 1 /\ \A f \in Futures : fut[f] = "idle")
  /\ sender_count' = sender_count - 1
  /\ UNCHANGED <<slots, txv, rxv, waking, rx_closed, fut, recv, ctx, woken>>

\* Futures and Permits borrow a handle, so the last one goes after them.
DropSender ==
  /\ sender_count > 1 \/ (sender_count = 1 /\ \A f \in Futures : fut[f] = "idle")
  /\ sender_count' = sender_count - 1
  /\ IF sender_count = 1 THEN rx_permit < MaxHints /\ wake_rx ELSE UNCHANGED <<rxv, waking>>
  /\ UNCHANGED <<slots, txv, rx_closed, fut, recv, ctx, woken>>

(***************************************************************************)
(* The receiving half.                                                     *)
(***************************************************************************)
\* A value leaves the channel; in a bounded one a sender learns of the slot.
PopValue ==
  /\ pop /\ buffer' = buffer - 1
  /\ IF Bounded THEN wake_one_tx ELSE UNCHANGED <<txv, waking>>

\* Recv borrows the Receiver, which is otherwise unused while it exists.
try_recv ==
  /\ recv = "idle"
  /\ PopValue
  /\ UNCHANGED <<rxv, handles, fut, recv, ctx, woken>>

Finished == recv' = IF recv = "idle" THEN "idle" ELSE "done"

\* Recv::poll, and UnboundedRecv::poll: a value,
RecvReady ==
  /\ recv \in {"idle", "pending"}
  /\ PopValue
  /\ Ended(Rx) /\ Finished
  /\ UNCHANGED <<rxv, handles, fut>>

\* no value and no sender left,
RecvNone ==
  /\ recv \in {"idle", "pending"} /\ buffered = 0 /\ sender_count = 0
  /\ Ended(Rx) /\ Finished
  /\ UNCHANGED <<slots, txv, rxv, handles, fut, waking>>

\* first poll: stored wakes are used up one by one, the buffer is looked at again
\* after each, then the receiver is queued,
RecvPark(w) ==
  /\ recv = "idle" /\ buffered = 0 /\ sender_count > 0
  /\ rx_permit' = 0 /\ rx_queue' = Append(rx_queue, Rx)
  /\ rx_waker' = w
  /\ Polled(Rx, w) /\ recv' = "pending"
  /\ UNCHANGED <<slots, txv, handles, fut, waking>>

\* polled again: the waker is stored, queued or not.
RecvAgain(w) ==
  /\ recv = "pending" /\ buffered = 0 /\ sender_count > 0
  /\ rx_waker' = w
  /\ Polled(Rx, w)
  /\ UNCHANGED <<slots, txv, rx_permit, rx_queue, handles, fut, recv, waking>>

\* Drop of a Recv that was parked.
RecvDrop ==
  /\ recv \in {"pending", "done"}
  /\ rx!remove_step(Rx) \/ (rx_queue = <<>> /\ UNCHANGED <<rx_permit, rx_queue>>)
  /\ rx_waker' = NoWaker
  /\ recv' = "idle" /\ Ended(Rx)
  /\ UNCHANGED <<slots, txv, handles, fut, waking>>

\* Receiver::close takes all wakers and leaves the ids in the kernel's queue.
close ==
  /\ rx_closed' = TRUE
  /\ entry' = [f \in Futures |-> NoWaker]
  /\ waking' = waking \cup UNION {Called(f, entry[f]) : f \in Futures}
  /\ UNCHANGED <<tx_permit, tx_queue>>

CloseReceiver ==
  /\ recv = "idle"
  /\ close
  /\ recv' \in {"idle", "gone"}     \* close(), and Drop
  /\ UNCHANGED <<slots, rxv, sender_count, fut, ctx, woken>>

(***************************************************************************)
(* Specification.                                                          *)
(***************************************************************************)
PollSender(f, w) ==
  \/ SendReady(f) \/ ReserveReady(f) \/ SenderAgain(f, w)
  \/ \E kind \in {"send", "reserve"} : SenderClosed(f, kind) \/ SenderPark(f, w, kind)
PollRecv(w) == RecvReady \/ RecvNone \/ RecvPark(w) \/ RecvAgain(w)
Waking == \E x \in Futures \cup {Rx}, w \in Wakers : Wake(x, w)

Next ==
  \/ try_send \/ send_unbounded \/ CloneSender \/ DropSender
  \/ \E f \in Futures : \/ try_reserve(f) \/ drop_tx_waiter(f) \/ PermitSend(f) \/ PermitDrop(f)
                        \/ \E w \in Wakers : PollSender(f, w)
  \/ \E w \in Wakers : PollRecv(w)
  \/ try_recv \/ RecvDrop \/ CloseReceiver
  \/ Waking

Spec == Init /\ [][Next]_vars

(***************************************************************************)
(* Properties.                                                             *)
(***************************************************************************)
\* The kernel's count is the buffer's length, so no pop finds it empty, the
\* reserved slots are those of the living Permits, and all of them together fit.
SlotsAccounted ==
  /\ buffered = buffer
  /\ reserved = Cardinality({f \in Futures : fut[f] = "permit"})
  /\ buffered + reserved <= capacity

\* No hint is stored in tx_kernel ("unreachable under U2's drain-only tx wakes"),
\* and as long as the channel is open its queue and tx_wakers hold the same
\* senders, all of them suspended.
TxHintsNotStored ==
  /\ tx_permit = 0
  /\ ~rx_closed => \A f \in Futures : /\ f \in tx!InQueue <=> entry[f] # NoWaker
                                      /\ f \in tx!InQueue => f \in Pending

\* Both: the books of the channel agree.
BooksAgree == SlotsAccounted /\ TxHintsNotStored

\* Suspended senders that were dequeued and have not been polled since.
Hinted == {f \in Pending : entry[f] = NoWaker}

\* While a sender waits in the queue, every free slot has been announced to a
\* sender that is still to look: a slot can be taken by someone else, a hint can
\* come to nothing and a hinted sender can be cancelled, but no slot stays free
\* with only sleeping senders around.
NoStuckSender ==
  ~rx_closed /\ tx_queue # <<>> => Cardinality(Hinted) >= capacity - buffered - reserved

\* A suspended sender that is not registered any more (hinted, or the channel
\* closed) has been woken through the waker of its latest poll or is about to be;
\* one that is registered is registered with that waker.
HintsDelivered ==
  \A f \in Pending :
    IF entry[f] = NoWaker \/ rx_closed THEN f \in woken \/ <<f, ctx[f]>> \in waking ELSE entry[f] = ctx[f]

\* Both: a free slot, or the end of the channel, reaches a sender that waits.
SendersReachable == NoStuckSender /\ HintsDelivered

\* A suspended Recv with a value to take, or with no sender left, has been woken
\* through the waker of its latest poll or is about to be.
NoStuckReceiver ==
  recv = "pending" /\ (buffered > 0 \/ sender_count = 0) =>
    Rx \in woken \/ <<Rx, ctx[Rx]>> \in waking

=============================================================================

------------------------------ MODULE Oneshot ------------------------------
(***************************************************************************)
(* lion-utility/src/sync/oneshot.rs over oneshot_kernel.rs and a           *)
(* WaiterKernel of which only one future, the receiver, is a waiter.  An   *)
(* operation is one critical section of the std mutex; the waker it took   *)
(* is called afterwards.  send consumes the Sender, whose Drop follows it. *)
(***************************************************************************)
EXTENDS Naturals

CONSTANTS
  Channels,     \* one-shot channels
  RxWakers      \* wakers that receivers are polled with

NoRx == "none"
ASSUME RxWakersAssumption == NoRx \notin RxWakers

VARIABLES
  chan,       \* OneshotInner and the receiver's parked flag
  tx,         \* each Sender: held, inside send after its critical section, dropped
  recv,       \* each Receiver: not polled, pending, answered with the value or Err, dropped
  rx_ctx,     \* waker of the latest poll
  rx_waking,  \* the waker a sender took and is about to call
  rx_woken    \* history: receivers whose latest waker was called since their latest poll

oneshotv == <<chan, tx, recv, rx_ctx, rx_waking, rx_woken>>

Channel == [st : {"Empty", "Full", "Taken", "Closed"}, value : BOOLEAN, permit : Nat,
            queued : BOOLEAN, waker : RxWakers \cup {NoRx}, rx_dropped : BOOLEAN]

OneshotTypeOK ==
  /\ chan \in [Channels -> Channel]
  /\ tx \in [Channels -> {"held", "sent", "dropped"}]
  /\ recv \in [Channels -> {"idle", "pending", "value", "closed", "dropped"}]
  /\ rx_ctx \in [Channels -> RxWakers \cup {NoRx}] /\ rx_waking \in [Channels -> RxWakers \cup {NoRx}]
  /\ rx_woken \subseteq Channels

OneshotInit ==
  /\ chan = [c \in Channels |-> [st |-> "Empty", value |-> FALSE, permit |-> 0,
                                 queued |-> FALSE, waker |-> NoRx, rx_dropped |-> FALSE]]
  /\ tx = [c \in Channels |-> "held"] /\ recv = [c \in Channels |-> "idle"]
  /\ rx_ctx = [c \in Channels |-> NoRx] /\ rx_waking = [c \in Channels |-> NoRx]
  /\ rx_woken = {}

\* Faulty variant: the signal is stored although the receiver is queued.
deliver_stores(c, k) ==
  /\ chan' = [chan EXCEPT ![c] = [k EXCEPT !.permit = @ + 1]]
  /\ UNCHANGED rx_waking

\* One signal, after the channel became k: the queued receiver's waker is taken, or a
\* permit stored.
deliver(c, k) ==
  IF k.queued
  THEN /\ chan' = [chan EXCEPT ![c] = [k EXCEPT !.queued = FALSE, !.waker = NoRx]]
       /\ rx_waking' = [rx_waking EXCEPT ![c] = k.waker]
  ELSE /\ chan' = [chan EXCEPT ![c] = [k EXCEPT !.permit = @ + 1]]
       /\ UNCHANGED rx_waking

\* Sender::send; rejected when the receiver is gone.
oneshot_send(c) ==
  /\ tx[c] = "held"
  /\ IF chan[c].rx_dropped THEN UNCHANGED <<chan, rx_waking>>
     ELSE deliver(c, [chan[c] EXCEPT !.st = "Full", !.value = TRUE])
  /\ tx' = [tx EXCEPT ![c] = "sent"]
  /\ UNCHANGED <<recv, rx_ctx, rx_woken>>

\* Drop for Sender, on its own or at the end of send: close_step and a signal.
oneshot_drop_sender(c) ==
  /\ tx[c] # "dropped" /\ rx_waking[c] = NoRx
  /\ deliver(c, IF chan[c].st = "Empty" THEN [chan[c] EXCEPT !.st = "Closed"] ELSE chan[c])
  /\ tx' = [tx EXCEPT ![c] = "dropped"]
  /\ UNCHANGED <<recv, rx_ctx, rx_woken>>

\* The sender calls the waker it took.
WakeRx(c) ==
  /\ rx_waking[c] # NoRx
  /\ rx_waking' = [rx_waking EXCEPT ![c] = NoRx]
  /\ rx_woken' = IF rx_waking[c] = rx_ctx[c] THEN rx_woken \cup {c} ELSE rx_woken
  /\ UNCHANGED <<chan, tx, recv, rx_ctx>>

\* withdraw_rx, if the receiver is parked.
withdrawn(k) == [k EXCEPT !.queued = FALSE, !.waker = NoRx]

Polls(c) == recv[c] \in {"idle", "pending"}

\* Receiver::poll, Ready with the value or with Err.
RxReady(c) ==
  /\ Polls(c) /\ chan[c].st # "Empty"
  /\ chan' = [chan EXCEPT ![c] =
       [withdrawn(chan[c]) EXCEPT !.st = IF @ = "Full" THEN "Taken" ELSE @, !.value = FALSE]]
  /\ recv' = [recv EXCEPT ![c] = IF chan[c].st = "Full" THEN "value" ELSE "closed"]
  /\ rx_woken' = rx_woken \ {c}
  /\ UNCHANGED <<tx, rx_ctx, rx_waking>>

\* Receiver::poll, Pending: parked, or parked before and its waker replaced.
RxPending(c, w) ==
  /\ Polls(c) /\ chan[c].st = "Empty"
  /\ chan' = [chan EXCEPT ![c].queued = IF recv[c] = "idle" THEN TRUE ELSE @,
                          ![c].waker = IF recv[c] = "idle" \/ @ # NoRx THEN w ELSE @]
  /\ recv' = [recv EXCEPT ![c] = "pending"]
  /\ rx_ctx' = [rx_ctx EXCEPT ![c] = w] /\ rx_woken' = rx_woken \ {c}
  /\ UNCHANGED <<tx, rx_waking>>

\* Drop for Receiver
oneshot_drop_receiver(c) ==
  /\ recv[c] # "dropped"
  /\ chan' = [chan EXCEPT ![c] = [withdrawn(chan[c]) EXCEPT !.rx_dropped = TRUE]]
  /\ recv' = [recv EXCEPT ![c] = "dropped"] /\ rx_woken' = rx_woken \ {c}
  /\ UNCHANGED <<tx, rx_ctx, rx_waking>>

OneshotNext ==
  \E c \in Channels :
    \/ oneshot_send(c) \/ oneshot_drop_sender(c) \/ WakeRx(c)
    \/ RxReady(c) \/ oneshot_drop_receiver(c)
    \/ \E w \in RxWakers : RxPending(c, w)

OneshotSpec == OneshotInit /\ [][OneshotNext]_oneshotv

(***************************************************************************)
(* Properties.                                                             *)
(***************************************************************************)
\* A suspended receiver is registered with the waker of its latest poll while the
\* channel is undecided, and woken through it, or about to be, once it is not; the
\* value is there exactly when the kernel says Full, so that unwrap never panics; and
\* a stored signal means that the channel is decided, so that poll does not loop.
OneshotAnswered ==
  \A c \in Channels :
    /\ recv[c] = "pending" => IF chan[c].st = "Empty"
                              THEN chan[c].queued /\ chan[c].waker = rx_ctx[c]
                              ELSE c \in rx_woken \/ rx_waking[c] = rx_ctx[c]
    /\ chan[c].value <=> chan[c].st = "Full"
    /\ chan[c].permit > 0 => chan[c].st # "Empty"

=============================================================================

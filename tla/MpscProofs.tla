----------------------------- MODULE MpscProofs -----------------------------
(***************************************************************************)
(* Proofs about Mpsc, for any finite set of sender futures, any wakers and *)
(* any capacity: the books of the channel agree, and neither a sender nor  *)
(* the receiver is left asleep.                                            *)
(***************************************************************************)
EXTENDS Mpsc, FiniteSetTheorems, TLAPS

(***************************************************************************)
(* Queues without duplicates.                                              *)
(***************************************************************************)
Elems(q) == {q[i] : i \in 1 .. Len(q)}
Once(q) == \A i, j \in 1 .. Len(q) : q[i] = q[j] => i = j

\* Append adds one element at the end.
LEMMA AppendOnce ==
  ASSUME NEW S, NEW q \in Seq(S), NEW x \in S, Once(q), x \notin Elems(q)
  PROVE  /\ Append(q, x) \in Seq(S) /\ Once(Append(q, x))
         /\ Elems(Append(q, x)) = Elems(q) \cup {x}
<1>1. /\ Append(q, x) \in Seq(S) /\ Len(Append(q, x)) = Len(q) + 1 /\ Len(q) \in Nat
      /\ \A i \in 1 .. Len(q) : Append(q, x)[i] = q[i]
      /\ Append(q, x)[Len(q) + 1] = x
  OBVIOUS
<1>2. QED
  BY <1>1 DEF Once, Elems

\* Cutting off the first i elements.
LEMMA CutOnce ==
  ASSUME NEW S, NEW q \in Seq(S), Once(q), NEW i \in 1 .. Len(q)
  PROVE  /\ SubSeq(q, i + 1, Len(q)) \in Seq(S) /\ Once(SubSeq(q, i + 1, Len(q)))
         /\ Elems(SubSeq(q, i + 1, Len(q))) = Elems(q) \ {q[j] : j \in 1 .. i}
<1> DEFINE r == SubSeq(q, i + 1, Len(q))
<1>1. /\ r \in Seq(S) /\ Len(r) = Len(q) - i /\ Len(q) \in Nat
      /\ \A j \in 1 .. Len(q) - i : r[j] = q[i + j]
  OBVIOUS
<1> HIDE DEF r
<1>2. Once(r)
  <2> SUFFICES ASSUME NEW j \in 1 .. Len(q) - i, NEW k \in 1 .. Len(q) - i, r[j] = r[k] PROVE j = k
    BY <1>1 DEF Once
  <2>1. i + j \in 1 .. Len(q) /\ i + k \in 1 .. Len(q) /\ q[i + j] = q[i + k]
    BY <1>1
  <2>2. i + j = i + k
    BY <2>1 DEF Once
  <2>3. QED
    BY <2>2
<1>3. ASSUME NEW x \in Elems(r) PROVE x \in Elems(q) \ {q[j] : j \in 1 .. i}
  <2>1. PICK j \in 1 .. Len(q) - i : x = q[i + j]
    BY <1>1, <1>3 DEF Elems
  <2>2. i + j \in 1 .. Len(q) /\ \A k \in 1 .. i : k \in 1 .. Len(q) /\ k # i + j
    BY <1>1
  <2>3. QED
    BY <2>1, <2>2 DEF Once, Elems
<1>4. ASSUME NEW x \in Elems(q) \ {q[j] : j \in 1 .. i} PROVE x \in Elems(r)
  <2>1. PICK k \in 1 .. Len(q) : x = q[k]
    BY DEF Elems
  <2>2. k \notin 1 .. i
    BY <2>1
  <2>3. k - i \in 1 .. Len(q) - i /\ i + (k - i) = k
    BY <1>1, <2>2
  <2>4. r[k - i] = x
    BY <1>1, <2>1, <2>3
  <2>5. QED
    BY <1>1, <2>3, <2>4 DEF Elems
<1>5. QED
  BY <1>1, <1>2, <1>3, <1>4 DEF r

\* Taking out the k-th element.
Cut(q, k) == [j \in 1 .. Len(q) - 1 |-> IF j < k THEN q[j] ELSE q[j + 1]]

\* The result is one element shorter.
LEMMA CutType ==
  ASSUME NEW S, NEW q \in Seq(S), q # <<>>, NEW k
  PROVE  Cut(q, k) \in Seq(S) /\ Len(Cut(q, k)) = Len(q) - 1
<1>1. Len(q) \in Nat \ {0} /\ Len(q) - 1 \in Nat
  OBVIOUS
<1>2. \A j \in 1 .. Len(q) - 1 : q[j] \in S /\ q[j + 1] \in S
  BY <1>1
<1>3. Cut(q, k) \in [1 .. Len(q) - 1 -> S]
  BY <1>2 DEF Cut
<1>4. QED
  BY <1>1, <1>3

\* From a queue without duplicates it removes that element and no other.
LEMMA WithoutOnce ==
  ASSUME NEW S, NEW q \in Seq(S), Once(q), NEW k \in 1 .. Len(q)
  PROVE  /\ Cut(q, k) \in Seq(S) /\ Once(Cut(q, k)) /\ Elems(Cut(q, k)) = Elems(q) \ {q[k]}
<1> DEFINE p(n) == IF n < k THEN n ELSE n + 1
<1>0. Len(q) \in Nat \ {0} /\ q # <<>>
  OBVIOUS
<1>1. /\ Cut(q, k) \in Seq(S) /\ Len(Cut(q, k)) = Len(q) - 1
      /\ \A j \in 1 .. Len(q) - 1 : Cut(q, k)[j] = q[p(j)] /\ p(j) \in 1 .. Len(q) /\ p(j) # k
  BY <1>0, CutType DEF Cut
<1>2. \A i, j \in 1 .. Len(q) - 1 : p(i) = p(j) => i = j
  BY <1>0
<1>3. \A n \in 1 .. Len(q) : n # k => \E j \in 1 .. Len(q) - 1 : p(j) = n
  <2> SUFFICES ASSUME NEW n \in 1 .. Len(q), n # k PROVE \E j \in 1 .. Len(q) - 1 : p(j) = n
    OBVIOUS
  <2>1. CASE n < k
    BY <1>0, <2>1
  <2>2. CASE n > k
    <3>1. n - 1 \in 1 .. Len(q) - 1 /\ p(n - 1) = n
      BY <1>0, <2>2
    <3>2. QED
      BY <3>1
  <2>3. QED
    BY <1>0, <2>1, <2>2
<1> HIDE DEF p
<1>4. Once(Cut(q, k))
  BY <1>1, <1>2 DEF Once
<1>5. ASSUME NEW x \in Elems(Cut(q, k)) PROVE x \in Elems(q) \ {q[k]}
  <2>1. PICK j \in 1 .. Len(q) - 1 : x = q[p(j)]
    BY <1>1, <1>5 DEF Elems
  <2>2. QED
    BY <1>1, <2>1 DEF Elems, Once
<1>6. ASSUME NEW x \in Elems(q) \ {q[k]} PROVE x \in Elems(Cut(q, k))
  <2>1. PICK n \in 1 .. Len(q) : x = q[n]
    BY DEF Elems
  <2>2. PICK j \in 1 .. Len(q) - 1 : p(j) = n
    BY <1>3, <2>1
  <2>3. QED
    BY <1>1, <2>1, <2>2 DEF Elems
<1>7. QED
  BY <1>1, <1>4, <1>5, <1>6

(***************************************************************************)
(* The queue of waiting senders.                                           *)
(***************************************************************************)
TxOK == tx_queue \in Seq(Futures) /\ Once(tx_queue)

\* The kernel's InQueue is the set of the queue's elements.
LEMMA InTx == tx!InQueue = Elems(tx_queue) /\ tx!InQueue' = Elems(tx_queue')
BY DEF tx!InQueue, Elems

\* A sender that is withdrawn leaves the queue, wherever it stood.
LEMMA RemoveTx ==
  ASSUME TxOK, NEW f \in Futures, remove_step(f)
  PROVE  TxOK' /\ tx_permit' = tx_permit /\ Elems(tx_queue') = Elems(tx_queue) \ {f}
<1>1. CASE tx!remove_step(f)
  <2> DEFINE k == tx!find_first(f)
  <2>1. Len(tx_queue) \in Nat
    BY DEF TxOK
  <2>2. k \in 1 .. Len(tx_queue) /\ tx_queue[k] = f
    <3>1. PICK i \in 1 .. Len(tx_queue) : tx_queue[i] = f
      BY <1>1 DEF tx!remove_step, tx!InQueue
    <3>2. \A j \in 1 .. i - 1 : tx_queue[j] # f
      BY <2>1, <3>1 DEF TxOK, Once
    <3>3. QED
      BY <3>1, <3>2 DEF tx!find_first
  <2> HIDE DEF k
  <2>3. tx_queue' = Cut(tx_queue, k) /\ tx_permit' = tx_permit
    BY <1>1 DEF tx!remove_step, tx!Without, k, Cut
  <2>4. QED
    BY <2>2, <2>3, WithoutOnce DEF TxOK
<1>2. CASE f \notin tx!InQueue /\ UNCHANGED <<tx_permit, tx_queue>>
  BY <1>2, InTx DEF TxOK
<1>3. QED
  BY <1>1, <1>2 DEF remove_step

\* wake_one_tx takes the first registered sender f out, with those before it, or
\* finds none registered.
TakesOut(f) ==
  /\ f \in Elems(tx_queue) /\ entry[f] # NoWaker
  /\ f \notin Elems(tx_queue') /\ Elems(tx_queue') \subseteq Elems(tx_queue)
  /\ \A g \in Elems(tx_queue) \ Elems(tx_queue') : g = f \/ entry[g] = NoWaker
  /\ entry' = [entry EXCEPT ![f] = NoWaker]
  /\ waking' = waking \cup {<<f, entry[f]>>}

TakesNone ==
  /\ \A g \in Elems(tx_queue) : entry[g] = NoWaker
  /\ tx_queue' = <<>> /\ UNCHANGED <<entry, waking>>

\* wake_one_tx takes out the first sender with a waker, or finds none.
LEMMA WakeOneTx ==
  ASSUME TxOK, wake_one_tx
  PROVE  /\ TxOK' /\ tx_permit' = tx_permit
         /\ (\E f \in Futures : TakesOut(f)) \/ TakesNone
<1>0. tx_permit' = tx_permit /\ Len(tx_queue) \in Nat
  BY DEF wake_one_tx, TxOK
<1>1. ASSUME NEW i \in 1 .. Len(tx_queue),
             entry[tx_queue[i]] # NoWaker,
             \A j \in 1 .. i - 1 : entry[tx_queue[j]] = NoWaker,
             tx_queue' = SubSeq(tx_queue, i + 1, Len(tx_queue)),
             entry' = [entry EXCEPT ![tx_queue[i]] = NoWaker],
             waking' = waking \cup {<<tx_queue[i], entry[tx_queue[i]]>>}
      PROVE  TxOK' /\ \E f \in Futures : TakesOut(f)
  <2> DEFINE f == tx_queue[i]
  <2>1. TxOK' /\ Elems(tx_queue') = Elems(tx_queue) \ {tx_queue[j] : j \in 1 .. i}
    <3> DEFINE r == SubSeq(tx_queue, i + 1, Len(tx_queue))
    <3>1. r \in Seq(Futures) /\ Once(r) /\ Elems(r) = Elems(tx_queue) \ {tx_queue[j] : j \in 1 .. i}
      BY CutOnce DEF TxOK
    <3>2. tx_queue' = r
      BY <1>1
    <3> HIDE DEF r
    <3>3. QED
      BY <3>1, <3>2 DEF TxOK
  <2>2. f \in Futures /\ f \in Elems(tx_queue) /\ f \in {tx_queue[j] : j \in 1 .. i}
    BY <1>0 DEF TxOK, Elems
  <2>3. \A g \in {tx_queue[j] : j \in 1 .. i} : g = f \/ entry[g] = NoWaker
    <3> SUFFICES ASSUME NEW j \in 1 .. i PROVE tx_queue[j] = f \/ entry[tx_queue[j]] = NoWaker
      OBVIOUS
    <3>1. j = i \/ j \in 1 .. i - 1
      BY <1>0
    <3>2. QED
      BY <1>1, <3>1
  <2>4. TakesOut(f)
    BY <1>1, <2>1, <2>2, <2>3 DEF TakesOut
  <2>5. QED
    BY <2>1, <2>2, <2>4
<1>2. CASE /\ \A i \in 1 .. Len(tx_queue) : entry[tx_queue[i]] = NoWaker
           /\ tx_queue' = <<>> /\ UNCHANGED <<entry, waking>>
  <2>1. TakesNone
    BY <1>2 DEF TakesNone, Elems
  <2>2. TxOK'
    BY <1>2 DEF TxOK, Once
  <2>3. QED
    BY <1>0, <2>1, <2>2
<1>3. QED
  BY <1>0, <1>1, <1>2 DEF wake_one_tx

(***************************************************************************)
(* Slots.                                                                  *)
(***************************************************************************)
Permits == {f \in Futures : fut[f] = "permit"}

\* The permits of a step that moves at most f.
LEMMA PermitsMoved ==
  ASSUME TypeOK, NEW f \in Futures, NEW s, Become(f, s)
  PROVE  /\ s = "permit" => Permits' = Permits \cup {f}
         /\ s # "permit" => Permits' = Permits \ {f}
BY DEF TypeOK, Become, Permits

\* Counting one more or one less.
LEMMA PermitsCounted ==
  /\ IsFiniteSet(Permits) /\ Cardinality(Permits) \in Nat
  /\ \A f \in Futures : /\ f \notin Permits => Cardinality(Permits \cup {f}) = Cardinality(Permits) + 1
                        /\ f \in Permits => Cardinality(Permits \ {f}) = Cardinality(Permits) - 1
                                            /\ Cardinality(Permits) >= 1
<1>1. IsFiniteSet(Permits)
  BY FuturesAssumption, FS_Subset DEF Permits
<1>2. Cardinality(Permits) \in Nat
  BY <1>1, FS_CardinalityType
<1>3. ASSUME NEW f \in Futures, f \notin Permits PROVE Cardinality(Permits \cup {f}) = Cardinality(Permits) + 1
  BY <1>1, <1>3, FS_AddElement
<1>4. ASSUME NEW f \in Futures, f \in Permits
      PROVE  Cardinality(Permits \ {f}) = Cardinality(Permits) - 1 /\ Cardinality(Permits) >= 1
  <2>1. Cardinality(Permits \ {f}) = Cardinality(Permits) - 1 /\ IsFiniteSet(Permits \ {f})
    BY <1>1, <1>4, FS_RemoveElement
  <2>2. Cardinality(Permits \ {f}) \in Nat
    BY <2>1, FS_CardinalityType
  <2>3. QED
    BY <1>2, <2>1, <2>2
<1>5. QED
  BY <1>1, <1>2, <1>3, <1>4

Counted ==
  /\ capacity \in Nat /\ buffered \in Nat /\ reserved \in Nat
  /\ buffered = buffer /\ buffered + reserved <= capacity
  /\ reserved = Cardinality(Permits)

\* What the steps do to the counts: one of five things.
LEMMA CountedStep ==
  ASSUME TypeOK, Counted,
         \/ try_push /\ buffer' = buffer + 1 /\ Permits' = Permits
         \/ pop /\ buffer' = buffer - 1 /\ Permits' = Permits
         \/ reserve /\ UNCHANGED buffer /\ \E f \in Futures \ Permits : Permits' = Permits \cup {f}
         \/ fill /\ buffer' = buffer + 1 /\ \E f \in Permits : Permits' = Permits \ {f}
         \/ unreserve /\ UNCHANGED buffer /\ \E f \in Permits : Permits' = Permits \ {f}
         \/ UNCHANGED slots /\ Permits' = Permits
  PROVE  Counted' /\ capacity' = capacity /\ buffer' \in Nat
<1> USE DEF Counted
<1>1. CASE try_push /\ buffer' = buffer + 1 /\ Permits' = Permits
  BY <1>1 DEF try_push, HasSlot
<1>2. CASE pop /\ buffer' = buffer - 1 /\ Permits' = Permits
  BY <1>2 DEF pop
<1>3. CASE reserve /\ UNCHANGED buffer /\ \E f \in Futures \ Permits : Permits' = Permits \cup {f}
  <2>1. Cardinality(Permits') = Cardinality(Permits) + 1
    BY <1>3, PermitsCounted
  <2>2. QED
    BY <1>3, <2>1 DEF reserve, HasSlot
<1>4. ASSUME \E f \in Permits : Permits' = Permits \ {f}
      PROVE  Cardinality(Permits') = Cardinality(Permits) - 1 /\ Cardinality(Permits) >= 1
  BY <1>4, PermitsCounted DEF Permits
<1>5. CASE fill /\ buffer' = buffer + 1 /\ \E f \in Permits : Permits' = Permits \ {f}
  BY <1>4, <1>5 DEF fill
<1>6. CASE unreserve /\ UNCHANGED buffer /\ \E f \in Permits : Permits' = Permits \ {f}
  BY <1>4, <1>6 DEF unreserve
<1>7. CASE UNCHANGED slots /\ Permits' = Permits
  BY <1>7 DEF slots
<1>8. QED
  BY <1>1, <1>2, <1>3, <1>5, <1>6, <1>7

\* Every step keeps the counts.
LEMMA SlotStep ==
  ASSUME TypeOK, Counted, [Next]_vars
  PROVE  Counted' /\ capacity' = capacity /\ buffer' \in Nat
<1>0. /\ UNCHANGED fut => Permits' = Permits
  BY DEF Permits
<1>1. CASE try_send \/ send_unbounded
  BY <1>0, <1>1, CountedStep DEF try_send, send_unbounded, PushValue
<1>2. CASE CloneSender \/ DropSender
  BY <1>0, <1>2, CountedStep DEF CloneSender, DropSender
<1>3. ASSUME NEW f \in Futures, try_reserve(f) PROVE Counted' /\ capacity' = capacity /\ buffer' \in Nat
  <2>1. f \notin Permits /\ Permits' = Permits \cup {f}
    BY <1>3, PermitsMoved DEF try_reserve, Permits
  <2>2. QED
    BY <1>3, <2>1, CountedStep DEF try_reserve
<1>4. ASSUME NEW f \in Futures, drop_tx_waiter(f) PROVE Counted' /\ capacity' = capacity /\ buffer' \in Nat
  <2>1. f \notin Permits /\ Permits' = Permits \ {f}
    BY <1>4, PermitsMoved DEF drop_tx_waiter, Permits, Pending
  <2>2. QED
    BY <1>4, <2>1, CountedStep DEF drop_tx_waiter
<1>5. ASSUME NEW f \in Futures, PermitSend(f) PROVE Counted' /\ capacity' = capacity /\ buffer' \in Nat
  <2>1. f \in Permits /\ Permits' = Permits \ {f}
    BY <1>5, PermitsMoved DEF PermitSend, Permits
  <2>2. QED
    BY <1>5, <2>1, CountedStep DEF PermitSend, PushValue
<1>6. ASSUME NEW f \in Futures, PermitDrop(f) PROVE Counted' /\ capacity' = capacity /\ buffer' \in Nat
  <2>1. f \in Permits /\ Permits' = Permits \ {f}
    BY <1>6, PermitsMoved DEF PermitDrop, Permits
  <2>2. QED
    BY <1>6, <2>1, CountedStep DEF PermitDrop
<1>7. ASSUME NEW f \in Futures, SendReady(f) PROVE Counted' /\ capacity' = capacity /\ buffer' \in Nat
  <2>1. f \notin Permits /\ Permits' = Permits \ {f}
    BY <1>7, PermitsMoved DEF SendReady, CanPoll, Permits
  <2>2. QED
    BY <1>7, <2>1, CountedStep DEF SendReady, PushValue
<1>8. ASSUME NEW f \in Futures, ReserveReady(f) PROVE Counted' /\ capacity' = capacity /\ buffer' \in Nat
  <2>1. f \notin Permits /\ Permits' = Permits \cup {f}
    BY <1>8, PermitsMoved DEF ReserveReady, CanPoll, Permits
  <2>2. QED
    BY <1>8, <2>1, CountedStep DEF ReserveReady
<1>9. ASSUME NEW f \in Futures, NEW w \in Wakers, NEW kind \in {"send", "reserve"},
             SenderClosed(f, kind) \/ SenderPark(f, w, kind)
      PROVE  Counted' /\ capacity' = capacity /\ buffer' \in Nat
  <2>1. f \notin Permits /\ Permits' = Permits \ {f}
    BY <1>9, PermitsMoved DEF SenderClosed, SenderPark, CanPoll, Permits
  <2>2. QED
    BY <1>9, <2>1, CountedStep DEF SenderClosed, SenderPark
<1>10. ASSUME NEW f \in Futures, NEW w \in Wakers, SenderAgain(f, w)
       PROVE  Counted' /\ capacity' = capacity /\ buffer' \in Nat
  BY <1>0, <1>10, CountedStep DEF SenderAgain
<1>11. CASE try_recv \/ RecvReady
  BY <1>0, <1>11, CountedStep DEF try_recv, RecvReady, PopValue
<1>12. ASSUME NEW w \in Wakers, RecvNone \/ RecvPark(w) \/ RecvAgain(w)
       PROVE  Counted' /\ capacity' = capacity /\ buffer' \in Nat
  BY <1>0, <1>12, CountedStep DEF RecvNone, RecvPark, RecvAgain
<1>13. CASE RecvDrop \/ CloseReceiver \/ Waking
  BY <1>0, <1>13, CountedStep DEF RecvDrop, CloseReceiver, Waking, Wake
<1>14. CASE UNCHANGED vars
  BY <1>0, <1>14, CountedStep DEF vars
<1>15. QED
  BY <1>1, <1>2, <1>3, <1>4, <1>5, <1>6, <1>7, <1>8, <1>9, <1>10, <1>11, <1>12, <1>13, <1>14
  DEF Next, PollSender, PollRecv

(***************************************************************************)
(* Waiting senders.                                                        *)
(***************************************************************************)
Queued == Elems(tx_queue)

TxInv ==
  /\ TxOK /\ tx_permit = 0
  /\ entry \in [Futures -> Wakers \cup {NoWaker}]
  /\ ~rx_closed => \A f \in Futures : /\ f \in Queued <=> entry[f] # NoWaker
                                      /\ f \in Queued => f \in Pending

\* It contains what the books say of tx_kernel.
LEMMA TxInvMeans == TxInv => TxHintsNotStored
BY InTx DEF TxInv, TxHintsNotStored, Queued

\* Nobody but f starts or stops being suspended.
OnlyMoves(f) == \A g \in Futures \ {f} : g \in Pending' <=> g \in Pending

\* Become moves one future.
LEMMA BecomeMoves ==
  ASSUME TypeOK, NEW f \in Futures, NEW s, Become(f, s)
  PROVE  OnlyMoves(f) /\ (f \in Pending' <=> s \in {"send", "reserve"})
         /\ fut' \in [Futures -> {"idle", "send", "reserve", "failed", "permit", s}]
BY DEF TypeOK, Become, OnlyMoves, Pending

\* The queue and the wakers left alone.
LEMMA TxSame ==
  ASSUME TxInv, UNCHANGED txv, UNCHANGED rx_closed, NEW f, OnlyMoves(f),
         ~rx_closed /\ f \in Futures => f \notin Queued
  PROVE  TxInv'
BY DEF TxInv, TxOK, txv, OnlyMoves, Queued

\* A sender withdrawn.
LEMMA TxRemove ==
  ASSUME TxInv, NEW f \in Futures, remove_tx_waiter(f), UNCHANGED rx_closed, OnlyMoves(f)
  PROVE  TxInv'
<1>1. TxOK' /\ tx_permit' = tx_permit /\ Queued' = Queued \ {f}
  BY RemoveTx DEF TxInv, remove_tx_waiter, Queued
<1>2. entry' = [entry EXCEPT ![f] = NoWaker]
  BY DEF remove_tx_waiter
<1>3. QED
  BY <1>1, <1>2 DEF TxInv, OnlyMoves

\* A slot announced.
LEMMA TxWake ==
  ASSUME TxInv, wake_one_tx, UNCHANGED rx_closed, NEW g, OnlyMoves(g),
         ~rx_closed /\ g \in Futures => g \notin Queued
  PROVE  TxInv'
<1>1. TxOK' /\ tx_permit' = tx_permit /\ ((\E f \in Futures : TakesOut(f)) \/ TakesNone)
  BY WakeOneTx DEF TxInv
<1>2. CASE TakesNone
  <2>1. Queued' = {} /\ UNCHANGED entry
    BY <1>2 DEF TakesNone, Queued, Elems
  <2>2. QED
    BY <1>1, <1>2, <2>1 DEF TxInv, TakesNone, Queued
<1>3. ASSUME NEW f \in Futures, TakesOut(f) PROVE TxInv'
  <2>1. entry' = [entry EXCEPT ![f] = NoWaker] /\ Queued' \subseteq Queued /\ f \notin Queued'
    BY <1>3 DEF TakesOut, Queued
  <2>2. ASSUME ~rx_closed PROVE Queued' = Queued \ {f}
    <3>1. \A h \in Queued : h \in Futures
      BY DEF TxInv, TxOK, Queued, Elems
    <3>2. \A h \in Queued \ Queued' : h = f
      BY <1>3, <2>2, <3>1 DEF TakesOut, Queued, TxInv
    <3>3. QED
      BY <2>1, <3>2
  <2>3. QED
    BY <1>1, <2>1, <2>2 DEF TxInv, OnlyMoves
<1>4. QED
  BY <1>1, <1>2, <1>3

\* Every step keeps queue and wakers in agreement.
LEMMA TxStep == ASSUME TypeOK, TxInv, [Next]_vars PROVE TxInv'
<1> USE WakersAssumption
<1>0. UNCHANGED fut => OnlyMoves(Rx)
  BY DEF OnlyMoves, Pending
<1>00. Rx \notin Futures
  BY FuturesAssumption
<1>a. ASSUME NEW f \in Futures, ~rx_closed, f \notin Pending PROVE f \notin Queued
  BY <1>a DEF TxInv
<1>1. CASE UNCHANGED <<txv, rx_closed, fut>>
  BY <1>0, <1>00, <1>1, TxSame
<1>2. CASE try_send \/ send_unbounded \/ CloneSender \/ DropSender
  BY <1>1, <1>2 DEF try_send, send_unbounded, CloneSender, DropSender, handles
<1>3. ASSUME NEW f \in Futures, try_reserve(f) \/ PermitSend(f) PROVE TxInv'
  <2>1. OnlyMoves(f) /\ (~rx_closed => f \notin Queued)
    BY <1>a, <1>3, BecomeMoves DEF try_reserve, PermitSend, Pending
  <2>2. QED
    BY <1>3, <2>1, TxSame DEF try_reserve, PermitSend, handles
<1>4. ASSUME NEW f \in Futures, drop_tx_waiter(f) PROVE TxInv'
  <2>1. OnlyMoves(f) /\ UNCHANGED rx_closed
    BY <1>4, BecomeMoves DEF drop_tx_waiter, handles
  <2>2. CASE f \in tx!InQueue
    BY <1>4, <2>1, <2>2, TxRemove DEF drop_tx_waiter
  <2>3. CASE f \notin tx!InQueue
    BY <1>4, <2>1, <2>3, TxWake, InTx DEF drop_tx_waiter, Queued
  <2>4. QED
    BY <2>2, <2>3
<1>5. ASSUME NEW f \in Futures, PermitDrop(f) PROVE TxInv'
  <2>1. OnlyMoves(f) /\ (~rx_closed => f \notin Queued)
    BY <1>a, <1>5, BecomeMoves DEF PermitDrop, Pending
  <2>2. QED
    BY <1>5, <2>1, TxWake DEF PermitDrop, handles
<1>6. ASSUME NEW f \in Futures, SendReady(f) \/ ReserveReady(f) PROVE TxInv'
  <2>1. OnlyMoves(f) /\ Withdraw(f) /\ UNCHANGED rx_closed /\ ~rx_closed
    BY <1>6, BecomeMoves DEF SendReady, ReserveReady, handles
  <2>2. CASE fut[f] = "idle"
    BY <1>a, <2>1, <2>2, TxSame DEF Withdraw, Pending
  <2>3. CASE fut[f] # "idle"
    BY <2>1, <2>3, TxRemove DEF Withdraw
  <2>4. QED
    BY <2>2, <2>3
<1>7. ASSUME NEW f \in Futures, NEW kind, SenderClosed(f, kind) PROVE TxInv'
  <2>1. OnlyMoves(f) /\ rx_closed
    BY <1>7, BecomeMoves DEF SenderClosed
  <2>2. QED
    BY <1>7, <2>1, TxSame DEF SenderClosed, handles
<1>8. ASSUME NEW f \in Futures, NEW w \in Wakers, NEW kind \in {"send", "reserve"}, SenderPark(f, w, kind)
      PROVE  TxInv'
  <2>1. /\ OnlyMoves(f) /\ f \in Pending' /\ ~rx_closed /\ UNCHANGED rx_closed /\ entry[f] = NoWaker
        /\ entry' = [entry EXCEPT ![f] = w] /\ tx_queue' = Append(tx_queue, f) /\ UNCHANGED tx_permit
    BY <1>8, BecomeMoves DEF SenderPark, tx!park_step, handles
  <2>2. f \notin Queued
    BY <2>1 DEF TxInv
  <2>3. TxOK' /\ Queued' = Queued \cup {f}
    BY <2>1, <2>2, AppendOnce DEF TxInv, TxOK, Queued
  <2>4. QED
    BY <2>1, <2>3 DEF TxInv, OnlyMoves
<1>9. ASSUME NEW f \in Futures, NEW w \in Wakers, SenderAgain(f, w) PROVE TxInv'
  <2>1. /\ OnlyMoves(Rx) /\ UNCHANGED <<rx_closed, tx_queue, tx_permit>> /\ entry[f] # NoWaker
        /\ entry' = [entry EXCEPT ![f] = w] /\ Pending' = Pending
    BY <1>0, <1>9 DEF SenderAgain, handles, Pending
  <2>2. QED
    BY <2>1 DEF TxInv, TxOK, Queued
<1>10. CASE try_recv \/ RecvReady
  <2>1. OnlyMoves(Rx) /\ UNCHANGED rx_closed /\ PopValue
    BY <1>0, <1>10 DEF try_recv, RecvReady, handles
  <2>2. CASE Bounded
    BY <1>00, <2>1, <2>2, TxWake DEF PopValue
  <2>3. CASE ~Bounded
    BY <1>00, <2>1, <2>3, TxSame DEF PopValue
  <2>4. QED
    BY <2>2, <2>3
<1>11. ASSUME NEW w \in Wakers, RecvNone \/ RecvPark(w) \/ RecvAgain(w) PROVE TxInv'
  BY <1>1, <1>11 DEF RecvNone, RecvPark, RecvAgain, handles
<1>12. CASE RecvDrop \/ Waking
  BY <1>1, <1>12 DEF RecvDrop, Waking, Wake, handles
<1>13. CASE CloseReceiver
  BY <1>13 DEF CloseReceiver, close, TxInv, TxOK
<1>14. CASE UNCHANGED vars
  BY <1>1, <1>14 DEF vars, handles
<1>15. QED
  BY <1>2, <1>3, <1>4, <1>5, <1>6, <1>7, <1>8, <1>9, <1>10, <1>11, <1>12, <1>13, <1>14
  DEF Next, PollSender, PollRecv

(***************************************************************************)
(* The rest of the state.                                                  *)
(***************************************************************************)
Calls == (Futures \cup {Rx}) \X Wakers

RestOK ==
  /\ rx_permit \in Nat /\ rx_queue \in Seq({Rx}) /\ rx_waker \in Wakers \cup {NoWaker}
  /\ sender_count \in Nat /\ rx_closed \in BOOLEAN
  /\ fut \in [Futures -> {"idle", "send", "reserve", "failed", "permit"}]
  /\ recv \in {"idle", "pending", "done", "gone"}
  /\ ctx \in [Futures \cup {Rx} -> Wakers \cup {NoWaker}]
  /\ waking \subseteq Calls /\ woken \subseteq Futures \cup {Rx}

RxTypes == rx_permit \in Nat /\ rx_queue \in Seq({Rx}) /\ rx_waker \in Wakers \cup {NoWaker}

\* The type invariant, by the three parts of the state.
LEMMA TypeParts ==
  /\ TypeOK => RestOK /\ RxTypes
  /\ TypeOK /\ Counted' /\ capacity' = capacity /\ buffer' \in Nat /\ TxInv' /\ RestOK' => TypeOK'
<1>1. TypeOK => RestOK
  BY Zenon DEF TypeOK, RestOK, Calls
<1>2. TypeOK => RxTypes
  BY Zenon DEF TypeOK, RxTypes
<1>3. ASSUME TypeOK, Counted', capacity' = capacity, buffer' \in Nat, TxInv', RestOK' PROVE TypeOK'
  <2>1. capacity' \in Capacities \cup {U64Max}
    BY Zenon, <1>3 DEF TypeOK
  <2>2. buffered' \in Nat /\ reserved' \in Nat
    BY Zenon, <1>3 DEF Counted
  <2>3. /\ tx_queue' \in Seq(Futures) /\ entry' \in [Futures -> Wakers \cup {NoWaker}]
        /\ tx_permit' \in Nat
    BY <1>3 DEF TxInv, TxOK
  <2>4. QED
    BY Zenon, <1>3, <2>1, <2>2, <2>3 DEF TypeOK, RestOK, Calls
<1>4. QED
  BY <1>1, <1>2, <1>3

\* A wake of the receiver takes its waker, if there is one.
LEMMA WakeRx ==
  ASSUME RestOK, wake_rx
  PROVE  /\ RxTypes' /\ waking' \subseteq Calls /\ waking \subseteq waking'
         /\ rx_waker' = NoWaker
         /\ rx_waker # NoWaker => <<Rx, rx_waker>> \in waking'
<1>1. waking' = waking \cup Called(Rx, rx_waker) /\ rx_waker' = NoWaker
  BY DEF wake_rx
<1>2. waking' \subseteq Calls
  BY <1>1 DEF Called, RestOK, Calls
<1>3. rx_permit' \in Nat /\ rx_queue' \in Seq({Rx})
  <2>1. CASE rx!signal_woke
    BY <2>1 DEF rx!signal_woke, RestOK
  <2>2. CASE rx!signal_stored
    BY <2>2 DEF rx!signal_stored, RestOK
  <2>3. QED
    BY <2>1, <2>2 DEF wake_rx
<1>4. QED
  BY <1>1, <1>2, <1>3 DEF RxTypes, Called

\* A wake of a sender takes the waker of one that is registered.
LEMMA WakeTx ==
  ASSUME RestOK, TxInv, wake_one_tx
  PROVE  waking' \subseteq Calls /\ waking \subseteq waking'
<1>1. (\E f \in Futures : TakesOut(f)) \/ TakesNone
  BY WakeOneTx DEF TxInv
<1>2. ASSUME NEW f \in Futures, TakesOut(f) PROVE waking' \subseteq Calls /\ waking \subseteq waking'
  <2>1. entry[f] \in Wakers
    BY <1>2 DEF TakesOut, TxInv
  <2>2. QED
    BY <1>2, <2>1 DEF TakesOut, RestOK, Calls
<1>3. QED
  BY <1>1, <1>2 DEF TakesNone, RestOK

\* Polls and ends of a future keep the types.
LEMMA PolledType ==
  ASSUME RestOK, NEW x \in Futures \cup {Rx},
         Ended(x) \/ \E w \in Wakers : Polled(x, w)
  PROVE  /\ ctx' \in [Futures \cup {Rx} -> Wakers \cup {NoWaker}] /\ woken' \subseteq Futures \cup {Rx}
         /\ \A y \in (Futures \cup {Rx}) \ {x} : ctx'[y] = ctx[y] /\ (y \in woken' <=> y \in woken)
BY DEF RestOK, Ended, Polled

\* Every step keeps the types.
LEMMA RestStep == ASSUME TypeOK, TxInv, [Next]_vars PROVE RestOK'
<1>0. RestOK /\ RxTypes
  BY TypeParts
<1> USE DEF rxv, handles
<1>a. ASSUME NEW f \in Futures, NEW s \in {"idle", "send", "reserve", "failed", "permit"}, Become(f, s)
      PROVE  fut' \in [Futures -> {"idle", "send", "reserve", "failed", "permit"}]
  BY <1>a, BecomeMoves
<1>1. CASE try_send \/ send_unbounded
  BY <1>0, <1>1, WakeRx DEF try_send, send_unbounded, PushValue, RestOK, RxTypes
<1>2. CASE CloneSender
  BY <1>0, <1>2 DEF CloneSender, RestOK
<1>3. CASE DropSender
  <2>1. sender_count' \in Nat
    BY <1>0, <1>3 DEF DropSender, RestOK
  <2>2. CASE sender_count = 1
    BY <1>0, <1>3, <2>1, <2>2, WakeRx DEF DropSender, RestOK, RxTypes
  <2>3. CASE sender_count # 1
    BY <1>0, <1>3, <2>1, <2>3 DEF DropSender, RestOK
  <2>4. QED
    BY <2>2, <2>3
<1>4. ASSUME NEW f \in Futures, try_reserve(f) PROVE RestOK'
  BY <1>0, <1>4, <1>a DEF try_reserve, RestOK
<1>5. ASSUME NEW f \in Futures, drop_tx_waiter(f) PROVE RestOK'
  <2>1. waking' \subseteq Calls
    BY <1>0, <1>5, WakeTx DEF drop_tx_waiter, RestOK
  <2>2. QED
    BY <1>0, <1>5, <1>a, <2>1, PolledType DEF drop_tx_waiter, RestOK
<1>6. ASSUME NEW f \in Futures, PermitSend(f) PROVE RestOK'
  BY <1>0, <1>6, <1>a, WakeRx DEF PermitSend, PushValue, RestOK, RxTypes
<1>7. ASSUME NEW f \in Futures, PermitDrop(f) PROVE RestOK'
  BY <1>0, <1>7, <1>a, WakeTx DEF PermitDrop, RestOK
<1>8. ASSUME NEW f \in Futures, SendReady(f) PROVE RestOK'
  BY <1>0, <1>8, <1>a, WakeRx, PolledType DEF SendReady, PushValue, RestOK, RxTypes
<1>9. ASSUME NEW f \in Futures, ReserveReady(f) PROVE RestOK'
  BY <1>0, <1>9, <1>a, PolledType DEF ReserveReady, RestOK
<1>10. ASSUME NEW f \in Futures, NEW kind, SenderClosed(f, kind) PROVE RestOK'
  BY <1>0, <1>10, <1>a, PolledType DEF SenderClosed, RestOK
<1>11. ASSUME NEW f \in Futures, NEW w \in Wakers, NEW kind \in {"send", "reserve"}, SenderPark(f, w, kind)
       PROVE  RestOK'
  BY <1>0, <1>11, <1>a, PolledType DEF SenderPark, RestOK
<1>12. ASSUME NEW f \in Futures, NEW w \in Wakers, SenderAgain(f, w) PROVE RestOK'
  BY <1>0, <1>12, PolledType DEF SenderAgain, RestOK
<1>13. ASSUME PopValue PROVE waking' \subseteq Calls
  BY <1>0, <1>13, WakeTx DEF PopValue, RestOK
<1>14. CASE try_recv
  BY <1>0, <1>13, <1>14 DEF try_recv, RestOK
<1>15. CASE RecvReady
  BY <1>0, <1>13, <1>15, PolledType DEF RecvReady, Finished, RestOK
<1>16. CASE RecvNone
  BY <1>0, <1>16, PolledType DEF RecvNone, Finished, RestOK
<1>17. ASSUME NEW w \in Wakers, RecvPark(w) PROVE RestOK'
  <2>1. rx_queue' \in Seq({Rx}) /\ rx_permit' \in Nat /\ rx_waker' \in Wakers
    BY <1>0, <1>17 DEF RecvPark, RestOK
  <2>2. QED
    BY <1>0, <1>17, <2>1, PolledType DEF RecvPark, RestOK
<1>18. ASSUME NEW w \in Wakers, RecvAgain(w) PROVE RestOK'
  BY <1>0, <1>18, PolledType DEF RecvAgain, RestOK
<1>19. CASE RecvDrop
  <2>1. rx_queue' \in Seq({Rx}) /\ rx_permit' \in Nat
    <3>1. CASE rx!remove_step(Rx)
      <4>1. rx_queue' = Cut(rx_queue, rx!find_first(Rx)) /\ rx_queue # <<>> /\ UNCHANGED rx_permit
        BY <3>1 DEF rx!remove_step, rx!Without, Cut, rx!InQueue
      <4>2. QED
        BY <1>0, <4>1, CutType DEF RestOK
    <3>2. CASE UNCHANGED <<rx_permit, rx_queue>>
      BY <1>0, <3>2 DEF RestOK
    <3>3. QED
      BY <1>19, <3>1, <3>2 DEF RecvDrop
  <2>2. QED
    BY <1>0, <1>19, <2>1, PolledType DEF RecvDrop, RestOK
<1>20. CASE CloseReceiver
  <2>1. waking' \subseteq Calls
    BY <1>0, <1>20 DEF CloseReceiver, close, Called, RestOK, Calls, TxInv
  <2>2. QED
    BY <1>0, <1>20, <2>1 DEF CloseReceiver, close, RestOK
<1>21. CASE Waking
  BY <1>0, <1>21 DEF Waking, Wake, RestOK
<1>22. CASE UNCHANGED vars
  BY <1>0, <1>22 DEF vars, RestOK
<1>23. QED
  BY <1>1, <1>2, <1>3, <1>4, <1>5, <1>6, <1>7, <1>8, <1>9, <1>10, <1>11, <1>12, <1>14, <1>15, <1>16,
     <1>17, <1>18, <1>19, <1>20, <1>21, <1>22 DEF Next, PollSender, PollRecv

(***************************************************************************)
(* The receiver is not left asleep.                                        *)
(***************************************************************************)
Awake(x) == x \in woken \/ <<x, ctx[x]>> \in waking

\* A suspended receiver is registered with the waker of its latest poll until that
\* is called; it has been called once there is a value or no sender any more.
RxInv ==
  recv = "pending" =>
    /\ ctx[Rx] \in Wakers
    /\ rx_waker = ctx[Rx] \/ Awake(Rx)
    /\ buffered > 0 \/ sender_count = 0 => Awake(Rx)

\* A step that neither polls nor wakes the receiver.
LEMMA RxKept ==
  ASSUME RxInv, UNCHANGED <<recv, rx_waker>>, waking \subseteq waking', ctx'[Rx] = ctx[Rx],
         Rx \in woken => Rx \in woken',
         buffered' > 0 \/ sender_count' = 0 => buffered > 0 \/ sender_count = 0
  PROVE  RxInv'
BY DEF RxInv, Awake

\* A step that wakes it.
LEMMA RxWoken ==
  ASSUME RestOK, RxInv, wake_rx, UNCHANGED recv, ctx'[Rx] = ctx[Rx], Rx \in woken => Rx \in woken'
  PROVE  RxInv'
<1>1. waking \subseteq waking' /\ (rx_waker # NoWaker => <<Rx, rx_waker>> \in waking')
  BY WakeRx
<1>2. QED
  BY <1>1, WakersAssumption DEF RxInv, Awake

\* Every step.
LEMMA RxStep == ASSUME TypeOK, Counted, TxInv, RxInv, [Next]_vars PROVE RxInv'
<1>0. RestOK /\ Rx \notin Futures /\ buffered \in Nat /\ sender_count \in Nat
  BY TypeParts, FuturesAssumption DEF RestOK, Counted
<1> USE DEF rxv, handles, slots
<1>a. ASSUME NEW f \in Futures, Ended(f) \/ \E w \in Wakers : Polled(f, w)
      PROVE  ctx'[Rx] = ctx[Rx] /\ (Rx \in woken => Rx \in woken')
  BY <1>0, <1>a, PolledType
<1>1. CASE try_send \/ send_unbounded
  BY <1>0, <1>1, RxWoken DEF try_send, send_unbounded, PushValue
<1>2. CASE CloneSender
  BY <1>0, <1>2, RxKept DEF CloneSender
<1>3. CASE DropSender
  <2>1. CASE sender_count = 1
    BY <1>0, <1>3, <2>1, RxWoken DEF DropSender
  <2>2. CASE sender_count # 1
    BY <1>0, <1>3, <2>2, RxKept DEF DropSender
  <2>3. QED
    BY <2>1, <2>2
<1>4. ASSUME NEW f \in Futures, try_reserve(f) PROVE RxInv'
  BY <1>0, <1>4, RxKept DEF try_reserve, reserve
<1>5. ASSUME NEW f \in Futures, drop_tx_waiter(f) PROVE RxInv'
  <2>1. waking \subseteq waking'
    BY <1>0, <1>5, WakeTx DEF drop_tx_waiter
  <2>2. QED
    BY <1>0, <1>5, <1>a, <2>1, RxKept DEF drop_tx_waiter
<1>6. ASSUME NEW f \in Futures, PermitSend(f) PROVE RxInv'
  BY <1>0, <1>6, RxWoken DEF PermitSend, PushValue
<1>7. ASSUME NEW f \in Futures, PermitDrop(f) PROVE RxInv'
  BY <1>0, <1>7, WakeTx, RxKept DEF PermitDrop, unreserve
<1>8. ASSUME NEW f \in Futures, SendReady(f) PROVE RxInv'
  BY <1>0, <1>8, <1>a, RxWoken DEF SendReady, PushValue
<1>9. ASSUME NEW f \in Futures, ReserveReady(f) PROVE RxInv'
  BY <1>0, <1>9, <1>a, RxKept DEF ReserveReady, reserve
<1>10. ASSUME NEW f \in Futures, NEW kind, SenderClosed(f, kind) PROVE RxInv'
  BY <1>0, <1>10, <1>a, RxKept DEF SenderClosed
<1>11. ASSUME NEW f \in Futures, NEW w \in Wakers, NEW kind, SenderPark(f, w, kind) PROVE RxInv'
  BY <1>0, <1>11, <1>a, RxKept DEF SenderPark
<1>12. ASSUME NEW f \in Futures, NEW w \in Wakers, SenderAgain(f, w) PROVE RxInv'
  BY <1>0, <1>12, <1>a, RxKept DEF SenderAgain
<1>13. CASE try_recv
  BY <1>13 DEF try_recv, RxInv
<1>14. CASE RecvReady \/ RecvNone
  BY <1>0, <1>14 DEF RecvReady, RecvNone, Finished, RxInv
<1>15. ASSUME NEW w \in Wakers, RecvPark(w) \/ RecvAgain(w) PROVE RxInv'
  <2>1. /\ buffered' = 0 /\ sender_count' > 0 /\ rx_waker' = w /\ ctx' = [ctx EXCEPT ![Rx] = w]
    BY <1>15 DEF RecvPark, RecvAgain, Polled
  <2>2. ctx'[Rx] = w
    BY <1>0, <2>1 DEF RestOK
  <2>3. QED
    BY <1>0, <2>1, <2>2 DEF RxInv
<1>16. CASE RecvDrop \/ CloseReceiver
  BY <1>16 DEF RecvDrop, CloseReceiver, RxInv
<1>17. CASE Waking
  <2>1. PICK x \in Futures \cup {Rx}, w \in Wakers : Wake(x, w)
    BY <1>17 DEF Waking
  <2>2. QED
    BY <2>1 DEF Wake, RxInv, Awake
<1>18. CASE UNCHANGED vars
  BY <1>18 DEF vars, RxInv, Awake
<1>19. QED
  BY <1>1, <1>2, <1>3, <1>4, <1>5, <1>6, <1>7, <1>8, <1>9, <1>10, <1>11, <1>12, <1>13, <1>14, <1>15,
     <1>16, <1>17, <1>18 DEF Next, PollSender, PollRecv

(***************************************************************************)
(* Hints reach the sender they are for.                                    *)
(***************************************************************************)
Delivered(f) == IF entry[f] = NoWaker \/ rx_closed THEN Awake(f) ELSE entry[f] = ctx[f]

\* A step that leaves every sender but g alone.
LEMMA HintsKept ==
  ASSUME HintsDelivered, NEW g, OnlyMoves(g), g \in Pending' => Delivered(g)', UNCHANGED rx_closed,
         waking \subseteq waking',
         \A f \in Futures \ {g} : entry'[f] = entry[f] /\ ctx'[f] = ctx[f] /\ (f \in woken => f \in woken')
  PROVE  HintsDelivered'
<1> SUFFICES ASSUME NEW f \in Pending' PROVE Delivered(f)'
  BY DEF HintsDelivered, Delivered, Awake
<1>1. CASE f = g
  BY <1>1
<1>2. CASE f # g
  <2>1. f \in Futures \ {g} /\ f \in Pending
    BY <1>2 DEF OnlyMoves, Pending
  <2>2. QED
    BY <2>1 DEF HintsDelivered, Delivered, Awake
<1>3. QED
  BY <1>1, <1>2

\* A step that announces a slot.
LEMMA HintsWake ==
  ASSUME TxInv, HintsDelivered, wake_one_tx, NEW g, OnlyMoves(g), g \notin Pending', UNCHANGED rx_closed,
         \A f \in Futures \ {g} : ctx'[f] = ctx[f] /\ (f \in woken => f \in woken')
  PROVE  HintsDelivered'
<1>1. (\E f \in Futures : TakesOut(f)) \/ TakesNone
  BY WakeOneTx DEF TxInv
<1>2. CASE TakesNone
  BY <1>2, HintsKept DEF TakesNone
<1>3. ASSUME NEW f \in Futures, TakesOut(f) PROVE HintsDelivered'
  <2>1. /\ entry' = [entry EXCEPT ![f] = NoWaker] /\ waking' = waking \cup {<<f, entry[f]>>}
        /\ entry[f] # NoWaker /\ entry \in [Futures -> Wakers \cup {NoWaker}]
    BY <1>3 DEF TakesOut, TxInv
  <2> SUFFICES ASSUME NEW h \in Pending' PROVE Delivered(h)'
    BY DEF HintsDelivered, Delivered, Awake
  <2>2. h \in Futures \ {g} /\ h \in Pending /\ Delivered(h)
    BY DEF OnlyMoves, Pending, HintsDelivered, Delivered, Awake
  <2>3. CASE h = f
    BY <2>1, <2>2, <2>3 DEF Delivered, Awake
  <2>4. CASE h # f
    BY <2>1, <2>2, <2>4 DEF Delivered, Awake
  <2>5. QED
    BY <2>3, <2>4
<1>4. QED
  BY <1>1, <1>2, <1>3

\* Every step.
LEMMA HintsStep == ASSUME TypeOK, TxInv, HintsDelivered, [Next]_vars PROVE HintsDelivered'
<1>0. /\ RestOK /\ Rx \notin Futures /\ Rx \notin Pending'
      /\ entry \in [Futures -> Wakers \cup {NoWaker}]
  BY TypeParts, FuturesAssumption DEF TxInv, Pending
<1>00. UNCHANGED fut => OnlyMoves(Rx)
  BY DEF OnlyMoves, Pending
<1> USE DEF handles, txv
<1>a. ASSUME NEW x \in Futures \cup {Rx}, Ended(x) \/ \E w \in Wakers : Polled(x, w)
      PROVE  \A f \in Futures \ {x} : ctx'[f] = ctx[f] /\ (f \in woken => f \in woken')
  BY <1>0, <1>a, PolledType
<1>1. CASE try_send \/ send_unbounded
  BY <1>0, <1>00, <1>1, WakeRx, HintsKept DEF try_send, send_unbounded, PushValue
<1>2. CASE CloneSender
  BY <1>0, <1>00, <1>2, HintsKept DEF CloneSender
<1>3. CASE DropSender
  <2>1. waking \subseteq waking'
    BY <1>0, <1>3, WakeRx DEF DropSender
  <2>2. QED
    BY <1>0, <1>00, <1>3, <2>1, HintsKept DEF DropSender
<1>4. ASSUME NEW f \in Futures, try_reserve(f) PROVE HintsDelivered'
  <2>1. OnlyMoves(f) /\ f \notin Pending'
    BY <1>4, BecomeMoves DEF try_reserve
  <2>2. QED
    BY <1>4, <2>1, HintsKept DEF try_reserve
<1>5. ASSUME NEW f \in Futures, drop_tx_waiter(f) PROVE HintsDelivered'
  <2>1. OnlyMoves(f) /\ f \notin Pending' /\ UNCHANGED rx_closed
    BY <1>5, BecomeMoves DEF drop_tx_waiter
  <2>2. \A g \in Futures \ {f} : ctx'[g] = ctx[g] /\ (g \in woken => g \in woken')
    BY <1>5, <1>a DEF drop_tx_waiter
  <2>3. CASE f \in tx!InQueue
    <3>1. entry' = [entry EXCEPT ![f] = NoWaker] /\ UNCHANGED waking
      BY <1>5, <2>3 DEF drop_tx_waiter, remove_tx_waiter
    <3>2. QED
      BY <1>0, <2>1, <2>2, <3>1, HintsKept
  <2>4. CASE f \notin tx!InQueue
    BY <1>5, <2>1, <2>2, <2>4, HintsWake DEF drop_tx_waiter
  <2>5. QED
    BY <2>3, <2>4
<1>6. ASSUME NEW f \in Futures, PermitSend(f) PROVE HintsDelivered'
  <2>1. OnlyMoves(f) /\ f \notin Pending'
    BY <1>6, BecomeMoves DEF PermitSend
  <2>2. QED
    BY <1>0, <1>6, <2>1, WakeRx, HintsKept DEF PermitSend, PushValue
<1>7. ASSUME NEW f \in Futures, PermitDrop(f) PROVE HintsDelivered'
  <2>1. OnlyMoves(f) /\ f \notin Pending'
    BY <1>7, BecomeMoves DEF PermitDrop
  <2>2. QED
    BY <1>7, <2>1, HintsWake DEF PermitDrop
<1>8. ASSUME NEW f \in Futures, SendReady(f) \/ ReserveReady(f) PROVE HintsDelivered'
  <2>1. OnlyMoves(f) /\ f \notin Pending' /\ UNCHANGED rx_closed /\ Withdraw(f) /\ Ended(f)
    BY <1>8, BecomeMoves DEF SendReady, ReserveReady
  <2>2. waking \subseteq waking'
    BY <1>0, <1>8, WakeRx DEF SendReady, ReserveReady, PushValue
  <2>3. \A g \in Futures \ {f} : entry'[g] = entry[g]
    BY <1>0, <2>1 DEF Withdraw, remove_tx_waiter
  <2>4. QED
    BY <1>a, <2>1, <2>2, <2>3, HintsKept
<1>9. ASSUME NEW f \in Futures, NEW kind, SenderClosed(f, kind) PROVE HintsDelivered'
  <2>1. OnlyMoves(f) /\ f \notin Pending'
    BY <1>9, BecomeMoves DEF SenderClosed
  <2>2. QED
    BY <1>9, <1>a, <2>1, HintsKept DEF SenderClosed
<1>10. ASSUME NEW f \in Futures, NEW w \in Wakers, NEW kind \in {"send", "reserve"},
              SenderPark(f, w, kind) \/ SenderAgain(f, w)
       PROVE  HintsDelivered'
  <2>1. OnlyMoves(f)
    BY <1>10, BecomeMoves DEF SenderPark, SenderAgain, OnlyMoves, Pending
  <2>2. /\ entry' = [entry EXCEPT ![f] = w] /\ Polled(f, w) /\ ~rx_closed /\ UNCHANGED <<rx_closed, waking>>
    BY <1>10 DEF SenderPark, SenderAgain
  <2>3. Delivered(f)'
    BY <1>0, <2>2, WakersAssumption DEF Delivered, Polled, RestOK
  <2>4. QED
    BY <1>0, <1>a, <2>1, <2>2, <2>3, HintsKept
<1>11. CASE try_recv \/ RecvReady
  <2>1. /\ OnlyMoves(Rx) /\ UNCHANGED rx_closed /\ PopValue
        /\ \A f \in Futures \ {Rx} : ctx'[f] = ctx[f] /\ (f \in woken => f \in woken')
    BY <1>00, <1>11, <1>a DEF try_recv, RecvReady
  <2>2. CASE Bounded
    BY <1>0, <2>1, <2>2, HintsWake DEF PopValue
  <2>3. CASE ~Bounded
    BY <1>0, <2>1, <2>3, HintsKept DEF PopValue
  <2>4. QED
    BY <2>2, <2>3
<1>12. ASSUME NEW w \in Wakers, RecvNone \/ RecvPark(w) \/ RecvAgain(w) PROVE HintsDelivered'
  <2>1. \A f \in Futures \ {Rx} : ctx'[f] = ctx[f] /\ (f \in woken => f \in woken')
    BY <1>12, <1>a DEF RecvNone, RecvPark, RecvAgain
  <2>2. QED
    BY <1>0, <1>00, <1>12, <2>1, HintsKept DEF RecvNone, RecvPark, RecvAgain
<1>13. CASE RecvDrop
  <2>1. \A f \in Futures \ {Rx} : ctx'[f] = ctx[f] /\ (f \in woken => f \in woken')
    BY <1>13, <1>a DEF RecvDrop
  <2>2. QED
    BY <1>0, <1>00, <1>13, <2>1, HintsKept DEF RecvDrop
<1>14. CASE CloseReceiver
  <2>1. /\ rx_closed' = TRUE /\ UNCHANGED <<ctx, woken, fut>> /\ waking \subseteq waking'
        /\ \A f \in Futures : entry[f] # NoWaker => <<f, entry[f]>> \in waking'
    BY <1>14 DEF CloseReceiver, close, Called
  <2>2. QED
    BY <2>1 DEF HintsDelivered, Pending
<1>15. CASE Waking
  <2>1. PICK x \in Futures \cup {Rx}, w \in Wakers : Wake(x, w)
    BY <1>15 DEF Waking
  <2>2. QED
    BY <2>1 DEF Wake, HintsDelivered, Pending
<1>16. CASE UNCHANGED vars
  BY <1>16 DEF vars, HintsDelivered, Pending
<1>17. QED
  BY <1>1, <1>2, <1>3, <1>4, <1>5, <1>6, <1>7, <1>8, <1>9, <1>10, <1>11, <1>12, <1>13, <1>14, <1>15, <1>16
  DEF Next, PollSender, PollRecv

(***************************************************************************)
(* No slot stays free next to sleeping senders only.                       *)
(***************************************************************************)
Free == capacity - buffered - reserved

Announced == ~rx_closed /\ tx_queue # <<>> => Bounded /\ Cardinality(Hinted) >= Free

\* Sets of futures are finite, and smaller ones have fewer elements.
LEMMA Counting ==
  ASSUME NEW A \in SUBSET Futures, NEW B \in SUBSET Futures
  PROVE  /\ Cardinality(A) \in Nat /\ Cardinality(B) \in Nat
         /\ A \subseteq B => Cardinality(A) <= Cardinality(B)
         /\ \A f \in Futures : /\ A \ {f} \subseteq B => Cardinality(A) - 1 <= Cardinality(B)
                               /\ f \notin A /\ A \cup {f} \subseteq B => Cardinality(A) + 1 <= Cardinality(B)
<1>1. IsFiniteSet(A) /\ IsFiniteSet(B)
  BY FuturesAssumption, FS_Subset
<1>2. Cardinality(A) \in Nat /\ Cardinality(B) \in Nat
  BY <1>1, FS_CardinalityType
<1>3. \A C \in SUBSET B : Cardinality(C) <= Cardinality(B) /\ IsFiniteSet(C)
  BY <1>1, FS_Subset
<1>4. ASSUME NEW f \in Futures, A \ {f} \subseteq B PROVE Cardinality(A) - 1 <= Cardinality(B)
  <2>1. Cardinality(A \ {f}) >= Cardinality(A) - 1
    <3>1. Cardinality(A \ {f}) = IF f \in A THEN Cardinality(A) - 1 ELSE Cardinality(A)
      BY <1>1, FS_RemoveElement
    <3>2. QED
      BY <1>2, <3>1
  <2>2. Cardinality(A \ {f}) <= Cardinality(B) /\ Cardinality(A \ {f}) \in Nat
    BY <1>3, <1>4, FS_CardinalityType
  <2>3. QED
    BY <1>2, <2>1, <2>2
<1>5. ASSUME NEW f \in Futures, f \notin A, A \cup {f} \subseteq B PROVE Cardinality(A) + 1 <= Cardinality(B)
  <2>1. Cardinality(A \cup {f}) = Cardinality(A) + 1
    BY <1>1, <1>5, FS_AddElement
  <2>2. QED
    BY <1>3, <1>5, <2>1
<1>6. QED
  BY <1>2, <1>3, <1>4, <1>5

\* Hinted senders are futures, in this state and in the next.
LEMMA HintedType == Hinted \in SUBSET Futures /\ Hinted' \in SUBSET Futures
BY DEF Hinted, Pending

\* A step that frees no slot and takes the hint of f at most, with a slot.
LEMMA AnnouncedKept ==
  ASSUME Counted, Counted', capacity' = capacity, Announced, rx_closed' = rx_closed,
         ~rx_closed /\ tx_queue' # <<>> => tx_queue # <<>>,
         ~rx_closed => \/ Hinted \subseteq Hinted' /\ Free' <= Free
                       \/ \E f \in Futures : Hinted \ {f} \subseteq Hinted' /\ Free' <= Free - 1
                       \/ \E f \in Futures : f \notin Hinted /\ Hinted \cup {f} \subseteq Hinted' /\ Free' <= Free + 1
  PROVE  Announced'
<1> SUFFICES ASSUME ~rx_closed, tx_queue # <<>> PROVE Bounded' /\ Cardinality(Hinted') >= Free'
  BY DEF Announced
<1>1. Bounded' /\ Cardinality(Hinted) >= Free /\ Free \in Int /\ Free' \in Int
  BY DEF Announced, Bounded, Free, Counted
<1>2. Cardinality(Hinted) \in Nat /\ Cardinality(Hinted') \in Nat
  BY HintedType, Counting
<1>3. CASE Hinted \subseteq Hinted' /\ Free' <= Free
  <2>1. Cardinality(Hinted) <= Cardinality(Hinted')
    BY <1>3, HintedType, Counting
  <2>2. QED
    BY <1>1, <1>2, <1>3, <2>1
<1>4. ASSUME NEW f \in Futures, Hinted \ {f} \subseteq Hinted', Free' <= Free - 1
      PROVE  Bounded' /\ Cardinality(Hinted') >= Free'
  <2>1. Cardinality(Hinted) - 1 <= Cardinality(Hinted')
    BY <1>4, HintedType, Counting
  <2>2. QED
    BY <1>1, <1>2, <1>4, <2>1
<1>5. ASSUME NEW f \in Futures, f \notin Hinted, Hinted \cup {f} \subseteq Hinted', Free' <= Free + 1
      PROVE  Bounded' /\ Cardinality(Hinted') >= Free'
  <2>1. Cardinality(Hinted) + 1 <= Cardinality(Hinted')
    BY <1>5, HintedType, Counting
  <2>2. QED
    BY <1>1, <1>2, <1>5, <2>1
<1>6. QED
  BY <1>3, <1>4, <1>5

\* A step that announces a slot: the head of the queue is hinted.
LEMMA HeadHinted ==
  ASSUME TxInv, wake_one_tx, ~rx_closed, NEW g, OnlyMoves(g), g \notin Queued
  PROVE  \/ tx_queue' = <<>>
         \/ /\ tx_queue # <<>>
            /\ \E f \in Futures : f \notin Hinted /\ f # g /\ (Hinted \ {g}) \cup {f} \subseteq Hinted'
<1>1. (\E f \in Futures : TakesOut(f)) \/ TakesNone
  BY WakeOneTx DEF TxInv
<1>2. ASSUME NEW f \in Futures, TakesOut(f)
      PROVE  tx_queue # <<>> /\ f \notin Hinted /\ f # g /\ (Hinted \ {g}) \cup {f} \subseteq Hinted'
  <2>1. f \in Queued /\ entry[f] # NoWaker /\ entry' = [entry EXCEPT ![f] = NoWaker]
    BY <1>2 DEF TakesOut, Queued
  <2>2. tx_queue # <<>>
    BY <2>1 DEF Queued, Elems
  <2>3. f \in Pending /\ f # g /\ f \in Pending'
    BY <2>1 DEF TxInv, OnlyMoves
  <2>4. QED
    BY <2>1, <2>2, <2>3 DEF Hinted, TxInv, OnlyMoves, Pending
<1>3. QED
  BY <1>1, <1>2 DEF TakesNone

\* Every step.
LEMMA AnnouncedStep ==
  ASSUME TypeOK, Counted, Counted', capacity' = capacity, TxInv, TxInv', Announced, [Next]_vars
  PROVE  Announced'
<1>0. /\ RestOK /\ Rx \notin Futures /\ Rx \notin Queued /\ capacity \in Nat /\ buffered \in Nat /\ reserved \in Nat
      /\ capacity' \in Nat /\ buffered' \in Nat /\ reserved' \in Nat
  BY TypeParts, FuturesAssumption DEF Counted, TxInv, TxOK, Queued, Elems
<1>00. UNCHANGED fut => OnlyMoves(Rx) /\ Pending' = Pending
  BY DEF OnlyMoves, Pending
<1> USE DEF handles, txv, slots
<1>a. ASSUME NEW f \in Futures, ~rx_closed PROVE (f \notin Pending => f \notin Queued) /\ (f \in Queued => f \notin Hinted)
  BY <1>a DEF TxInv, Hinted
<1>1. CASE UNCHANGED <<fut, entry, tx_queue, rx_closed>> /\ Free' <= Free
  <2>1. Hinted' = Hinted
    BY <1>1 DEF Hinted, Pending
  <2>2. QED
    BY <1>1, <2>1, AnnouncedKept
<1>1a. ASSUME UNCHANGED <<fut, entry, tx_queue, rx_closed, capacity, buffered, reserved>> PROVE Announced'
  <2>1. Free' <= Free
    BY <1>0, <1>1a DEF Free
  <2>2. QED
    BY <1>1, <1>1a, <2>1
<1>2. CASE try_send \/ send_unbounded
  <2>1. /\ UNCHANGED <<fut, entry, tx_queue, rx_closed>>
        /\ buffered' = buffered + 1 /\ UNCHANGED <<capacity, reserved>>
    BY <1>2 DEF try_send, send_unbounded, try_push
  <2>2. Free' <= Free
    BY <1>0, <2>1 DEF Free
  <2>3. QED
    BY <1>1, <2>1, <2>2
<1>3. CASE CloneSender \/ DropSender
  <2>1. UNCHANGED <<fut, entry, tx_queue, rx_closed, capacity, buffered, reserved>>
    BY <1>3 DEF CloneSender, DropSender
  <2>2. QED
    BY <1>1a, <2>1
<1>4. ASSUME NEW f \in Futures, try_reserve(f) \/ PermitSend(f) PROVE Announced'
  <2>1. OnlyMoves(f) /\ f \notin Pending /\ UNCHANGED <<entry, tx_queue, rx_closed>>
    BY <1>4, BecomeMoves DEF try_reserve, PermitSend, Pending
  <2>2. Free' <= Free
    <3>1. CASE try_reserve(f)
      <4>1. reserved' = reserved + 1 /\ UNCHANGED <<capacity, buffered>>
        BY <3>1 DEF try_reserve, reserve
      <4>2. QED
        BY <1>0, <4>1 DEF Free
    <3>2. CASE PermitSend(f)
      <4>1. buffered' = buffered + 1 /\ reserved' = reserved - 1 /\ UNCHANGED capacity
        BY <3>2 DEF PermitSend, fill
      <4>2. QED
        BY <1>0, <4>1 DEF Free
    <3>3. QED
      BY <1>4, <3>1, <3>2
  <2>3. Hinted \subseteq Hinted'
    BY <2>1 DEF Hinted, OnlyMoves, Pending
  <2>4. QED
    BY <2>1, <2>2, <2>3, AnnouncedKept
<1>5. ASSUME NEW f \in Futures, drop_tx_waiter(f) PROVE Announced'
  <2>1. OnlyMoves(f) /\ UNCHANGED <<rx_closed, capacity, buffered, reserved>> /\ Free' = Free
    BY <1>5, BecomeMoves DEF drop_tx_waiter, Free
  <2>2. CASE f \in tx!InQueue
    <3>1. tx_queue # <<>> /\ f \in Queued /\ entry' = [entry EXCEPT ![f] = NoWaker]
      BY <1>5, <2>2, InTx DEF drop_tx_waiter, remove_tx_waiter, Queued, Elems
    <3>2. ~rx_closed => Hinted \subseteq Hinted'
      BY <1>a, <2>1, <3>1 DEF Hinted, OnlyMoves, Pending, TxInv
    <3>3. QED
      BY <1>0, <2>1, <3>1, <3>2, AnnouncedKept DEF Free
  <2>3. CASE f \notin tx!InQueue
    <3>1. f \notin Queued /\ wake_one_tx
      BY <1>5, <2>3, InTx DEF drop_tx_waiter, Queued
    <3> SUFFICES ASSUME ~rx_closed, tx_queue' # <<>> PROVE Announced'
      BY <2>1 DEF Announced
    <3>2. PICK h \in Futures : tx_queue # <<>> /\ h \notin Hinted /\ h # f /\ (Hinted \ {f}) \cup {h} \subseteq Hinted'
      BY <2>1, <3>1, HeadHinted
    <3>3. Cardinality(Hinted) <= Cardinality(Hinted')
      <4> DEFINE A == Hinted \ {f}
      <4>1. A \in SUBSET Futures /\ Hinted \in SUBSET Futures /\ Hinted' \in SUBSET Futures
        BY HintedType
      <4>2. Cardinality(Hinted) - 1 <= Cardinality(A) /\ Cardinality(A) \in Nat /\ Cardinality(Hinted) \in Nat
        BY <4>1, Counting
      <4>3. Cardinality(A) + 1 <= Cardinality(Hinted') /\ Cardinality(Hinted') \in Nat
        BY <3>2, <4>1, Counting
      <4> HIDE DEF A
      <4>4. QED
        BY <4>2, <4>3
    <3>4. Bounded' /\ Cardinality(Hinted) >= Free
      BY <2>1, <3>2 DEF Announced, Bounded
    <3>5. Cardinality(Hinted) \in Nat /\ Cardinality(Hinted') \in Nat /\ Free \in Int
      BY <1>0, HintedType, Counting DEF Free
    <3>6. Cardinality(Hinted') >= Free'
      BY <2>1, <3>3, <3>4, <3>5
    <3>7. QED
      BY <3>4, <3>6 DEF Announced
  <2>4. QED
    BY <2>2, <2>3
<1>6. ASSUME wake_one_tx, NEW g, OnlyMoves(g), g \notin Pending, g \notin Queued \/ rx_closed, UNCHANGED rx_closed, Free' <= Free + 1
      PROVE  Announced'
  <2> SUFFICES ASSUME ~rx_closed, tx_queue' # <<>> PROVE Announced'
    BY <1>6 DEF Announced
  <2>1. PICK h \in Futures : tx_queue # <<>> /\ h \notin Hinted /\ h # g /\ (Hinted \ {g}) \cup {h} \subseteq Hinted'
    BY <1>6, HeadHinted
  <2>2. g \notin Hinted
    BY <1>6 DEF Hinted
  <2>3. Hinted \cup {h} \subseteq Hinted'
    BY <2>1, <2>2
  <2>4. QED
    BY <1>6, <2>1, <2>3, AnnouncedKept
<1>7. ASSUME NEW f \in Futures, PermitDrop(f) PROVE Announced'
  <2>1. OnlyMoves(f) /\ f \notin Pending /\ (f \notin Queued \/ rx_closed) /\ wake_one_tx /\ UNCHANGED rx_closed
    BY <1>7, <1>a, BecomeMoves DEF PermitDrop, Pending
  <2>2. Free' <= Free + 1
    BY <1>0, <1>7 DEF PermitDrop, unreserve, Free
  <2>3. QED
    BY <1>6, <2>1, <2>2
<1>8. ASSUME NEW f \in Futures, SendReady(f) \/ ReserveReady(f) PROVE Announced'
  <2>1. OnlyMoves(f) /\ UNCHANGED rx_closed /\ Withdraw(f) /\ ~rx_closed
    BY <1>8, BecomeMoves DEF SendReady, ReserveReady
  <2>2. Free' <= Free - 1
    <3>1. \/ buffered' = buffered + 1 /\ UNCHANGED <<capacity, reserved>>
          \/ reserved' = reserved + 1 /\ UNCHANGED <<capacity, buffered>>
      BY <1>8 DEF SendReady, ReserveReady, try_push, reserve
    <3>2. CASE buffered' = buffered + 1 /\ UNCHANGED <<capacity, reserved>>
      BY <1>0, <3>2 DEF Free
    <3>3. CASE reserved' = reserved + 1 /\ UNCHANGED <<capacity, buffered>>
      BY <1>0, <3>3 DEF Free
    <3>4. QED
      BY <3>1, <3>2, <3>3
  <2>3. /\ \A g \in Futures \ {f} : entry'[g] = entry[g]
        /\ tx_queue' # <<>> => tx_queue # <<>>
    <3>1. CASE fut[f] = "idle"
      BY <2>1, <3>1 DEF Withdraw
    <3>2. CASE fut[f] # "idle"
      <4>1. Elems(tx_queue') = Elems(tx_queue) \ {f} /\ tx_queue' \in Seq(Futures) /\ entry' = [entry EXCEPT ![f] = NoWaker]
        BY <2>1, <3>2, RemoveTx DEF Withdraw, remove_tx_waiter, TxInv, TxOK
      <4>2. tx_queue' # <<>> => tx_queue'[1] \in Elems(tx_queue')
        <5>1. tx_queue' # <<>> => Len(tx_queue') \in Nat \ {0}
          BY <4>1
        <5>2. QED
          BY <5>1 DEF Elems
      <4>3. Elems(<<>>) = {}
        BY DEF Elems
      <4>4. tx_queue' # <<>> => tx_queue # <<>>
        BY <4>1, <4>2, <4>3
      <4>5. QED
        BY <4>1, <4>4 DEF TxInv
    <3>3. QED
      BY <3>1, <3>2
  <2>4. Hinted \ {f} \subseteq Hinted'
    BY <2>1, <2>3 DEF Hinted, OnlyMoves, Pending
  <2>5. QED
    BY <2>1, <2>2, <2>3, <2>4, AnnouncedKept
<1>9. ASSUME NEW f \in Futures, NEW kind, SenderClosed(f, kind) PROVE Announced'
  BY <1>9 DEF SenderClosed, Announced
<1>10. ASSUME NEW f \in Futures, NEW w \in Wakers, NEW kind, SenderPark(f, w, kind) PROVE Announced'
  <2>1. Bounded' /\ Free' <= 0 /\ Free' \in Int
    BY <1>0, <1>10 DEF SenderPark, HasSlot, Bounded, Free
  <2>2. Cardinality(Hinted') \in Nat
    BY HintedType, Counting
  <2>3. QED
    BY <2>1, <2>2 DEF Announced
<1>11. ASSUME NEW f \in Futures, NEW w \in Wakers, SenderAgain(f, w) PROVE Announced'
  <2>1. /\ UNCHANGED <<fut, tx_queue, rx_closed>> /\ entry' = [entry EXCEPT ![f] = w] /\ entry[f] # NoWaker
        /\ Free' = Free
    BY <1>11 DEF SenderAgain, Free
  <2>2. Hinted \subseteq Hinted'
    BY <2>1 DEF Hinted, Pending, TxInv
  <2>3. Free \in Int
    BY <1>0 DEF Free
  <2>4. Free' <= Free
    BY <2>1, <2>3
  <2>5. QED
    BY <2>1, <2>2, <2>4, AnnouncedKept
<1>12. CASE try_recv \/ RecvReady
  <2>1. OnlyMoves(Rx) /\ UNCHANGED <<fut, rx_closed>> /\ PopValue
    BY <1>00, <1>12 DEF try_recv, RecvReady
  <2>2. Free' <= Free + 1
    BY <1>0, <2>1 DEF PopValue, pop, Free
  <2>3. CASE Bounded
    <3>1. wake_one_tx /\ UNCHANGED rx_closed
      BY <2>1, <2>3 DEF PopValue
    <3>2. Rx \notin Pending
      BY <1>0 DEF Pending
    <3>3. QED
      BY <1>0, <1>6, <2>1, <2>2, <3>1, <3>2
  <2>4. CASE ~Bounded
    BY <2>1, <2>4 DEF PopValue, Announced
  <2>5. QED
    BY <2>3, <2>4
<1>13. ASSUME NEW w \in Wakers, RecvNone \/ RecvPark(w) \/ RecvAgain(w) PROVE Announced'
  <2>1. UNCHANGED <<fut, entry, tx_queue, rx_closed, capacity, buffered, reserved>>
    BY <1>13 DEF RecvNone, RecvPark, RecvAgain
  <2>2. QED
    BY <1>1a, <2>1
<1>14. CASE RecvDrop \/ Waking
  <2>1. UNCHANGED <<fut, entry, tx_queue, rx_closed, capacity, buffered, reserved>>
    BY <1>14 DEF RecvDrop, Waking, Wake
  <2>2. QED
    BY <1>1a, <2>1
<1>15. CASE CloseReceiver
  BY <1>15 DEF CloseReceiver, close, Announced
<1>16. CASE UNCHANGED vars
  BY <1>1a, <1>16 DEF vars
<1>17. QED
  BY <1>2, <1>3, <1>4, <1>5, <1>7, <1>8, <1>9, <1>10, <1>11, <1>12, <1>13, <1>14, <1>15, <1>16
  DEF Next, PollSender, PollRecv

(***************************************************************************)
(* Theorems.                                                               *)
(***************************************************************************)
IInv == TypeOK /\ Counted /\ TxInv /\ RxInv /\ HintsDelivered /\ Announced

\* A new channel satisfies the invariant.
LEMMA IInvInit == Init => IInv
<1> SUFFICES ASSUME Init PROVE IInv
  OBVIOUS
<1>1. /\ buffered = 0 /\ reserved = 0 /\ buffer = 0 /\ tx_permit = 0 /\ tx_queue = <<>>
      /\ rx_permit = 0 /\ rx_queue = <<>> /\ capacity \in Nat
  BY CapacityAssumption DEF Init, tx!with_permits, rx!with_permits
<1>2. Permits = {} /\ Pending = {}
  BY DEF Init, Permits, Pending
<1>3. Counted
  BY <1>1, <1>2, FS_EmptySet DEF Counted
<1>4. TxInv
  BY <1>1 DEF Init, TxInv, TxOK, Once, Queued, Elems
<1>5. TypeOK
  <2>1. /\ entry \in [Futures -> Wakers \cup {NoWaker}]
        /\ fut \in [Futures -> {"idle", "send", "reserve", "failed", "permit"}]
        /\ ctx \in [Futures \cup {Rx} -> Wakers \cup {NoWaker}]
    BY DEF Init
  <2>2. tx_queue \in Seq(Futures) /\ rx_queue \in Seq({Rx})
    BY <1>1
  <2>3. /\ waking \subseteq (Futures \cup {Rx}) \X Wakers /\ woken \subseteq Futures \cup {Rx}
        /\ rx_waker \in Wakers \cup {NoWaker} /\ sender_count \in Nat /\ rx_closed \in BOOLEAN
        /\ recv \in {"idle", "pending", "done", "gone"}
    BY DEF Init
  <2>4. QED
    BY <1>1, <2>1, <2>2, <2>3 DEF Init, TypeOK
<1>6. RxInv /\ HintsDelivered /\ Announced
  BY <1>1, <1>2 DEF Init, RxInv, HintsDelivered, Announced
<1>7. QED
  BY <1>3, <1>4, <1>5, <1>6 DEF IInv

\* Every step keeps it.
LEMMA IInvStep == IInv /\ [Next]_vars => IInv'
<1> SUFFICES ASSUME IInv, [Next]_vars PROVE IInv'
  OBVIOUS
<1> USE DEF IInv
<1>1. Counted' /\ capacity' = capacity /\ buffer' \in Nat
  BY SlotStep
<1>2. TxInv'
  BY TxStep
<1>3. RestOK'
  BY RestStep
<1>4. TypeOK'
  BY <1>1, <1>2, <1>3, TypeParts
<1>5. RxInv' /\ HintsDelivered'
  BY RxStep, HintsStep
<1>6. Announced'
  BY <1>1, <1>2, AnnouncedStep
<1>7. QED
  BY <1>1, <1>2, <1>4, <1>5, <1>6

\* The state of a channel stays well typed.
THEOREM MpscTypes == Spec => []TypeOK
<1>1. IInv => TypeOK
  BY DEF IInv
<1>2. QED
  BY <1>1, IInvInit, IInvStep, PTL DEF Spec

\* The kernel's counts, the buffer and the living Permits agree and fit into the
\* capacity, no hint is stored, and queue and wakers hold the same senders.
THEOREM MpscBooks == Spec => []BooksAgree
<1>1. IInv => BooksAgree
  BY TxInvMeans DEF IInv, BooksAgree, SlotsAccounted, Counted, Permits
<1>2. QED
  BY <1>1, IInvInit, IInvStep, PTL DEF Spec

\* A free slot, or the end of the channel, reaches a sender that waits, whichever
\* senders come, are cancelled or are woken in vain.
THEOREM SendersServed == Spec => []SendersReachable
<1>1. IInv => SendersReachable
  BY DEF IInv, SendersReachable, Announced, NoStuckSender, Free
<1>2. QED
  BY <1>1, IInvInit, IInvStep, PTL DEF Spec

\* A suspended receiver learns of every value and of the end of the channel.
THEOREM ReceiverServed == Spec => []NoStuckReceiver
<1>1. IInv => NoStuckReceiver
  BY DEF IInv, RxInv, NoStuckReceiver, Awake
<1>2. QED
  BY <1>1, IInvInit, IInvStep, PTL DEF Spec

=============================================================================

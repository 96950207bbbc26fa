------------------------------- MODULE Watch -------------------------------
(***************************************************************************)
(* lion-utility/src/sync/watch.rs: one value with a version; receivers     *)
(* wait for a version they have not seen.  Of the value only the answer of *)
(* the predicate given to wait_for matters.  wait_for is an async fn: it   *)
(* takes the mutex three times, with other threads in between.             *)
(***************************************************************************)
EXTENDS Subscribers

VARIABLES
  value,     \* whether the predicate holds of the value
  call       \* each receiver's wait_for: none, about to look at the value, waiting
             \* for a change, about to take the value, returned with a value

wvars == <<svars, value, call>>
watchv == <<value, call>>

WatchTypeOK ==
  /\ SubscribersTypeOK
  /\ value \in BOOLEAN /\ call \in [Futures -> {"none", "look", "change", "take", "got"}]

CallsInit == value \in BOOLEAN /\ call = [f \in Futures |-> "none"]
WatchInit == SubscribersInit(1) /\ CallsInit

Call(f, s) == call' = [call EXCEPT ![f] = s]
Free(f) == call[f] = "none"

\* Sender::send, send_replace and send_modify.  A Sender is not cloned.
watch_send(v) ==
  /\ ~closed /\ version < MaxVersion
  /\ value' = v /\ version' = version + 1
  /\ wake_all
  /\ UNCHANGED <<closed, rxs, call>>

\* Drop for Sender
watch_drop_sender ==
  /\ ~closed
  /\ closed' = TRUE
  /\ wake_all
  /\ UNCHANGED <<version, rxs, watchv>>

borrow_and_update(f) ==
  /\ fut[f] = "idle" /\ Free(f)
  /\ See(f, version)
  /\ UNCHANGED <<version, closed, wait, fut, ctx, woken, watchv>>

\* Changed::poll, a new version.
ChangedReady(f) ==
  /\ fut[f] \in {"idle", "pending"} /\ call[f] \in {"none", "change"} /\ seen[f] # version
  /\ See(f, version)
  /\ Become(f, "done") /\ Ended(f)
  /\ UNCHANGED <<version, closed, wait, watchv>>

\* Changed::poll, nothing new and the sender dropped.
ChangedClosed(f) ==
  /\ call[f] \in {"none", "change"} /\ seen[f] = version
  /\ Closed(f)
  /\ UNCHANGED watchv

\* Changed::poll, Pending.
ChangedPending(f, w) ==
  /\ call[f] \in {"none", "change"} /\ seen[f] = version
  /\ Park(f, w) \/ Again(f, w)
  /\ UNCHANGED watchv

\* The future is dropped: changed() alone, or inside wait_for, where an answer
\* goes back to the loop, Err ends the call and so does cancelling it.
DropChanged(f) ==
  /\ DropFuture(f)
  /\ Call(f, IF call[f] = "change" /\ fut[f] = "done" THEN "look" ELSE "none")
  /\ UNCHANGED value

wait_for(f) ==
  /\ fut[f] = "idle" /\ Free(f)
  /\ Call(f, "look")
  /\ UNCHANGED <<svars, value>>

\* The loop's critical section: leave it, return Err, or wait for a change.
WaitForLook(f) ==
  /\ call[f] = "look"
  /\ Call(f, IF value THEN "take" ELSE IF closed THEN "none" ELSE "change")
  /\ UNCHANGED <<svars, value>>

\* The critical section after the loop.
WaitForTake(f) ==
  /\ call[f] = "take"
  /\ See(f, version)
  /\ Call(f, "got")
  /\ UNCHANGED <<version, closed, wait, fut, ctx, woken, value>>

\* The WatchRef is dropped; until then it holds the mutex.
WatchRefDrop(f) ==
  /\ call[f] = "got"
  /\ Call(f, "none")
  /\ UNCHANGED <<svars, value>>

MutexFree == \A f \in Futures : call[f] # "got"

WatchReceiver(f) ==
  \/ borrow_and_update(f) \/ ChangedReady(f) \/ ChangedClosed(f) \/ DropChanged(f)
  \/ wait_for(f) \/ WaitForLook(f) \/ WaitForTake(f)
  \/ \E w \in Wakers : ChangedPending(f, w)
  \/ /\ Free(f) /\ UNCHANGED watchv
     /\ \/ subscribe(f) \/ DropReceiver(f)
        \/ \E g \in Futures : Free(g) /\ CloneReceiver(f, g)

WatchNext ==
  \/ /\ MutexFree
     /\ (\E v \in BOOLEAN : watch_send(v)) \/ watch_drop_sender \/ \E f \in Futures : WatchReceiver(f)
  \/ \E f \in Futures : WatchRefDrop(f)
  \/ \E f \in Futures, w \in Wakers : Wake(f, w) /\ UNCHANGED watchv

WatchSpec == WatchInit /\ [][WatchNext]_wvars

=============================================================================

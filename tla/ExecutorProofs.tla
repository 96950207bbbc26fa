--------------------------- MODULE ExecutorProofs ---------------------------
(***************************************************************************)
(* Proofs about Executor for every number of tasks, helper threads and     *)
(* runtimes, every event_interval and every queue bound.                   *)
(***************************************************************************)
EXTENDS Executor, TLAPS

(***************************************************************************)
(* What queue operations do to the set of queued ids.                      *)
(***************************************************************************)
\* Appending adds exactly the appended id.
LEMMA ElemsAppend ==
  ASSUME NEW S, NEW s \in Seq(S), NEW x \in S
  PROVE  /\ Append(s, x) \in Seq(S)
         /\ Elems(Append(s, x)) = Elems(s) \cup {x}
<1>1. /\ Append(s, x) \in Seq(S) /\ Len(Append(s, x)) = Len(s) + 1 /\ Len(s) \in Nat
      /\ \A i \in 1 .. Len(s) : Append(s, x)[i] = s[i]
      /\ Append(s, x)[Len(s) + 1] = x
  OBVIOUS
<1>2. QED
  BY <1>1 DEF Elems

\* Popping the head removes nothing but the head.
LEMMA ElemsTail ==
  ASSUME NEW S, NEW s \in Seq(S), s # <<>>
  PROVE  /\ Head(s) \in S
         /\ Tail(s) \in Seq(S)
         /\ Elems(s) = {Head(s)} \cup Elems(Tail(s))
<1>1. /\ Head(s) = s[1] /\ Len(s) \in Nat \ {0} /\ Tail(s) \in Seq(S)
      /\ Len(Tail(s)) = Len(s) - 1
      /\ \A i \in 1 .. Len(s) - 1 : Tail(s)[i] = s[i + 1]
      /\ \A i \in 1 .. Len(s) : s[i] \in S
  OBVIOUS
<1>2. ASSUME NEW e \in Elems(s) PROVE e \in {Head(s)} \cup Elems(Tail(s))
  <2>1. PICK i \in 1 .. Len(s) : e = s[i]
    BY DEF Elems
  <2>2. CASE i = 1
    BY <1>1, <2>1, <2>2
  <2>3. CASE i # 1
    <3>1. i - 1 \in 1 .. Len(Tail(s)) /\ Tail(s)[i - 1] = e
      BY <1>1, <2>1, <2>3
    <3>2. QED
      BY <3>1 DEF Elems
  <2>4. QED
    BY <2>2, <2>3
<1>3. ASSUME NEW e \in {Head(s)} \cup Elems(Tail(s)) PROVE e \in Elems(s)
  <2>1. CASE e = Head(s)
    BY <1>1, <2>1 DEF Elems
  <2>2. CASE e \in Elems(Tail(s))
    <3>1. PICK i \in 1 .. Len(Tail(s)) : e = Tail(s)[i]
      BY <2>2 DEF Elems
    <3>2. i + 1 \in 1 .. Len(s) /\ s[i + 1] = e
      BY <1>1, <3>1
    <3>3. QED
      BY <3>2 DEF Elems
  <2>3. QED
    BY <1>3, <2>1, <2>2
<1>4. QED
  BY <1>1, <1>2, <1>3

\* The ids are numbers, apart from the block_on future and from no task.
LEMMA IdFacts == /\ Ids \subseteq AllIds /\ Main \in AllIds /\ Main \notin Ids
                 /\ Nobody \notin AllIds /\ Nobody # Main
                 /\ \A t \in AllIds : t # Main => t \in Ids
BY ConstantsAssumption DEF Ids, AllIds, Main, Nobody

(***************************************************************************)
(* Type correctness.                                                       *)
(***************************************************************************)
\* Pushing onto a wake queue keeps queue and flags well-typed.
LEMMA PushedType ==
  ASSUME NEW q \in Seq(AllIds), NEW t \in AllIds
  PROVE  Pushed(q, t) \in Seq(AllIds)
BY ElemsAppend DEF Pushed

\* So does moving an id into the local queue: the ledger filters it.
LEMMA EnqueueType ==
  ASSUME TypeOK, NEW t, Enqueue(t)
  PROVE  local' \in Seq(Ids)
<1>1. CASE t \in ledger
  BY <1>1, ElemsAppend DEF Enqueue, TypeOK
<1>2. CASE t \notin ledger
  BY <1>2 DEF Enqueue, TypeOK
<1>3. QED
  BY <1>1, <1>2

\* Every step of every thread keeps the types.
LEMMA TypeStep == TypeOK /\ Control /\ [Next]_vars => TypeOK'
<1> SUFFICES ASSUME TypeOK, Control, [Next]_vars PROVE TypeOK'
  OBVIOUS
<1> USE ConstantsAssumption, IdFacts
<1>1. ASSUME NEW t \in AllIds, WakeLocal(t) \/ TimerWake(t) PROVE TypeOK'
  <2>1. CASE WakeLocal(t)
    BY <2>1, PushedType DEF WakeLocal, push_task_ready, SetNotified, TypeOK, execv, shared, helpv
  <2>2. CASE TimerWake(t)
    BY <2>2, PushedType DEF TimerWake, push_task_ready, SetNotified, TypeOK, execv, shared, helpv
  <2>3. QED
    BY <1>1, <2>1, <2>2
<1>2. CASE Yield
  <2>1. cur \in AllIds
    BY <1>2 DEF Yield, Control, TypeOK
  <2>2. QED
    BY <1>2, <2>1, ElemsAppend DEF Yield, TypeOK, execv, shared, helpv
<1>3. CASE SpawnLocal
  <2>1. next_id \in Ids
    BY <1>3 DEF SpawnLocal, TypeOK, Ids
  <2>2. QED
    BY <1>3, <2>1, ElemsAppend DEF SpawnLocal, TypeOK, tlsq, execv, helpv, ghost
<1>4. CASE BlockOn
  BY <1>4 DEF BlockOn, PollMain, TypeOK, tlsq, execv, shared, helpv, PCs
<1>5. CASE NewRuntime
  <2>1. 1 \in 1 .. MaxTasks + 1
    OBVIOUS
  <2>2. hpc' \in [Helpers -> {"idle", "send", "swap", "write"}] /\ hid' \in [Helpers -> Ids \cup {Nobody}]
    BY <1>5 DEF NewRuntime
  <2>3. <<>> \in Seq(Ids) /\ <<>> \in Seq(AllIds)
    OBVIOUS
  <2>4. runs' \in Nat /\ stale' \subseteq AllIds
    BY <1>5 DEF NewRuntime, TypeOK
  <2>5. QED
    BY <1>5, <2>1, <2>2, <2>3, <2>4 DEF NewRuntime, TypeOK, tlsq
<1>6. CASE MainReady \/ MainPending
  BY <1>6 DEF MainReady, MainPending, TypeOK, tlsq, execv, shared, helpv, ghost, PCs, Stages
<1>7. CASE TaskReady \/ TaskPending
  BY <1>7 DEF TaskReady, TaskPending, Control, TypeOK, tlsq, execv, shared, helpv, ghost, PCs
<1>8. CASE WakeDeferred
  <2>1. CASE deferred # <<>>
    <3>1. Tail(deferred) \in Seq(AllIds)
      BY <2>1, ElemsTail DEF TypeOK
    <3>2. local' \in Seq(Ids)
      BY <1>8, <2>1, EnqueueType DEF WakeDeferred
    <3>3. QED
      BY <1>8, <2>1, <3>1, <3>2 DEF WakeDeferred, TypeOK, shared, helpv, ghost
  <2>2. CASE deferred = <<>>
    BY <1>8, <2>2 DEF WakeDeferred, TypeOK, shared, helpv, ghost, PCs
  <2>3. QED
    BY <2>1, <2>2
<1>9. CASE PopInjection
  <2>1. injection # <<>> => Head(injection) \in Ids /\ Tail(injection) \in Seq(Ids)
    BY ElemsTail DEF TypeOK
  <2>2. CASE InjectionFresh
    <3>1. Append(local, Head(injection)) \in Seq(Ids)
      BY <2>1, <2>2, ElemsAppend DEF InjectionFresh, TypeOK
    <3>2. QED
      BY <1>9, <2>1, <2>2, <3>1 DEF PopInjection, InjectionFresh, TypeOK, tlsq, helpv, ghost
  <2>3. CASE ~InjectionFresh
    BY <1>9, <2>1, <2>3 DEF PopInjection, EnterLoop, TypeOK, tlsq, helpv, ghost, PCs, Stages
  <2>4. QED
    BY <2>2, <2>3
<1>10. CASE LoopFull
  BY <1>10 DEF LoopFull, LeaveLoop, PollMain, TypeOK, tlsq, execv, shared, helpv, PCs, Stages
<1>11. CASE NextLocal
  <2>1. Head(local) \in Ids /\ Tail(local) \in Seq(Ids)
    BY <1>11, ElemsTail DEF NextLocal, TypeOK
  <2>2. QED
    BY <1>11, <2>1 DEF NextLocal, PollTask, clear_notified, TypeOK, shared, helpv, PCs
<1>12. CASE NextDrain \/ ParkDrain
  BY <1>12 DEF NextDrain, ParkDrain, TypeOK, tlsq, execv, shared, helpv, ghost, PCs
<1>13. CASE PickDrained
  <2>1. Head(local) \in Ids /\ Tail(local) \in Seq(Ids)
    BY <1>13, ElemsTail DEF PickDrained, TypeOK
  <2>2. QED
    BY <1>13, <2>1 DEF PickDrained, PollTask, clear_notified, Control, TypeOK, shared, helpv, PCs
<1>14. CASE PickInjected
  <2>1. Head(injection) \in Ids /\ Tail(injection) \in Seq(Ids)
    BY <1>14, ElemsTail DEF PickInjected, InjectionFresh, TypeOK
  <2>2. QED
    BY <1>14, <2>1 DEF PickInjected, PollTask, clear_notified, Control, TypeOK, helpv, PCs
<1>15. CASE PickNone
  <2>1. injection # <<>> => Tail(injection) \in Seq(Ids)
    BY ElemsTail DEF TypeOK
  <2>2. QED
    BY <1>15, <2>1 DEF PickNone, LeaveLoop, PollMain, TypeOK, tlsq, execv, helpv, PCs, Stages
<1>16. CASE DrainReactor
  <2>1. CASE reactor_ready # <<>>
    <3>1. Tail(reactor_ready) \in Seq(AllIds)
      BY <2>1, ElemsTail DEF TypeOK
    <3>2. local' \in Seq(Ids)
      BY <1>16, <2>1, EnqueueType DEF DrainReactor
    <3>3. QED
      BY <1>16, <2>1, <3>1, <3>2 DEF DrainReactor, TypeOK, shared, helpv, ghost
  <2>2. CASE reactor_ready = <<>>
    BY <1>16, <2>2 DEF DrainReactor, TypeOK, shared, helpv, ghost, PCs
  <2>3. QED
    BY <2>1, <2>2
<1>17. CASE DrainCrossThread
  <2>1. Head(cross) \in AllIds /\ Tail(cross) \in Seq(AllIds)
    BY <1>17, ElemsTail DEF DrainCrossThread, TypeOK
  <2>2. QED
    BY <1>17, <2>1, PushedType
    DEF DrainCrossThread, push_task_ready, SetNotified, TypeOK, execv, helpv, ghost
<1>18. CASE CrossDrained
  BY <1>18 DEF CrossDrained, TypeOK, tlsq, execv, shared, helpv, ghost, PCs
<1>19. CASE DrainTaskReady
  <2>1. CASE task_ready # <<>>
    <3>1. Tail(task_ready) \in Seq(AllIds)
      BY <2>1, ElemsTail DEF TypeOK
    <3>2. local' \in Seq(Ids)
      BY <1>19, <2>1, EnqueueType DEF DrainTaskReady
    <3>3. QED
      BY <1>19, <2>1, <3>1, <3>2 DEF DrainTaskReady, TypeOK, shared, helpv, ghost
  <2>2. CASE task_ready = <<>>
    BY <1>19, <2>2 DEF DrainTaskReady, EnterLoop, TypeOK, shared, helpv, ghost, PCs, Stages
  <2>3. QED
    BY <2>1, <2>2
<1>20. CASE ResetInterrupt
  BY <1>20 DEF ResetInterrupt, TypeOK, tlsq, execv, helpv, ghost, PCs
<1>21. CASE ParkEnter
  <2>1. RequireTimeout \in BOOLEAN
    BY DEF RequireTimeout
  <2>2. QED
    BY <1>21, <2>1 DEF ParkEnter, TypeOK, execv, shared, helpv, ghost, PCs
<1>22. CASE ParkReturn
  BY <1>22 DEF ParkReturn, TypeOK, tlsq, execv, helpv, ghost, PCs, Stages
<1>23. ASSUME NEW t \in AllIds, ReactorWake(t) PROVE TypeOK'
  BY <1>23, PushedType DEF ReactorWake, push_reactor_ready, SetNotified, TypeOK, execv, shared, helpv
<1>24. ASSUME NEW h \in Helpers, NEW t \in AllIds, WakeRemote(h, t) PROVE TypeOK'
  BY <1>24, ElemsAppend DEF WakeRemote, TypeOK, tlsq, execv
<1>25. ASSUME NEW h \in Helpers, SpawnAlloc(h) PROVE TypeOK'
  <2>1. next_id \in Ids
    BY <1>25 DEF SpawnAlloc, TypeOK, Ids
  <2>2. QED
    BY <1>25, <2>1 DEF SpawnAlloc, TypeOK, tlsq, execv, ghost
<1>26. ASSUME NEW h \in Helpers, SpawnSend(h) PROVE TypeOK'
  <2>1. hid[h] \in Ids
    BY <1>26 DEF SpawnSend, Control, TypeOK
  <2>2. QED
    BY <1>26, <2>1, ElemsAppend DEF SpawnSend, TypeOK, tlsq, execv, ghost
<1>27. ASSUME NEW h \in Helpers, InterruptSwap(h) \/ InterruptWrite(h) PROVE TypeOK'
  BY <1>27 DEF InterruptSwap, InterruptWrite, TypeOK, tlsq, execv, ghost
<1>28. CASE UNCHANGED vars
  BY <1>28 DEF vars, TypeOK, tlsq, execv, shared, helpv, ghost
<1>29. QED
  BY <1>1, <1>2, <1>3, <1>4, <1>5, <1>6, <1>7, <1>8, <1>9, <1>10, <1>11, <1>12, <1>13, <1>14,
     <1>15, <1>16, <1>17, <1>18, <1>19, <1>20, <1>21, <1>22, <1>23, <1>24, <1>25, <1>26, <1>27, <1>28
  DEF Next, UserStep, PollEnd, RuntimeStep, ReactorStep, HelperStep, HelperCall

(***************************************************************************)
(* Control flow of the runtime thread.                                     *)
(***************************************************************************)
\* Every step keeps the runtime thread within tick's control flow and budget.
LEMMA ControlStep == TypeOK /\ Control /\ [Next]_vars => Control'
<1> SUFFICES ASSUME TypeOK, Control, [Next]_vars PROVE Control'
  OBVIOUS
<1> USE ConstantsAssumption, IdFacts DEF Control, Loops, Drains
<1>1. ASSUME NEW t \in AllIds, WakeLocal(t) \/ ReactorWake(t) \/ TimerWake(t) PROVE Control'
  BY <1>1 DEF WakeLocal, ReactorWake, TimerWake, helpv
<1>2. CASE Yield
  BY <1>2 DEF Yield, helpv
<1>3. CASE SpawnLocal
  BY <1>3 DEF SpawnLocal, helpv
<1>4. CASE BlockOn
  BY <1>4 DEF BlockOn, PollMain, helpv
<1>5. CASE NewRuntime
  BY <1>5 DEF NewRuntime
<1>6. CASE MainReady \/ MainPending
  BY <1>6 DEF MainReady, MainPending, helpv
<1>7. CASE TaskReady \/ TaskPending
  BY <1>7 DEF TaskReady, TaskPending, helpv
<1>8. CASE WakeDeferred
  BY <1>8 DEF WakeDeferred, helpv
<1>9. CASE PopInjection
  BY <1>9 DEF PopInjection, EnterLoop, helpv
<1>10. CASE LoopFull
  BY <1>10 DEF LoopFull, LeaveLoop, PollMain, helpv
<1>11. CASE NextLocal
  <2>1. Head(local) \in Ids
    BY <1>11, ElemsTail DEF NextLocal, TypeOK
  <2>2. QED
    BY <1>11, <2>1 DEF NextLocal, PollTask, helpv
<1>12. CASE NextDrain \/ ParkDrain
  BY <1>12 DEF NextDrain, ParkDrain, helpv
<1>13. CASE PickDrained
  <2>1. Head(local) \in Ids
    BY <1>13, ElemsTail DEF PickDrained, TypeOK
  <2>2. QED
    BY <1>13, <2>1 DEF PickDrained, PollTask, helpv
<1>14. CASE PickInjected
  <2>1. Head(injection) \in Ids
    BY <1>14, ElemsTail DEF PickInjected, InjectionFresh, TypeOK
  <2>2. QED
    BY <1>14, <2>1 DEF PickInjected, PollTask, helpv
<1>15. CASE PickNone
  BY <1>15 DEF PickNone, LeaveLoop, PollMain, helpv
<1>16. CASE DrainReactor
  BY <1>16 DEF DrainReactor, helpv
<1>17. CASE DrainCrossThread \/ CrossDrained
  BY <1>17 DEF DrainCrossThread, CrossDrained, helpv
<1>18. CASE DrainTaskReady
  BY <1>18 DEF DrainTaskReady, EnterLoop, helpv
<1>19. CASE ResetInterrupt
  BY <1>19 DEF ResetInterrupt, helpv
<1>20. CASE ParkEnter
  BY <1>20 DEF ParkEnter, helpv
<1>21. CASE ParkReturn
  BY <1>21 DEF ParkReturn, helpv
<1>22. ASSUME NEW h \in Helpers, NEW t \in AllIds, WakeRemote(h, t) PROVE Control'
  BY <1>22 DEF WakeRemote, TypeOK
<1>23. ASSUME NEW h \in Helpers, SpawnAlloc(h) PROVE Control'
  <2>1. next_id \in Ids
    BY <1>23 DEF SpawnAlloc, TypeOK, Ids
  <2>2. QED
    BY <1>23, <2>1 DEF SpawnAlloc, TypeOK
<1>24. ASSUME NEW h \in Helpers, SpawnSend(h) PROVE Control'
  BY <1>24 DEF SpawnSend, TypeOK
<1>25. ASSUME NEW h \in Helpers, InterruptSwap(h) \/ InterruptWrite(h) PROVE Control'
  BY <1>25 DEF InterruptSwap, InterruptWrite, TypeOK
<1>26. CASE UNCHANGED vars
  BY <1>26 DEF vars, helpv
<1>27. QED
  BY <1>1, <1>2, <1>3, <1>4, <1>5, <1>6, <1>7, <1>8, <1>9, <1>10, <1>11, <1>12, <1>13, <1>14,
     <1>15, <1>16, <1>17, <1>18, <1>19, <1>20, <1>21, <1>22, <1>23, <1>24, <1>25, <1>26
  DEF Next, UserStep, PollEnd, RuntimeStep, ReactorStep, HelperStep, HelperCall

\* Every queue, flag and cursor of the executor keeps its type, and the runtime
\* thread never starts a poll beyond event_interval.
THEOREM TypeCorrect == Spec => [](TypeOK /\ Control)
<1>1. Init => TypeOK /\ Control
  <2> USE ConstantsAssumption, IdFacts
  <2>1. <<>> \in Seq(Ids) /\ <<>> \in Seq(AllIds) /\ 1 \in 1 .. MaxTasks + 1
    OBVIOUS
  <2>2. ASSUME Init PROVE TypeOK
    <3>1. /\ hpc \in [Helpers -> {"idle", "send", "swap", "write"}]
          /\ hid \in [Helpers -> Ids \cup {Nobody}]
      BY <2>2 DEF Init
    <3>2. pc \in PCs /\ stage \in Stages /\ count \in 0 .. EventInterval /\ runs \in Nat
      BY <2>2 DEF Init, PCs, Stages
    <3>3. QED
      BY <2>1, <2>2, <3>1, <3>2 DEF Init, TypeOK
  <2>3. Init => Control
    BY DEF Init, Control, Loops, Drains
  <2>4. QED
    BY <2>2, <2>3
<1>2. TypeOK /\ Control /\ [Next]_vars => (TypeOK /\ Control)'
  BY TypeStep, ControlStep
<1>3. QED
  BY <1>1, <1>2, PTL DEF Spec

(***************************************************************************)
(* No wake is lost.                                                        *)
(***************************************************************************)
\* The ledger knows every live task, so the drain filter lets its wakes pass.
LiveKnown == Live \subseteq ledger /\ cur \notin slab

\* A future is stored or polled only once its id is in the ledger.
LEMMA LiveKnownStep == TypeOK /\ Control /\ LiveKnown /\ [Next]_vars => LiveKnown'
<1> SUFFICES ASSUME TypeOK, Control, LiveKnown, [Next]_vars PROVE LiveKnown'
  OBVIOUS
<1> USE IdFacts DEF LiveKnown, Live, Control, TypeOK
<1>1. ASSUME NEW t \in AllIds, WakeLocal(t) \/ ReactorWake(t) \/ TimerWake(t) PROVE LiveKnown'
  BY <1>1 DEF WakeLocal, ReactorWake, TimerWake, execv
<1>2. CASE Yield \/ SpawnLocal
  BY <1>2 DEF Yield, SpawnLocal, execv
<1>3. CASE BlockOn
  BY <1>3 DEF BlockOn, PollMain, execv
<1>4. CASE NewRuntime
  BY <1>4 DEF NewRuntime
<1>5. CASE MainReady \/ MainPending
  BY <1>5 DEF MainReady, MainPending, execv
<1>6. CASE TaskReady \/ TaskPending
  BY <1>6 DEF TaskReady, TaskPending
<1>7. CASE WakeDeferred \/ DrainReactor \/ DrainTaskReady
  BY <1>7 DEF WakeDeferred, DrainReactor, DrainTaskReady
<1>8. CASE PopInjection
  BY <1>8 DEF PopInjection, InjectionFresh
<1>9. CASE LoopFull \/ PickNone
  BY <1>9 DEF LoopFull, PickNone, LeaveLoop, PollMain, execv
<1>10. CASE NextLocal
  BY <1>10 DEF NextLocal, PollTask
<1>11. CASE PickDrained
  BY <1>11 DEF PickDrained, PollTask
<1>12. CASE PickInjected
  BY <1>12 DEF PickInjected, InjectionFresh, PollTask
<1>13. CASE NextDrain \/ ParkDrain \/ DrainCrossThread \/ CrossDrained \/ ResetInterrupt
            \/ ParkEnter \/ ParkReturn
  BY <1>13 DEF NextDrain, ParkDrain, DrainCrossThread, CrossDrained, ResetInterrupt,
               ParkEnter, ParkReturn, execv
<1>14. ASSUME NEW h \in Helpers, HelperStep(h) PROVE LiveKnown'
  BY <1>14 DEF HelperStep, HelperCall, WakeRemote, SpawnAlloc, SpawnSend, InterruptSwap,
               InterruptWrite, execv
<1>15. CASE UNCHANGED vars
  BY <1>15 DEF vars, execv
<1>16. QED
  BY <1>1, <1>2, <1>3, <1>4, <1>5, <1>6, <1>7, <1>8, <1>9, <1>10, <1>11, <1>12, <1>13, <1>14, <1>15
  DEF Next, UserStep, PollEnd, RuntimeStep, ReactorStep

\* The ids that poll_task will come to, and all queued ids.
Ready == Elems(local) \cup Elems(reactor_ready) \cup Elems(task_ready)
Queued == Ready \cup Elems(deferred) \cup Elems(cross)

\* The two invariants in terms of these sets.
Accounted == Live \cap notified \subseteq Ready /\ Live \cap owed \subseteq Queued

\* Accounted is what NotifiedQueued and NoLostWake say.
LEMMA AccountedMeans == Accounted <=> NotifiedQueued /\ NoLostWake
BY Zenon DEF Accounted, NotifiedQueued, NoLostWake, Ready, Queued

\* Pushed puts the id into the queue or finds its flag raised; nothing leaves.
LEMMA PushedElems ==
  ASSUME NEW q \in Seq(AllIds), NEW t \in AllIds
  PROVE  /\ Elems(q) \subseteq Elems(Pushed(q, t))
         /\ t \in Elems(Pushed(q, t)) \/ (t # Main /\ t \in notified)
<1>1. CASE t = Main \/ t \notin notified
  BY <1>1, ElemsAppend DEF Pushed
<1>2. CASE t # Main /\ t \in notified
  BY <1>2 DEF Pushed
<1>3. QED
  BY <1>1, <1>2

\* Enqueue keeps the local queue and adds a ledger-known id.
LEMMA EnqueueElems ==
  ASSUME TypeOK, NEW t, Enqueue(t)
  PROVE  Elems(local) \subseteq Elems(local') /\ (t \in ledger => t \in Elems(local'))
<1>1. CASE t \in ledger
  BY <1>1, ElemsAppend DEF Enqueue, TypeOK
<1>2. CASE t \notin ledger
  BY <1>2 DEF Enqueue
<1>3. QED
  BY <1>1, <1>2

\* Every step keeps each raised flag and each wake of a live task accounted for.
LEMMA AccountedStep ==
  TypeOK /\ Control /\ LiveKnown /\ Accounted /\ [Next]_vars => Accounted'
<1> SUFFICES ASSUME TypeOK, Control, LiveKnown, Accounted, [Next]_vars PROVE Accounted'
  OBVIOUS
<1> USE IdFacts
<1>0. /\ slab \subseteq Ids /\ Live \subseteq Ids /\ ledger \subseteq Ids
      /\ local \in Seq(Ids) /\ injection \in Seq(Ids) /\ reactor_ready \in Seq(AllIds)
      /\ task_ready \in Seq(AllIds) /\ deferred \in Seq(AllIds) /\ cross \in Seq(AllIds)
      /\ Live \subseteq ledger
  BY DEF TypeOK, Live, LiveKnown
<1> USE DEF Accounted
<1>1. ASSUME NEW t \in AllIds, WakeLocal(t) \/ TimerWake(t) PROVE Accounted'
  <2>1. /\ Elems(task_ready) \subseteq Elems(task_ready')
        /\ t \in Elems(task_ready') \/ (t # Main /\ t \in notified)
    BY <1>0, <1>1, PushedElems DEF WakeLocal, TimerWake, push_task_ready
  <2>2. /\ notified' \subseteq notified \cup {t} /\ owed' \subseteq owed \cup {t}
        /\ UNCHANGED <<slab, cur, local, reactor_ready, deferred, cross>>
    BY <1>1 DEF WakeLocal, TimerWake, push_task_ready, SetNotified, execv, shared
  <2>3. QED
    BY <2>1, <2>2 DEF Live, Ready, Queued
<1>2. CASE Yield
  <2>1. cur \in AllIds
    BY <1>2 DEF Yield, Control, TypeOK
  <2>2. Elems(deferred') = Elems(deferred) \cup {cur}
    BY <1>0, <1>2, <2>1, ElemsAppend DEF Yield
  <2>3. /\ owed' = owed \cup {cur}
        /\ UNCHANGED <<slab, cur, local, reactor_ready, task_ready, cross, notified>>
    BY <1>2 DEF Yield, execv, shared
  <2>4. QED
    BY <2>2, <2>3 DEF Live, Ready, Queued
<1>3. CASE SpawnLocal
  BY <1>3 DEF SpawnLocal, tlsq, execv, ghost, Live, Ready, Queued
<1>4. CASE BlockOn
  <2>1. Live' \subseteq Live /\ owed' \subseteq owed
    BY <1>4 DEF BlockOn, PollMain, execv, Live
  <2>2. UNCHANGED <<notified, local, reactor_ready, task_ready, deferred, cross>>
    BY <1>4 DEF BlockOn, tlsq, execv, shared
  <2>3. QED
    BY <2>1, <2>2 DEF Ready, Queued
<1>5. CASE NewRuntime
  <2>1. Live' = {}
    BY <1>5 DEF NewRuntime, Control, Live
  <2>2. QED
    BY <2>1
<1>6. CASE MainReady \/ MainPending \/ TaskReady \/ TaskPending
  <2>1. Live' \subseteq Live
    BY <1>6 DEF MainReady, MainPending, TaskReady, TaskPending, execv, Live
  <2>2. UNCHANGED <<owed, notified, local, reactor_ready, task_ready, deferred, cross>>
    BY <1>6 DEF MainReady, MainPending, TaskReady, TaskPending, tlsq, execv, shared, ghost
  <2>3. QED
    BY <2>1, <2>2 DEF Ready, Queued
<1>7. CASE WakeDeferred
  <2>1. UNCHANGED <<slab, cur, owed, notified, reactor_ready, task_ready, cross>>
    BY <1>7 DEF WakeDeferred, shared, ghost
  <2>2. CASE deferred # <<>>
    <3>1. /\ Elems(local) \subseteq Elems(local')
          /\ Head(deferred) \in ledger => Head(deferred) \in Elems(local')
      BY <1>7, <2>2, EnqueueElems DEF WakeDeferred
    <3>2. Elems(deferred) = {Head(deferred)} \cup Elems(deferred')
      BY <1>0, <1>7, <2>2, ElemsTail DEF WakeDeferred
    <3>3. QED
      BY <1>0, <2>1, <3>1, <3>2 DEF Live, Ready, Queued
  <2>3. CASE deferred = <<>>
    BY <1>7, <2>1, <2>3 DEF WakeDeferred, Live, Ready, Queued
  <2>4. QED
    BY <2>2, <2>3
<1>8. CASE PopInjection
  <2>1. UNCHANGED <<cur, owed, notified, reactor_ready, task_ready, deferred, cross>>
    BY <1>8 DEF PopInjection, tlsq, ghost
  <2>2. CASE InjectionFresh
    <3>1. Head(injection) \in Ids
      BY <1>0, <2>2, ElemsTail DEF InjectionFresh
    <3>2. Elems(Append(local, Head(injection))) = Elems(local) \cup {Head(injection)}
      BY <1>0, <3>1, ElemsAppend
    <3>3. slab' = slab \cup {Head(injection)} /\ local' = Append(local, Head(injection))
      BY <1>8, <2>2 DEF PopInjection
    <3>4. QED
      BY <2>1, <3>2, <3>3 DEF Live, Ready, Queued
  <2>3. CASE ~InjectionFresh
    BY <1>8, <2>1, <2>3 DEF PopInjection, Live, Ready, Queued
  <2>4. QED
    BY <2>2, <2>3
<1>9. CASE LoopFull \/ PickNone
  <2>1. Live' \subseteq Live /\ owed' \subseteq owed
    BY <1>9 DEF LoopFull, PickNone, LeaveLoop, PollMain, execv, Live
  <2>2. UNCHANGED <<notified, local, reactor_ready, task_ready, deferred, cross>>
    BY <1>9 DEF LoopFull, PickNone, tlsq, execv, shared
  <2>3. QED
    BY <2>1, <2>2 DEF Ready, Queued
<1>10. CASE NextLocal \/ PickDrained
  <2>1. cur = Nobody /\ local # <<>> /\ PollTask(Head(local), slab) /\ local' = Tail(local)
    BY <1>10 DEF NextLocal, PickDrained, Control
  <2>2. Elems(local) = {Head(local)} \cup Elems(local') /\ Head(local) \in Ids
    BY <1>0, <2>1, ElemsTail
  <2>3. UNCHANGED <<reactor_ready, task_ready, deferred, cross>>
    BY <1>10 DEF NextLocal, PickDrained, shared
  <2>4. Live' = Live /\ notified' = notified \ {Head(local)}
        /\ Live' \cap owed' = (Live \cap owed) \ {Head(local)}
    BY <1>0, <2>1, <2>2 DEF PollTask, clear_notified, Live
  <2>5. QED
    BY <2>2, <2>3, <2>4 DEF Ready, Queued
<1>11. CASE PickInjected
  <2>1. Head(injection) \in Ids
    BY <1>0, <1>11, ElemsTail DEF PickInjected, InjectionFresh
  <2>2. cur = Nobody /\ PollTask(Head(injection), slab \cup {Head(injection)})
    BY <1>11 DEF PickInjected, Control
  <2>3. UNCHANGED <<local, reactor_ready, task_ready, deferred, cross>>
    BY <1>11 DEF PickInjected
  <2>4. Live' = Live \cup {Head(injection)} /\ notified' = notified \ {Head(injection)}
        /\ owed' = owed \ {Head(injection)}
    BY <1>0, <2>1, <2>2 DEF PollTask, clear_notified, Live
  <2>5. QED
    BY <2>3, <2>4 DEF Ready, Queued
<1>12. CASE NextDrain \/ ParkDrain \/ CrossDrained \/ ResetInterrupt \/ ParkEnter \/ ParkReturn
  <2>1. UNCHANGED <<slab, cur, owed, notified, local, reactor_ready, task_ready, deferred, cross>>
    BY <1>12 DEF NextDrain, ParkDrain, CrossDrained, ResetInterrupt, ParkEnter, ParkReturn,
                 tlsq, execv, shared, ghost
  <2>2. QED
    BY <2>1 DEF Live, Ready, Queued
<1>13. CASE DrainReactor
  <2>1. UNCHANGED <<slab, cur, owed, notified, task_ready, deferred, cross>>
    BY <1>13 DEF DrainReactor, shared, ghost
  <2>2. CASE reactor_ready # <<>>
    <3>1. /\ Elems(local) \subseteq Elems(local')
          /\ Head(reactor_ready) \in ledger => Head(reactor_ready) \in Elems(local')
      BY <1>13, <2>2, EnqueueElems DEF DrainReactor
    <3>2. Elems(reactor_ready) = {Head(reactor_ready)} \cup Elems(reactor_ready')
      BY <1>0, <1>13, <2>2, ElemsTail DEF DrainReactor
    <3>3. QED
      BY <1>0, <2>1, <3>1, <3>2 DEF Live, Ready, Queued
  <2>3. CASE reactor_ready = <<>>
    BY <1>13, <2>1, <2>3 DEF DrainReactor, Live, Ready, Queued
  <2>4. QED
    BY <2>2, <2>3
<1>14. CASE DrainCrossThread
  <2>1. Head(cross) \in AllIds /\ Elems(cross) = {Head(cross)} \cup Elems(cross')
    BY <1>0, <1>14, ElemsTail DEF DrainCrossThread
  <2>2. /\ Elems(task_ready) \subseteq Elems(task_ready')
        /\ Head(cross) \in Elems(task_ready') \/ (Head(cross) # Main /\ Head(cross) \in notified)
    BY <1>0, <1>14, <2>1, PushedElems DEF DrainCrossThread, push_task_ready
  <2>3. /\ notified' \subseteq notified \cup {Head(cross)}
        /\ UNCHANGED <<slab, cur, owed, local, reactor_ready, deferred>>
    BY <1>14 DEF DrainCrossThread, push_task_ready, SetNotified, execv, ghost
  <2>4. QED
    BY <2>1, <2>2, <2>3 DEF Live, Ready, Queued
<1>15. CASE DrainTaskReady
  <2>1. UNCHANGED <<slab, cur, owed, notified, reactor_ready, deferred, cross>>
    BY <1>15 DEF DrainTaskReady, shared, ghost
  <2>2. CASE task_ready # <<>>
    <3>1. /\ Elems(local) \subseteq Elems(local')
          /\ Head(task_ready) \in ledger => Head(task_ready) \in Elems(local')
      BY <1>15, <2>2, EnqueueElems DEF DrainTaskReady
    <3>2. Elems(task_ready) = {Head(task_ready)} \cup Elems(task_ready')
      BY <1>0, <1>15, <2>2, ElemsTail DEF DrainTaskReady
    <3>3. QED
      BY <1>0, <2>1, <3>1, <3>2 DEF Live, Ready, Queued
  <2>3. CASE task_ready = <<>>
    BY <1>15, <2>1, <2>3 DEF DrainTaskReady, Live, Ready, Queued
  <2>4. QED
    BY <2>2, <2>3
<1>16. ASSUME NEW t \in AllIds, ReactorWake(t) PROVE Accounted'
  <2>1. /\ Elems(reactor_ready) \subseteq Elems(reactor_ready')
        /\ t \in Elems(reactor_ready') \/ (t # Main /\ t \in notified)
    BY <1>0, <1>16, PushedElems DEF ReactorWake, push_reactor_ready
  <2>2. /\ notified' \subseteq notified \cup {t} /\ owed' = owed \cup {t}
        /\ UNCHANGED <<slab, cur, local, task_ready, deferred, cross>>
    BY <1>16 DEF ReactorWake, push_reactor_ready, SetNotified, execv, shared
  <2>3. QED
    BY <2>1, <2>2 DEF Live, Ready, Queued
<1>17. ASSUME NEW h \in Helpers, NEW t \in AllIds, WakeRemote(h, t) PROVE Accounted'
  <2>1. Elems(cross') = Elems(cross) \cup {t}
    BY <1>0, <1>17, ElemsAppend DEF WakeRemote
  <2>2. /\ owed' = owed \cup {t}
        /\ UNCHANGED <<slab, cur, notified, local, reactor_ready, task_ready, deferred>>
    BY <1>17 DEF WakeRemote, tlsq, execv
  <2>3. QED
    BY <2>1, <2>2 DEF Live, Ready, Queued
<1>18. ASSUME NEW h \in Helpers, SpawnAlloc(h) \/ HelperCall(h) PROVE Accounted'
  <2>1. UNCHANGED <<slab, cur, owed, notified, local, reactor_ready, task_ready, deferred, cross>>
    BY <1>18 DEF SpawnAlloc, HelperCall, SpawnSend, InterruptSwap, InterruptWrite,
                 tlsq, execv, ghost
  <2>2. QED
    BY <2>1 DEF Live, Ready, Queued
<1>19. CASE UNCHANGED vars
  BY <1>19 DEF vars, tlsq, execv, shared, ghost, Live, Ready, Queued
<1>20. QED
  BY <1>1, <1>2, <1>3, <1>4, <1>5, <1>6, <1>7, <1>8, <1>9, <1>10, <1>11, <1>12, <1>13, <1>14,
     <1>15, <1>16, <1>17, <1>18, <1>19
  DEF Next, UserStep, PollEnd, RuntimeStep, ReactorStep, HelperStep

\* The initial state accounts for every wake: there is none.
LEMMA AccountedInit == Init => LiveKnown /\ Accounted
BY IdFacts DEF Init, LiveKnown, Accounted, Live

\* The invariant of both theorems is inductive.
LEMMA WakesAccounted == Spec => []Accounted
<1>1. LiveKnown /\ Accounted /\ TypeOK /\ Control /\ [Next]_vars => (LiveKnown /\ Accounted)'
  BY LiveKnownStep, AccountedStep
<1>2. QED
  BY <1>1, TypeCorrect, AccountedInit, PTL DEF Spec

\* No wake of a live task is ever lost: the wake paths of tls.rs and waker.rs, any
\* number of threads.
THEOREM WakesKept == Spec => []NoLostWake
<1>1. Accounted => NoLostWake
  BY AccountedMeans
<1>2. QED
  BY <1>1, WakesAccounted, PTL

\* A raised TASK_NOTIFIED flag of a live task always has its queue entry, so it
\* never suppresses a wake, also across runtimes on one thread.
THEOREM FlagsBacked == Spec => []NotifiedQueued
<1>1. Accounted => NotifiedQueued
  BY AccountedMeans
<1>2. QED
  BY <1>1, WakesAccounted, PTL

(***************************************************************************)
(* park does not sleep on a woken task.                                    *)
(***************************************************************************)
\* WakeSignalled is inductive: whoever raises the flag or fills the
\* cross-thread queue after the reset is on the way to mio's waker.
LEMMA WakeSignalledStep == TypeOK /\ Control /\ WakeSignalled /\ [Next]_vars => WakeSignalled'
<1> SUFFICES ASSUME TypeOK, Control, WakeSignalled, [Next]_vars PROVE WakeSignalled'
  OBVIOUS
<1> USE DEF WakeSignalled
<1>1. ASSUME NEW t \in AllIds, WakeLocal(t) PROVE WakeSignalled'
  BY <1>1 DEF WakeLocal, UserCode
<1>2. CASE Yield \/ SpawnLocal
  BY <1>2 DEF Yield, SpawnLocal, UserCode
<1>3. CASE BlockOn \/ NewRuntime
  BY <1>3 DEF BlockOn, PollMain, NewRuntime
<1>4. CASE PollEnd
  BY <1>4 DEF PollEnd, MainReady, MainPending, TaskReady, TaskPending
<1>5. CASE WakeDeferred \/ PopInjection
  BY <1>5 DEF WakeDeferred, PopInjection, EnterLoop
<1>6. CASE LoopFull \/ PickNone
  BY <1>6 DEF LoopFull, PickNone, LeaveLoop, PollMain
<1>7. CASE NextLocal \/ PickDrained \/ PickInjected
  BY <1>7 DEF NextLocal, PickDrained, PickInjected, PollTask
<1>8. CASE NextDrain \/ ParkDrain
  BY <1>8 DEF NextDrain, ParkDrain
<1>9. CASE DrainReactor
  BY <1>9 DEF DrainReactor, Control, Loops
<1>10. CASE DrainCrossThread
  BY <1>10 DEF DrainCrossThread, helpv
<1>11. CASE CrossDrained \/ DrainTaskReady
  BY <1>11 DEF CrossDrained, DrainTaskReady, EnterLoop
<1>12. CASE ResetInterrupt
  BY <1>12 DEF ResetInterrupt
<1>13. CASE ParkEnter
  BY <1>13 DEF ParkEnter, RequireTimeout, execv, shared, helpv
<1>14. CASE ParkReturn
  BY <1>14 DEF ParkReturn
<1>15. ASSUME NEW t \in AllIds, ReactorWake(t) \/ TimerWake(t) PROVE WakeSignalled'
  BY <1>15 DEF ReactorWake, TimerWake
<1>16. ASSUME NEW h \in Helpers, HelperStep(h) PROVE WakeSignalled'
  <2>1. /\ UNCHANGED <<pc, stage, timeout, local, reactor_ready, task_ready, deferred>>
        /\ hpc \in [Helpers -> {"idle", "send", "swap", "write"}]
    BY <1>16 DEF HelperStep, HelperCall, WakeRemote, SpawnAlloc, SpawnSend, InterruptSwap,
                 InterruptWrite, tlsq, execv, TypeOK
  <2>2. ASSUME NEW t \in AllIds, WakeRemote(h, t) PROVE WakeSignalled'
    BY <2>1, <2>2 DEF WakeRemote
  <2>3. CASE SpawnAlloc(h)
    BY <2>1, <2>3 DEF SpawnAlloc
  <2>4. CASE SpawnSend(h)
    BY <2>1, <2>4 DEF SpawnSend
  <2>5. CASE InterruptSwap(h)
    BY <2>1, <2>5 DEF InterruptSwap
  <2>6. CASE InterruptWrite(h)
    BY <2>1, <2>6 DEF InterruptWrite
  <2>7. QED
    BY <1>16, <2>2, <2>3, <2>4, <2>5, <2>6 DEF HelperStep, HelperCall
<1>17. CASE UNCHANGED vars
  BY <1>17 DEF vars, tlsq, execv, shared, helpv
<1>18. QED
  BY <1>1, <1>2, <1>3, <1>4, <1>5, <1>6, <1>7, <1>8, <1>9, <1>10, <1>11, <1>12, <1>13, <1>14,
     <1>15, <1>16, <1>17
  DEF Next, UserStep, RuntimeStep, ReactorStep

\* From the reset of the interrupt flag to mio's poll, every wake from another
\* thread is in the drained queue or on its way to the waker.
THEOREM WakesSignalled == Spec => []WakeSignalled
<1>1. Init => WakeSignalled
  BY DEF Init, WakeSignalled
<1>2. QED
  BY <1>1, WakeSignalledStep, TypeCorrect, PTL DEF Spec

\* The executor's park never sleeps out its timeout while a stored task has been
\* woken, whatever the interleaving with the waking threads.
THEOREM NeverAsleepOnWoken == Spec => []NoSleepOnWokenTask
<1>1. WakeSignalled /\ NoLostWake => NoSleepOnWokenTask
  <2> SUFFICES ASSUME WakeSignalled, NoLostWake, Asleep PROVE slab \cap owed = {}
    BY DEF NoSleepOnWokenTask
  <2>1. local = <<>> /\ reactor_ready = <<>> /\ task_ready = <<>> /\ deferred = <<>> /\ cross = <<>>
    BY DEF Asleep, WakeSignalled
  <2>2. Elems(<<>>) = {}
    BY DEF Elems
  <2>3. QED
    BY <2>1, <2>2 DEF NoLostWake, Live
<1>2. QED
  BY <1>1, WakesKept, WakesSignalled, PTL

(***************************************************************************)
(* Where every task is, and which step of Scheduler each step of the       *)
(* executor is: Executor implements the safety part of Scheduler.          *)
(***************************************************************************)

(***************************************************************************)
(* The injection queue holds no id twice.                                  *)
(***************************************************************************)
OnceIn(q) == \A i, j \in 1 .. Len(q) : q[i] = q[j] => i = j

\* Sending an id that is not queued keeps it so.
LEMMA OnceAppend ==
  ASSUME NEW S, NEW s \in Seq(S), NEW x \in S, x \notin Elems(s), OnceIn(s)
  PROVE  OnceIn(Append(s, x))
<1>1. /\ Len(Append(s, x)) = Len(s) + 1 /\ Len(s) \in Nat
      /\ \A i \in 1 .. Len(s) : Append(s, x)[i] = s[i]
      /\ Append(s, x)[Len(s) + 1] = x
  OBVIOUS
<1>2. QED
  BY <1>1 DEF OnceIn, Elems

\* So does a pop, which takes the only entry of the head.
LEMMA OnceTail ==
  ASSUME NEW S, NEW s \in Seq(S), s # <<>>, OnceIn(s)
  PROVE  /\ OnceIn(Tail(s)) /\ Elems(Tail(s)) = Elems(s) \ {Head(s)} /\ Head(s) \in Elems(s)
<1>1. /\ Head(s) = s[1] /\ Len(s) \in Nat \ {0} /\ Len(Tail(s)) = Len(s) - 1
      /\ \A i \in 1 .. Len(s) - 1 : Tail(s)[i] = s[i + 1]
  OBVIOUS
<1>2. ASSUME NEW i \in 1 .. Len(s) - 1
      PROVE  i + 1 \in 1 .. Len(s) /\ 1 \in 1 .. Len(s) /\ i + 1 # 1
  BY <1>1
<1>3. OnceIn(Tail(s))
  <2> SUFFICES ASSUME NEW i \in 1 .. Len(s) - 1, NEW j \in 1 .. Len(s) - 1, Tail(s)[i] = Tail(s)[j]
               PROVE  i = j
    BY <1>1 DEF OnceIn
  <2>1. i + 1 = j + 1
    BY <1>1, <1>2 DEF OnceIn
  <2>2. QED
    BY <1>1, <2>1
<1>4. Head(s) \notin Elems(Tail(s))
  <2> SUFFICES ASSUME NEW i \in 1 .. Len(s) - 1, Tail(s)[i] = Head(s) PROVE FALSE
    BY <1>1 DEF Elems
  <2>1. s[i + 1] = s[1]
    BY <1>1
  <2>2. QED
    BY <1>2, <2>1 DEF OnceIn
<1>5. Elems(s) = {Head(s)} \cup Elems(Tail(s))
  BY ElemsTail
<1>6. QED
  BY <1>3, <1>4, <1>5

(***************************************************************************)
(* Every task is in one place.                                             *)
(***************************************************************************)
\* The parts of OnePlace: the places, the queue and the sending threads.
Placed ==
  /\ 1 .. next_id - 1 = Sending \cup Elems(injection) \cup Live \cup done
  /\ ledger = Live \cup done
  /\ slab \cap {cur} = {} /\ Live \cap done = {}
  /\ (Sending \cup Elems(injection)) \cap ledger = {}
  /\ Sending \cap Elems(injection) = {}

OneSender == \A g, h \in Helpers : hpc[g] = "send" /\ hpc[h] = "send" /\ hid[g] = hid[h] => g = h

\* OnePlace is the conjunction of these parts.
LEMMA OnePlaceParts == OnePlace <=> Placed /\ OnceIn(injection) /\ OneSender
BY DEF OnePlace, Placed, OnceIn, OneSender

\* Steps that leave every task where it is.
LEMMA PlacesKept ==
  ASSUME OnePlace, UNCHANGED <<slab, ledger, done, injection, next_id>>,
         Sending' = Sending, OneSender', {cur'} \cap Ids = {cur} \cap Ids, slab \subseteq Ids
  PROVE  OnePlace'
<1>1. Live' = Live /\ slab \cap {cur'} = {}
  BY DEF Live, OnePlace
<1>2. Placed' /\ OnceIn(injection)'
  BY <1>1 DEF OnePlace, Placed, OnceIn
<1>3. QED
  BY <1>2, OnePlaceParts DEF OnePlace, Placed, OnceIn, OneSender

\* A pop that finds no fresh task finds the queue empty.
LEMMA NotFresh == OnePlace /\ TypeOK /\ ~InjectionFresh => injection = <<>>
<1> SUFFICES ASSUME OnePlace, TypeOK, injection # <<>>, Head(injection) \in ledger PROVE FALSE
  BY DEF InjectionFresh
<1>1. Head(injection) \in Elems(injection)
  BY ElemsTail DEF TypeOK
<1>2. QED
  BY <1>1 DEF OnePlace

\* A poll takes a stored future out of the slab, or finds none.
LEMMA PollTaskPlaces ==
  ASSUME TypeOK, Control, NEW t \in Ids, NEW stored, pc # "poll", PollTask(t, stored), stored \subseteq Ids
  PROVE  Live' = stored /\ slab' \cap {cur'} = {}
<1>1. cur = Nobody
  BY DEF Control
<1>2. CASE t \in stored
  BY <1>2, IdFacts DEF PollTask, Live
<1>3. CASE t \notin stored
  BY <1>1, <1>3, IdFacts DEF PollTask, Live
<1>4. QED
  BY <1>2, <1>3

\* Every step keeps every task in one place.
LEMMA OnePlaceStep == TypeOK /\ Control /\ OnePlace /\ [Next]_vars => OnePlace'
<1> SUFFICES ASSUME TypeOK, Control, OnePlace, [Next]_vars PROVE OnePlace'
  OBVIOUS
<1>0. /\ Placed /\ OnceIn(injection) /\ OneSender
      /\ slab \subseteq Ids /\ injection \in Seq(Ids) /\ cur \in AllIds \cup {Nobody}
      /\ local \in Seq(Ids) /\ next_id \in 1 .. MaxTasks + 1
      /\ hpc \in [Helpers -> {"idle", "send", "swap", "write"}] /\ hid \in [Helpers -> Ids \cup {Nobody}]
  BY OnePlaceParts DEF TypeOK
<1>1. CASE UNCHANGED <<slab, ledger, done, injection, next_id, hpc, hid>> /\ {cur'} \cap Ids = {cur} \cap Ids
  <2>1. Sending' = Sending /\ OneSender'
    BY <1>0, <1>1 DEF Sending, OneSender
  <2>2. QED
    BY <1>0, <1>1, <2>1, PlacesKept
<1>2. ASSUME NEW t \in AllIds, WakeLocal(t) \/ ReactorWake(t) \/ TimerWake(t) PROVE OnePlace'
  BY <1>1, <1>2 DEF WakeLocal, ReactorWake, TimerWake, execv, shared, helpv
<1>3. CASE Yield
  BY <1>1, <1>3 DEF Yield, execv, shared, helpv
<1>4. CASE BlockOn
  BY <1>1, <1>4, IdFacts DEF BlockOn, PollMain, Control, execv, shared, helpv
<1>5. CASE MainReady \/ MainPending
  BY <1>1, <1>5, IdFacts DEF MainReady, MainPending, execv, shared, helpv
<1>6. CASE WakeDeferred \/ DrainReactor \/ DrainTaskReady
  BY <1>1, <1>6 DEF WakeDeferred, DrainReactor, DrainTaskReady, shared, helpv
<1>7. CASE NextDrain \/ ParkDrain \/ DrainCrossThread \/ CrossDrained \/ ResetInterrupt
           \/ ParkEnter \/ ParkReturn
  BY <1>1, <1>7 DEF NextDrain, ParkDrain, DrainCrossThread, CrossDrained, ResetInterrupt,
                    ParkEnter, ParkReturn, execv, shared, helpv
<1>8. CASE LoopFull
  BY <1>1, <1>8, IdFacts DEF LoopFull, LeaveLoop, PollMain, Control, execv, shared, helpv
<1>9. CASE PickNone
  <2>1. UNCHANGED injection
    BY <1>9, NotFresh DEF PickNone
  <2>2. QED
    BY <1>1, <1>9, <2>1, IdFacts DEF PickNone, LeaveLoop, PollMain, Control, execv, helpv
<1>10. CASE UNCHANGED vars
  BY <1>1, <1>10 DEF vars, execv, shared, helpv
<1>11. ASSUME NEW h \in Helpers, HelperStep(h), UNCHANGED <<injection, next_id, hid>>,
              hpc[h] # "send", hpc'[h] # "send", hpc' = [hpc EXCEPT ![h] = hpc'[h]]
       PROVE  OnePlace'
  <2>1. UNCHANGED <<slab, ledger, done, cur>>
    BY <1>11 DEF HelperStep, HelperCall, WakeRemote, SpawnAlloc, SpawnSend, InterruptSwap,
                 InterruptWrite, execv
  <2>2. \A g \in Helpers : hpc'[g] = "send" <=> hpc[g] = "send"
    BY <1>0, <1>11
  <2>3. Sending' = Sending /\ OneSender'
    BY <1>0, <1>11, <2>2 DEF Sending, OneSender
  <2>4. QED
    BY <1>0, <1>11, <2>1, <2>3, PlacesKept
<1>12. ASSUME NEW h \in Helpers, NEW t \in AllIds, WakeRemote(h, t) PROVE OnePlace'
  BY <1>0, <1>11, <1>12 DEF WakeRemote, HelperStep
<1>13. ASSUME NEW h \in Helpers, InterruptSwap(h) \/ InterruptWrite(h) PROVE OnePlace'
  BY <1>0, <1>11, <1>13 DEF InterruptSwap, InterruptWrite, HelperStep, HelperCall
<1>14. next_id <= MaxTasks =>
         /\ next_id \in Ids /\ next_id \notin 1 .. next_id - 1
         /\ next_id' = next_id + 1 => 1 .. next_id' - 1 = (1 .. next_id - 1) \cup {next_id}
  BY <1>0, ConstantsAssumption DEF Ids
<1>15. CASE SpawnLocal
  <2>1. /\ next_id <= MaxTasks /\ next_id' = next_id + 1 /\ injection' = Append(injection, next_id)
        /\ UNCHANGED <<slab, ledger, done, cur, hpc, hid>>
    BY <1>15 DEF SpawnLocal, execv, helpv
  <2>2. next_id \in Ids /\ next_id \notin 1 .. next_id - 1 /\ 1 .. next_id' - 1 = (1 .. next_id - 1) \cup {next_id}
    BY <1>14, <2>1
  <2>3. Live' = Live /\ Sending' = Sending /\ OneSender'
    BY <1>0, <2>1 DEF Live, Sending, OneSender
  <2>4. Elems(injection') = Elems(injection) \cup {next_id}
    BY <1>0, <2>1, <2>2, ElemsAppend
  <2>5. next_id \notin Elems(injection)
    BY <1>0, <2>2 DEF Placed
  <2>6. OnceIn(injection')
    BY <1>0, <2>1, <2>2, <2>5, OnceAppend
  <2>7. Placed'
    BY <1>0, <2>1, <2>2, <2>3, <2>4 DEF Placed
  <2>8. QED
    BY <2>3, <2>6, <2>7 DEF OnePlace, Placed, OnceIn, OneSender
<1>16. ASSUME NEW h \in Helpers, SpawnAlloc(h) PROVE OnePlace'
  <2>1. /\ next_id <= MaxTasks /\ next_id' = next_id + 1 /\ hpc[h] = "idle"
        /\ hid' = [hid EXCEPT ![h] = next_id] /\ hpc' = [hpc EXCEPT ![h] = "send"]
        /\ UNCHANGED <<slab, ledger, done, cur, injection>>
    BY <1>16 DEF SpawnAlloc, execv
  <2>2. next_id \in Ids /\ next_id \notin 1 .. next_id - 1 /\ 1 .. next_id' - 1 = (1 .. next_id - 1) \cup {next_id}
    BY <1>14, <2>1
  <2>3. Live' = Live /\ Elems(injection') = Elems(injection) /\ OnceIn(injection')
    BY <1>0, <2>1 DEF Live, Elems, OnceIn
  <2>4. Sending' = Sending \cup {next_id}
    BY <1>0, <2>1 DEF Sending
  <2>5. \A g \in Helpers : hpc[g] = "send" => hid[g] # next_id
    BY <1>0, <2>2 DEF Placed, Sending
  <2>6. OneSender'
    BY <1>0, <2>1, <2>5 DEF OneSender
  <2>7. Placed'
    BY <1>0, <2>1, <2>2, <2>3, <2>4 DEF Placed
  <2>8. QED
    BY <2>3, <2>6, <2>7 DEF OnePlace, Placed, OnceIn, OneSender
<1>17. ASSUME NEW h \in Helpers, SpawnSend(h) PROVE OnePlace'
  <2>1. /\ hpc[h] = "send" /\ injection' = Append(injection, hid[h])
        /\ hid' = [hid EXCEPT ![h] = Nobody] /\ hpc' = [hpc EXCEPT ![h] = "swap"]
        /\ UNCHANGED <<slab, ledger, done, cur, next_id>>
    BY <1>17 DEF SpawnSend, execv
  <2>2. hid[h] \in Ids /\ hid[h] \in Sending
    BY <2>1 DEF Control, Sending
  <2>3. Live' = Live
    BY <2>1 DEF Live
  <2>4. Sending' = Sending \ {hid[h]}
    BY <1>0, <2>1 DEF Sending, OneSender
  <2>5. Elems(injection') = Elems(injection) \cup {hid[h]}
    BY <1>0, <2>1, <2>2, ElemsAppend
  <2>6. hid[h] \notin Elems(injection)
    BY <1>0, <2>2 DEF Placed
  <2>7. OnceIn(injection')
    BY <1>0, <2>1, <2>2, <2>6, OnceAppend
  <2>8. OneSender'
    BY <1>0, <2>1 DEF OneSender
  <2>9. Placed'
    BY <1>0, <2>1, <2>2, <2>3, <2>4, <2>5 DEF Placed
  <2>10. QED
    BY <2>7, <2>8, <2>9 DEF OnePlace, Placed, OnceIn, OneSender
<1>18. ASSUME NEW t, t = Head(injection), InjectionFresh, injection' = Tail(injection),
              ledger' = ledger \cup {t}, Live' = Live \cup {t}, slab' \cap {cur'} = {},
              UNCHANGED <<done, next_id, hpc, hid>>
       PROVE  OnePlace'
  <2>1. /\ t \in Elems(injection) /\ Elems(injection') = Elems(injection) \ {t} /\ OnceIn(injection')
    BY <1>0, <1>18, OnceTail DEF InjectionFresh
  <2>2. Sending' = Sending /\ OneSender'
    BY <1>0, <1>18 DEF Sending, OneSender
  <2>3. t \notin ledger
    BY <1>18 DEF InjectionFresh
  <2>4. Placed'
    BY <1>0, <1>18, <2>1, <2>2, <2>3 DEF Placed
  <2>5. QED
    BY <2>1, <2>2, <2>4 DEF OnePlace, Placed, OnceIn, OneSender
<1>19. CASE PopInjection
  <2>1. CASE InjectionFresh
    <3>1. Head(injection) \in Ids /\ cur = Nobody
      BY <1>0, <1>19, <2>1, ElemsTail DEF PopInjection, InjectionFresh, Control
    <3>2. Live' = Live \cup {Head(injection)} /\ slab' \cap {cur'} = {}
      BY <1>0, <1>19, <2>1, <3>1, IdFacts DEF PopInjection, Live
    <3>3. QED
      BY <1>18, <1>19, <2>1, <3>2 DEF PopInjection, InjectionFresh, helpv
  <2>2. CASE ~InjectionFresh
    <3>1. UNCHANGED injection
      BY <1>19, <2>2, NotFresh DEF PopInjection
    <3>2. QED
      BY <1>1, <1>19, <2>2, <3>1 DEF PopInjection, helpv
  <2>3. QED
    BY <2>1, <2>2
<1>20. CASE NextLocal \/ PickDrained
  <2>1. Head(local) \in Ids /\ pc # "poll" /\ cur = Nobody
    BY <1>0, <1>20, ElemsTail DEF NextLocal, PickDrained, Control
  <2>2. PollTask(Head(local), slab) /\ UNCHANGED <<ledger, done, injection, next_id, hpc, hid>>
    BY <1>20 DEF NextLocal, PickDrained, shared, helpv
  <2>3. Live' = slab /\ slab' \cap {cur'} = {} /\ Live = slab
    BY <1>0, <2>1, <2>2, PollTaskPlaces, IdFacts DEF Live
  <2>4. Sending' = Sending /\ OneSender' /\ OnceIn(injection')
    BY <1>0, <2>2 DEF Sending, OneSender
  <2>5. Placed'
    BY <1>0, <2>2, <2>3, <2>4 DEF Placed
  <2>6. QED
    BY <2>4, <2>5 DEF OnePlace, Placed, OnceIn, OneSender
<1>21. CASE PickInjected
  <2>1. Head(injection) \in Ids /\ pc # "poll" /\ cur = Nobody
    BY <1>0, <1>21, ElemsTail DEF PickInjected, InjectionFresh, Control
  <2>2. Live' = slab \cup {Head(injection)} /\ slab' \cap {cur'} = {} /\ Live = slab
    BY <1>0, <1>21, <2>1, PollTaskPlaces, IdFacts DEF PickInjected, Live
  <2>3. QED
    BY <1>18, <1>21, <2>2 DEF PickInjected, helpv
<1>22. CASE TaskReady \/ TaskPending
  <2>1. /\ cur \in Ids /\ cur' = Nobody /\ UNCHANGED <<ledger, injection, next_id, hpc, hid>>
        /\ \/ done' = done \cup {cur} /\ slab' = slab
           \/ slab' = slab \cup {cur} /\ done' = done
    BY <1>22 DEF TaskReady, TaskPending, shared, helpv
  <2>2. Live' = slab' /\ Live = slab \cup {cur} /\ cur \notin slab /\ Nobody \notin slab'
    BY <1>0, <2>1, IdFacts DEF Live, Placed
  <2>3. Sending' = Sending /\ OneSender' /\ OnceIn(injection')
    BY <1>0, <2>1 DEF Sending, OneSender
  <2>4. Placed'
    BY <1>0, <2>1, <2>2, <2>3 DEF Placed
  <2>5. QED
    BY <2>3, <2>4 DEF OnePlace, Placed, OnceIn, OneSender
<1>23. CASE NewRuntime
  <2>1. /\ cur = Nobody /\ cur' = Nobody /\ slab' = {} /\ ledger' = {} /\ done' = {} /\ injection' = <<>>
        /\ next_id' = 1 /\ hpc' = [h \in Helpers |-> "idle"]
    BY <1>23 DEF NewRuntime, Control
  <2>2. Live' = {} /\ Sending' = {} /\ Elems(injection') = {} /\ OnceIn(injection') /\ OneSender'
    BY <2>1, IdFacts DEF Live, Sending, Elems, OnceIn, OneSender
  <2>3. 1 .. next_id' - 1 = {}
    BY <2>1
  <2>4. Placed'
    BY <2>1, <2>2, <2>3 DEF Placed
  <2>5. QED
    BY <2>2, <2>4 DEF OnePlace, Placed, OnceIn, OneSender
<1>24. QED
  BY <1>2, <1>3, <1>4, <1>5, <1>6, <1>7, <1>8, <1>9, <1>10, <1>12, <1>13, <1>15, <1>16, <1>17,
     <1>19, <1>20, <1>21, <1>22, <1>23
  DEF Next, UserStep, PollEnd, RuntimeStep, ReactorStep, HelperStep, HelperCall

\* No task is lost, started twice or started before it was sent, and the ledger
\* knows exactly the tasks that were popped: whichever threads spawn, and
\* however their ids overtake each other.
THEOREM TasksPlaced == Spec => []OnePlace
<1>1. Init => OnePlace
  <2> SUFFICES ASSUME Init PROVE OnePlace
    OBVIOUS
  <2>1. Live = {} /\ Sending = {} /\ Elems(injection) = {}
    BY IdFacts DEF Init, Live, Sending, Elems
  <2>2. 1 .. next_id - 1 = {} /\ Len(injection) = 0
    BY DEF Init
  <2>3. QED
    BY <2>1, <2>2, IdFacts DEF Init, OnePlace
<1>2. QED
  BY <1>1, OnePlaceStep, TypeCorrect, PTL DEF Spec

(***************************************************************************)
(* A yield of the block_on future skips the timeout of the next park.      *)
(***************************************************************************)
\* BLOCK_ON_YIELDED stays raised from the yield to the decision in park, and the
\* next poll of the block_on future comes after that park.
YieldRemembered ==
  /\ main_yielded => yielded \/ stage \in {"park", "loop2"} \/ pc = "park"
  /\ pc = "park" => ~yielded /\ (main_yielded => ~timeout)
  /\ cur = Main \/ pc \in {"user", "deferred", "pop"} => stage = "begin"

\* Every step remembers a yield.
LEMMA YieldRememberedStep == TypeOK /\ Control /\ YieldRemembered /\ [Next]_vars => YieldRemembered'
<1> SUFFICES ASSUME TypeOK, Control, YieldRemembered, [Next]_vars PROVE YieldRemembered'
  OBVIOUS
<1> USE IdFacts DEF YieldRemembered, Control, Loops
<1>1. ASSUME NEW t \in AllIds, WakeLocal(t) \/ ReactorWake(t) \/ TimerWake(t) PROVE YieldRemembered'
  BY <1>1 DEF WakeLocal, ReactorWake, TimerWake
<1>2. CASE Yield
  BY <1>2 DEF Yield
<1>3. CASE SpawnLocal \/ NewRuntime
  BY <1>3 DEF SpawnLocal, NewRuntime, tlsq, ghost
<1>4. CASE BlockOn
  BY <1>4 DEF BlockOn, PollMain
<1>5. CASE MainReady \/ MainPending
  BY <1>5 DEF MainReady, MainPending, tlsq, ghost
<1>6. CASE TaskReady \/ TaskPending
  BY <1>6 DEF TaskReady, TaskPending, tlsq, ghost
<1>7. CASE WakeDeferred \/ DrainReactor
  BY <1>7 DEF WakeDeferred, DrainReactor, ghost
<1>8. CASE DrainTaskReady
  BY <1>8 DEF DrainTaskReady, EnterLoop, ghost
<1>9. CASE PopInjection
  BY <1>9 DEF PopInjection, EnterLoop, tlsq, ghost
<1>10. CASE LoopFull \/ PickNone
  BY <1>10 DEF LoopFull, PickNone, LeaveLoop, PollMain, tlsq
<1>11. CASE NextLocal \/ PickDrained
  <2>1. Head(local) # Main
    BY <1>11, ElemsTail DEF NextLocal, PickDrained, TypeOK
  <2>2. QED
    BY <1>11, <2>1 DEF NextLocal, PickDrained, PollTask
<1>12. CASE PickInjected
  <2>1. Head(injection) # Main
    BY <1>12, ElemsTail DEF PickInjected, InjectionFresh, TypeOK
  <2>2. QED
    BY <1>12, <2>1 DEF PickInjected, PollTask
<1>13. CASE NextDrain \/ ParkDrain \/ DrainCrossThread \/ CrossDrained \/ ResetInterrupt
  BY <1>13 DEF NextDrain, ParkDrain, DrainCrossThread, CrossDrained, ResetInterrupt, tlsq, ghost
<1>14. CASE ParkEnter \/ ParkReturn
  <2>1. CASE ParkEnter
    <3>1. /\ pc = "drainX" /\ stage = "check" /\ pc' = "park" /\ yielded' = FALSE
          /\ timeout' => ~yielded
          /\ UNCHANGED <<stage, cur, main_yielded>>
      BY <2>1 DEF ParkEnter, RequireTimeout, ghost
    <3>2. QED
      BY <3>1
  <2>2. CASE ParkReturn
    BY <2>2 DEF ParkReturn, tlsq, ghost
  <2>3. QED
    BY <1>14, <2>1, <2>2
<1>15. ASSUME NEW h \in Helpers, HelperStep(h) PROVE YieldRemembered'
  BY <1>15 DEF HelperStep, HelperCall, WakeRemote, SpawnAlloc, SpawnSend, InterruptSwap,
               InterruptWrite, tlsq, ghost
<1>16. CASE UNCHANGED vars
  BY <1>16 DEF vars, tlsq, ghost
<1>17. QED
  BY <1>1, <1>2, <1>3, <1>4, <1>5, <1>6, <1>7, <1>8, <1>9, <1>10, <1>11, <1>12, <1>13, <1>14, <1>15, <1>16
  DEF Next, UserStep, PollEnd, RuntimeStep, ReactorStep

\* When the block_on future has yielded, the park that follows does not wait,
\* whatever tasks are polled in between.
THEOREM YieldsNotDelayed == Spec => []YieldSkipsTimeout
<1>1. Init => YieldRemembered
  BY IdFacts DEF Init, YieldRemembered
<1>2. YieldRemembered => YieldSkipsTimeout
  BY DEF YieldRemembered, YieldSkipsTimeout
<1>3. QED
  BY <1>1, <1>2, YieldRememberedStep, TypeCorrect, PTL DEF Spec

(***************************************************************************)
(* The refinement.                                                         *)
(***************************************************************************)
\* A task that was polled still exists or is done, and only polled tasks are
\* woken: a new task enters the slab without a wake.
StartedOK ==
  /\ started \cap Ids \subseteq Live \cup done
  /\ cur # Nobody => cur \in started
  /\ done \subseteq started
  /\ owed \subseteq started

\* Every step keeps it so.
LEMMA StartedStep == TypeOK /\ Control /\ OnePlace /\ StartedOK /\ [Next]_vars => StartedOK'
<1> SUFFICES ASSUME TypeOK, Control, OnePlace, StartedOK, [Next]_vars PROVE StartedOK'
  OBVIOUS
<1> USE IdFacts DEF StartedOK, Live
<1>0. slab \subseteq Ids /\ (pc = "poll" <=> cur # Nobody) /\ cur \in AllIds \cup {Nobody}
  BY DEF TypeOK, Control
<1>1. ASSUME NEW t \in AllIds, WakeLocal(t) \/ ReactorWake(t) \/ TimerWake(t) PROVE StartedOK'
  BY <1>1 DEF WakeLocal, ReactorWake, TimerWake, execv
<1>2. CASE Yield
  BY <1>0, <1>2 DEF Yield, execv
<1>3. CASE SpawnLocal
  BY <1>3 DEF SpawnLocal, execv, ghost
<1>4. CASE BlockOn
  BY <1>0, <1>4 DEF BlockOn, PollMain, execv
<1>5. CASE NewRuntime
  BY <1>0, <1>5 DEF NewRuntime
<1>6. CASE MainReady \/ MainPending
  BY <1>6 DEF MainReady, MainPending, execv, ghost
<1>7. CASE TaskReady \/ TaskPending
  BY <1>7 DEF TaskReady, TaskPending, ghost
<1>8. CASE WakeDeferred \/ DrainReactor \/ DrainTaskReady
  BY <1>8 DEF WakeDeferred, DrainReactor, DrainTaskReady, ghost
<1>9. CASE PopInjection
  BY <1>9 DEF PopInjection, ghost
<1>10. CASE LoopFull \/ PickNone
  BY <1>0, <1>10 DEF LoopFull, PickNone, LeaveLoop, PollMain, execv
<1>11. CASE NextLocal \/ PickDrained
  BY <1>0, <1>11 DEF NextLocal, PickDrained, PollTask
<1>12. CASE PickInjected
  BY <1>0, <1>12 DEF PickInjected, PollTask
<1>13. CASE NextDrain \/ ParkDrain \/ DrainCrossThread \/ CrossDrained \/ ResetInterrupt
            \/ ParkEnter \/ ParkReturn
  BY <1>13 DEF NextDrain, ParkDrain, DrainCrossThread, CrossDrained, ResetInterrupt,
               ParkEnter, ParkReturn, execv, ghost
<1>14. ASSUME NEW h \in Helpers, HelperStep(h) PROVE StartedOK'
  BY <1>14 DEF HelperStep, HelperCall, WakeRemote, SpawnAlloc, SpawnSend, InterruptSwap,
               InterruptWrite, execv, ghost
<1>15. CASE UNCHANGED vars
  BY <1>15 DEF vars, execv, ghost
<1>16. QED
  BY <1>1, <1>2, <1>3, <1>4, <1>5, <1>6, <1>7, <1>8, <1>9, <1>10, <1>11, <1>12, <1>13, <1>14, <1>15
  DEF Next, UserStep, PollEnd, RuntimeStep, ReactorStep

\* TaskStatus of one task, as a function of the state it depends on.
Class(t, c, sl, st, inj, dn) ==
  CASE t \in dn -> "done"
    [] t = c -> "running"
    [] t \in sl \cap st -> "idle"
    [] t \in (sl \ st) \cup inj -> "new"
    [] OTHER -> "none"

\* The value of Class in each of the five situations.
LEMMA ClassIs ==
  ASSUME NEW t, NEW c, NEW sl, NEW st, NEW inj, NEW dn,
         t \in dn => t \notin sl /\ t # c /\ t \notin inj,
         t = c => t \notin sl /\ t \notin inj,
         t \in inj => t \notin sl
  PROVE  /\ t \in dn => Class(t, c, sl, st, inj, dn) = "done"
         /\ t = c => Class(t, c, sl, st, inj, dn) = "running"
         /\ t \in sl /\ t \in st => Class(t, c, sl, st, inj, dn) = "idle"
         /\ (t \in sl /\ t \notin st) \/ t \in inj => Class(t, c, sl, st, inj, dn) = "new"
         /\ t \notin dn /\ t # c /\ t \notin sl /\ t \notin inj => Class(t, c, sl, st, inj, dn) = "none"
<1>1. CASE t \in dn
  BY <1>1 DEF Class
<1>2. CASE t \notin dn /\ t = c
  BY <1>2 DEF Class
<1>3. CASE t \notin dn /\ t # c /\ t \in sl /\ t \in st
  BY <1>3 DEF Class
<1>4. CASE t \notin dn /\ t # c /\ t \in (sl \ st) \cup inj
  BY <1>4 DEF Class
<1>5. CASE t \notin dn /\ t # c /\ t \notin sl /\ t \notin inj
  BY <1>5 DEF Class
<1>6. QED
  BY <1>1, <1>2, <1>3, <1>4, <1>5

\* TaskStatus is Class, in this state and in the next.
LEMMA StatusIs ==
  /\ TaskStatus = [t \in Ids |-> Class(t, cur, slab, started, Elems(injection), done)]
  /\ TaskStatus' = [t \in Ids |-> Class(t, cur', slab', started', Elems(injection'), done')]
BY DEF TaskStatus, Class, Elems

\* What the abstract status of a task says about where it is, before ...
LEMMA StatusBefore ==
  ASSUME OnePlace, StartedOK, NEW t \in Ids
  PROVE  /\ t \in done => TaskStatus[t] = "done"
         /\ t = cur => TaskStatus[t] = "running"
         /\ t \in slab /\ t \in started => TaskStatus[t] = "idle"
         /\ (t \in slab /\ t \notin started) \/ t \in Elems(injection) => TaskStatus[t] = "new"
         /\ t \notin Live \cup done \cup Elems(injection) => TaskStatus[t] = "none"
<1>1. /\ t \in done => t \notin slab /\ t # cur /\ t \notin Elems(injection)
      /\ t = cur => t \notin slab /\ t \notin Elems(injection)
      /\ t \in Elems(injection) => t \notin slab
  BY DEF OnePlace, Live
<1>2. TaskStatus[t] = Class(t, cur, slab, started, Elems(injection), done)
  BY StatusIs
<1>3. QED
  BY <1>1, <1>2, ClassIs DEF Live

\* ... and after a step.
LEMMA StatusAfter ==
  ASSUME OnePlace', StartedOK', NEW t \in Ids
  PROVE  /\ t \in done' => TaskStatus'[t] = "done"
         /\ t = cur' => TaskStatus'[t] = "running"
         /\ t \in slab' /\ t \in started' => TaskStatus'[t] = "idle"
         /\ (t \in slab' /\ t \notin started') \/ t \in Elems(injection') => TaskStatus'[t] = "new"
         /\ t \notin Live' \cup done' \cup Elems(injection') => TaskStatus'[t] = "none"
<1>1. /\ t \in done' => t \notin slab' /\ t # cur' /\ t \notin Elems(injection')
      /\ t = cur' => t \notin slab' /\ t \notin Elems(injection')
      /\ t \in Elems(injection') => t \notin slab'
  BY DEF OnePlace, Live, Elems
<1>2. TaskStatus'[t] = Class(t, cur', slab', started', Elems(injection'), done')
  BY StatusIs
<1>3. QED
  BY <1>1, <1>2, ClassIs DEF Live

\* A task that a step does not move keeps its status.
Unmoved(t) ==
  /\ t \in done' <=> t \in done
  /\ t = cur' <=> t = cur
  /\ t \in slab' <=> t \in slab
  /\ t \in started' <=> t \in started
  /\ t \in Elems(injection') <=> t \in Elems(injection)

\* Its status is then a function of things the step left alone.
LEMMA StatusKept ==
  ASSUME NEW t \in Ids, Unmoved(t)
  PROVE  TaskStatus'[t] = TaskStatus[t]
<1>1. Class(t, cur', slab', started', Elems(injection'), done') = Class(t, cur, slab, started, Elems(injection), done)
  BY DEF Unmoved, Class
<1>2. QED
  BY <1>1, StatusIs

\* A step that moves no task, wakes none and neither enters nor leaves block_on.
LEMMA Stutters ==
  ASSUME \A t \in Ids : Unmoved(t), (Live \cap owed)' = Live \cap owed, (pc' = "user") <=> (pc = "user")
  PROVE  UNCHANGED Sched!svars
<1>1. \A t \in Ids : TaskStatus'[t] = TaskStatus[t]
  BY StatusKept
<1>2. TaskStatus' = TaskStatus
  BY <1>1, StatusIs
<1>3. QED
  BY <1>2 DEF Sched!svars

\* A step that moves u only.
LEMMA Moves ==
  ASSUME NEW u \in Ids, \A t \in Ids \ {u} : Unmoved(t)
  PROVE  TaskStatus' = [TaskStatus EXCEPT ![u] = TaskStatus'[u]]
<1>1. \A t \in Ids \ {u} : TaskStatus'[t] = TaskStatus[t]
  BY StatusKept
<1>2. QED
  BY <1>1, StatusIs

(***************************************************************************)
(* Each step of the executor is a step of the Scheduler or a stutter.      *)
(***************************************************************************)
Refines == Sched!SNext \/ UNCHANGED Sched!svars

\* A step that moves no task and wakes none is a stutter.
LEMMA StillRefines ==
  ASSUME UNCHANGED <<slab, done, injection>>, {cur'} \cap Ids = {cur} \cap Ids,
         started' \cap Ids = started \cap Ids, owed' \cap Ids = owed \cap Ids,
         slab \subseteq Ids, (pc' = "user") <=> (pc = "user")
  PROVE  Refines
<1>1. \A t \in Ids : Unmoved(t)
  BY DEF Unmoved
<1>2. (Live \cap owed)' = Live \cap owed
  BY DEF Live
<1>3. QED
  BY <1>1, <1>2, Stutters DEF Refines

\* A wake of a task whose future exists is a Wake, any other one a stutter.
LEMMA WakeRefines ==
  ASSUME OnePlace, StartedOK, NEW t, t \in started,
         UNCHANGED <<slab, done, injection, cur, started, pc>>, owed' = owed \cup {t},
         slab \subseteq Ids
  PROVE  Refines
<1>1. \A u \in Ids : Unmoved(u)
  BY DEF Unmoved
<1>2. Live' = Live
  BY DEF Live
<1>3. CASE t \in Live
  <2>1. t \in Ids
    BY <1>3 DEF Live
  <2>2. TaskStatus[t] \in {"idle", "running"}
    BY <1>3, <2>1, StatusBefore DEF Live
  <2>3. TaskStatus' = TaskStatus
    <3>1. \A u \in Ids : TaskStatus'[u] = TaskStatus[u]
      BY <1>1, StatusKept
    <3>2. QED
      BY <3>1, StatusIs
  <2>4. (Live \cap owed)' = (Live \cap owed) \cup {t}
    BY <1>2, <1>3
  <2>5. Sched!Wake(t)
    BY <2>2, <2>3, <2>4 DEF Sched!Wake
  <2>6. QED
    BY <2>1, <2>5 DEF Refines, Sched!SNext
<1>4. CASE t \notin Live
  <2>1. (Live \cap owed)' = Live \cap owed
    BY <1>2, <1>4
  <2>2. QED
    BY <1>1, <2>1, Stutters DEF Refines
<1>5. QED
  BY <1>3, <1>4

\* Sending a task that is nowhere yet creates it.
LEMMA SendRefines ==
  ASSUME OnePlace, StartedOK, OnePlace', StartedOK', injection \in Seq(Ids), NEW t \in Ids,
         t \notin Live \cup done \cup Elems(injection),
         injection' = Append(injection, t), UNCHANGED <<slab, done, cur, started, owed, pc>>
  PROVE  Refines
<1>1. Elems(injection') = Elems(injection) \cup {t}
  BY ElemsAppend
<1>2. \A u \in Ids \ {t} : Unmoved(u)
  BY <1>1 DEF Unmoved
<1>3. TaskStatus[t] = "none"
  BY StatusBefore
<1>4. TaskStatus'[t] = "new"
  BY <1>1, StatusAfter
<1>5. TaskStatus' = [TaskStatus EXCEPT ![t] = "new"]
  BY <1>2, <1>4, Moves
<1>6. (Live \cap owed)' = Live \cap owed
  BY DEF Live
<1>7. Sched!Create(t)
  BY <1>3, <1>5, <1>6 DEF Sched!Create
<1>8. QED
  BY <1>7 DEF Refines, Sched!SNext

\* No task runs while the runtime thread polls none.
LEMMA NoneRunning ==
  ASSUME OnePlace, StartedOK, cur \notin Ids
  PROVE  \A u \in Ids : TaskStatus[u] # "running"
<1> SUFFICES ASSUME NEW u \in Ids PROVE TaskStatus[u] # "running"
  OBVIOUS
<1>1. CASE u \in done
  BY <1>1, StatusBefore
<1>2. CASE u \in slab
  BY <1>2, StatusBefore
<1>3. CASE u \in Elems(injection)
  BY <1>3, StatusBefore
<1>4. CASE u \notin Live \cup done \cup Elems(injection)
  BY <1>4, StatusBefore
<1>5. QED
  BY <1>1, <1>2, <1>3, <1>4 DEF Live

\* A poll of a stored future is a Run, an id with no future a stutter.  The
\* future is stored, or comes straight from the injection queue.
LEMMA PollRefines ==
  ASSUME OnePlace, StartedOK, OnePlace', StartedOK', NEW t \in Ids, NEW stored,
         cur = Nobody, pc # "user", slab \subseteq Ids, injection \in Seq(Ids),
         PollTask(t, stored), UNCHANGED done,
         \/ stored = slab /\ UNCHANGED injection
         \/ stored = slab \cup {t} /\ t \in Elems(injection)
              /\ Elems(injection') = Elems(injection) \ {t}
  PROVE  Refines
<1>1. CASE t \in stored
  <2>1. /\ cur' = t /\ slab' = stored \ {t} /\ started' = started \cup {t}
        /\ owed' = owed \ {t} /\ pc' = "poll"
    BY <1>1 DEF PollTask
  <2>2. \A u \in Ids \ {t} : Unmoved(u)
    BY <2>1, IdFacts DEF Unmoved
  <2>3. TaskStatus[t] \in {"new", "idle"}
    BY <1>1, StatusBefore
  <2>4. TaskStatus'[t] = "running"
    BY <2>1, StatusAfter
  <2>5. TaskStatus' = [TaskStatus EXCEPT ![t] = "running"]
    BY <2>2, <2>4, Moves
  <2>6. \A u \in Ids : TaskStatus[u] # "running"
    BY NoneRunning, IdFacts
  <2>7. (Live \cap owed)' = (Live \cap owed) \ {t}
    BY <2>1, IdFacts DEF Live
  <2>8. Sched!Run(t)
    BY <2>1, <2>3, <2>5, <2>6, <2>7 DEF Sched!Run
  <2>9. QED
    BY <2>8 DEF Refines, Sched!SNext
<1>2. CASE t \notin stored
  BY <1>2, StillRefines DEF PollTask
<1>3. QED
  BY <1>1, <1>2

\* The end of a task's poll is a Finish ...
LEMMA ReadyRefines ==
  ASSUME OnePlace, StartedOK, OnePlace', StartedOK', Control, TaskReady
  PROVE  Refines
<1>1. /\ pc = "poll" /\ cur \in Ids /\ done' = done \cup {cur} /\ pc' = "next" /\ cur' = Nobody
      /\ UNCHANGED <<slab, injection, started, owed>>
  BY DEF TaskReady, shared, ghost
<1>2. \A u \in Ids \ {cur} : Unmoved(u)
  BY <1>1, IdFacts DEF Unmoved
<1>3. TaskStatus[cur] = "running" /\ TaskStatus'[cur] = "done"
  BY <1>1, StatusBefore, StatusAfter
<1>4. TaskStatus' = [TaskStatus EXCEPT ![cur] = "done"]
  BY <1>1, <1>2, <1>3, Moves
<1>5. (Live \cap owed)' = (Live \cap owed) \ {cur}
  BY <1>1, IdFacts DEF Live, OnePlace
<1>6. Sched!Finish(cur)
  BY <1>1, <1>3, <1>4, <1>5 DEF Sched!Finish
<1>7. QED
  BY <1>1, <1>6 DEF Refines, Sched!SNext

\* ... or a Suspend.
LEMMA PendingRefines ==
  ASSUME OnePlace, StartedOK, OnePlace', StartedOK', Control, TaskPending
  PROVE  Refines
<1>1. /\ pc = "poll" /\ cur \in Ids /\ slab' = slab \cup {cur} /\ pc' = "next" /\ cur' = Nobody
      /\ UNCHANGED <<done, injection, started, owed>> /\ cur \in started
  BY IdFacts DEF TaskPending, shared, ghost, StartedOK
<1>2. \A u \in Ids \ {cur} : Unmoved(u)
  BY <1>1, IdFacts DEF Unmoved
<1>3. TaskStatus[cur] = "running" /\ TaskStatus'[cur] = "idle"
  BY <1>1, StatusBefore, StatusAfter
<1>4. TaskStatus' = [TaskStatus EXCEPT ![cur] = "idle"]
  BY <1>1, <1>2, <1>3, Moves
<1>5. (Live \cap owed)' = Live \cap owed
  BY <1>1, IdFacts DEF Live
<1>6. Sched!Suspend(cur)
  BY <1>1, <1>3, <1>4, <1>5 DEF Sched!Suspend
<1>7. QED
  BY <1>1, <1>6 DEF Refines, Sched!SNext

\* The pops of tick move a new task into the slab, where it is still new.
LEMMA PopRefines ==
  ASSUME TypeOK, Control, OnePlace, StartedOK, OnePlace', StartedOK', PopInjection
  PROVE  Refines
<1>0. slab \subseteq Ids /\ injection \in Seq(Ids) /\ cur = Nobody /\ pc = "pop"
  BY DEF TypeOK, Control, PopInjection
<1>1. CASE InjectionFresh
  <2> DEFINE t == Head(injection)
  <2>1. /\ injection # <<>> /\ t \notin ledger /\ slab' = slab \cup {t} /\ injection' = Tail(injection)
        /\ UNCHANGED <<pc, cur, done, started, owed>>
    BY <1>1 DEF InjectionFresh, PopInjection, ghost
  <2>2. /\ t \in Ids /\ t \in Elems(injection) /\ Elems(injection') = Elems(injection) \ {t}
    BY <1>0, <2>1, ElemsTail, OnceTail, OnePlaceParts
  <2>3. t \notin Live \cup done
    BY <2>1 DEF OnePlace
  <2>4. t \notin started /\ t \notin owed
    BY <2>2, <2>3 DEF StartedOK
  <2>5. TaskStatus[t] = "new" /\ TaskStatus'[t] = "new"
    BY <2>1, <2>2, <2>4, StatusBefore, StatusAfter
  <2>6. \A u \in Ids \ {t} : Unmoved(u)
    BY <2>1, <2>2 DEF Unmoved
  <2>7. \A u \in Ids : TaskStatus'[u] = TaskStatus[u]
    BY <2>5, <2>6, StatusKept
  <2>8. TaskStatus' = TaskStatus
    BY <2>7, StatusIs
  <2>9. (Live \cap owed)' = Live \cap owed
    BY <2>1, <2>4 DEF Live
  <2>10. QED
    BY <2>1, <2>8, <2>9 DEF Refines, Sched!svars
<1>2. CASE ~InjectionFresh
  <2>1. UNCHANGED injection
    BY <1>2, NotFresh DEF PopInjection
  <2>2. QED
    BY <1>0, <1>2, <2>1, StillRefines DEF PopInjection, EnterLoop, ghost
<1>3. QED
  BY <1>1, <1>2

\* Every step of the executor refines one of the Scheduler.
LEMMA RefineStep ==
  ASSUME TypeOK, Control, OnePlace, StartedOK, OnePlace', StartedOK', [Next]_vars
  PROVE  Refines
<1> USE IdFacts
<1>0. /\ slab \subseteq Ids /\ injection \in Seq(Ids) /\ local \in Seq(Ids)
      /\ cur \in AllIds \cup {Nobody} /\ (pc = "poll" <=> cur # Nobody)
  BY DEF TypeOK, Control
<1>1. ASSUME NEW t \in AllIds, WakeLocal(t) PROVE Refines
  <2>1. CASE t \in started
    BY <1>0, <1>1, <2>1, WakeRefines DEF WakeLocal, execv, shared
  <2>2. CASE t \notin started
    BY <1>0, <1>1, <2>2, StillRefines DEF WakeLocal, execv, shared
  <2>3. QED
    BY <2>1, <2>2
<1>2. ASSUME NEW t \in AllIds, ReactorWake(t) \/ TimerWake(t) PROVE Refines
  BY <1>0, <1>2, WakeRefines DEF ReactorWake, TimerWake, execv, shared
<1>3. CASE Yield
  <2>1. cur \in started
    BY <1>0, <1>3 DEF Yield, StartedOK
  <2>2. QED
    BY <1>0, <1>3, <2>1, WakeRefines DEF Yield, execv, shared
<1>4. CASE SpawnLocal
  <2>1. next_id \in Ids /\ next_id \notin 1 .. next_id - 1
    BY <1>4, ConstantsAssumption DEF SpawnLocal, TypeOK, Ids
  <2>2. next_id \notin Live \cup done \cup Elems(injection)
    BY <2>1 DEF OnePlace
  <2>3. QED
    BY <1>0, <1>4, <2>1, <2>2, SendRefines DEF SpawnLocal, execv, ghost
<1>5. CASE BlockOn
  <2>1. /\ pc = "user" /\ pc' = "poll" /\ cur = Nobody /\ cur' = Main
        /\ UNCHANGED <<slab, done, injection>> /\ started' = started \cup {Main} /\ owed' = owed \ {Main}
    BY <1>0, <1>5 DEF BlockOn, PollMain, execv, shared
  <2>2. \A u \in Ids : TaskStatus'[u] = TaskStatus[u]
    BY <2>1, StatusKept DEF Unmoved
  <2>3. TaskStatus' = TaskStatus
    BY <2>2, StatusIs
  <2>4. (Live \cap owed)' = Live \cap owed
    BY <1>0, <2>1 DEF Live
  <2>5. Sched!Enter
    BY <2>1, <2>3, <2>4 DEF Sched!Enter
  <2>6. QED
    BY <2>5 DEF Refines, Sched!SNext
<1>6. CASE NewRuntime
  <2>1. /\ pc = "user" /\ pc' = "user" /\ cur = Nobody /\ cur' = Nobody
        /\ slab' = {} /\ done' = {} /\ injection' = <<>> /\ owed' = {}
    BY <1>0, <1>6 DEF NewRuntime
  <2>2. Elems(injection') = {}
    BY <2>1 DEF Elems
  <2>3. \A u \in Ids : TaskStatus'[u] = "none"
    BY <2>1, <2>2, StatusAfter DEF Live
  <2>4. TaskStatus' = [u \in Ids |-> "none"]
    BY <2>3, StatusIs
  <2>5. (Live \cap owed)' = {}
    BY <2>1
  <2>6. Sched!Reset
    BY <2>1, <2>4, <2>5 DEF Sched!Reset
  <2>7. QED
    BY <2>6 DEF Refines, Sched!SNext
<1>7. CASE MainReady
  <2>1. /\ pc = "poll" /\ pc' = "user" /\ cur = Main /\ cur' = Nobody
        /\ UNCHANGED <<slab, done, injection, started, owed>>
    BY <1>7 DEF MainReady, execv, shared, ghost
  <2>2. \A u \in Ids : TaskStatus'[u] = TaskStatus[u]
    BY <2>1, StatusKept DEF Unmoved
  <2>3. TaskStatus' = TaskStatus
    BY <2>2, StatusIs
  <2>4. (Live \cap owed)' = Live \cap owed
    BY <2>1 DEF Live
  <2>5. \A u \in Ids : TaskStatus[u] # "running"
    BY <2>1, NoneRunning
  <2>6. Sched!Leave
    BY <2>1, <2>3, <2>4, <2>5 DEF Sched!Leave
  <2>7. QED
    BY <2>6 DEF Refines, Sched!SNext
<1>8. CASE MainPending
  BY <1>0, <1>8, StillRefines DEF MainPending, execv, shared, ghost
<1>9. CASE TaskReady \/ TaskPending
  BY <1>9, ReadyRefines, PendingRefines
<1>10. CASE PopInjection
  BY <1>10, PopRefines
<1>11. CASE WakeDeferred \/ DrainReactor
  BY <1>0, <1>11, StillRefines DEF WakeDeferred, DrainReactor, shared, ghost
<1>12. CASE DrainTaskReady
  BY <1>0, <1>12, StillRefines DEF DrainTaskReady, EnterLoop, shared, ghost
<1>13. CASE LoopFull
  BY <1>0, <1>13, StillRefines DEF LoopFull, LeaveLoop, PollMain, execv, shared
<1>14. CASE PickNone
  <2>1. UNCHANGED injection
    BY <1>14, NotFresh DEF PickNone
  <2>2. QED
    BY <1>0, <1>14, <2>1, StillRefines DEF PickNone, LeaveLoop, PollMain, execv
<1>15. CASE NextLocal \/ PickDrained
  <2>1. Head(local) \in Ids
    BY <1>0, <1>15, ElemsTail DEF NextLocal, PickDrained
  <2>2. /\ PollTask(Head(local), slab) /\ UNCHANGED <<done, injection>> /\ pc # "user" /\ pc # "poll"
    BY <1>15 DEF NextLocal, PickDrained, shared
  <2>3. QED
    BY <1>0, <2>1, <2>2, PollRefines
<1>16. CASE PickInjected
  <2>1. injection # <<>> /\ injection' = Tail(injection) /\ UNCHANGED done /\ pc # "user" /\ pc # "poll"
    BY <1>16 DEF PickInjected, InjectionFresh
  <2>2. /\ Head(injection) \in Ids /\ Head(injection) \in Elems(injection)
        /\ Elems(injection') = Elems(injection) \ {Head(injection)}
    BY <1>0, <2>1, ElemsTail, OnceTail, OnePlaceParts
  <2>3. PollTask(Head(injection), slab \cup {Head(injection)})
    BY <1>16 DEF PickInjected
  <2>4. QED
    BY <1>0, <2>1, <2>2, <2>3, PollRefines
<1>17. CASE NextDrain \/ ParkDrain \/ DrainCrossThread \/ CrossDrained \/ ResetInterrupt
            \/ ParkEnter \/ ParkReturn
  BY <1>0, <1>17, StillRefines DEF NextDrain, ParkDrain, DrainCrossThread, CrossDrained,
     ResetInterrupt, ParkEnter, ParkReturn, execv, shared, ghost
<1>18. ASSUME NEW h \in Helpers, NEW t \in AllIds, WakeRemote(h, t) PROVE Refines
  BY <1>0, <1>18, WakeRefines DEF WakeRemote, execv
<1>19. ASSUME NEW h \in Helpers, SpawnAlloc(h) \/ InterruptSwap(h) \/ InterruptWrite(h) PROVE Refines
  BY <1>0, <1>19, StillRefines DEF SpawnAlloc, InterruptSwap, InterruptWrite, execv, ghost
<1>20. ASSUME NEW h \in Helpers, SpawnSend(h) PROVE Refines
  <2>1. hid[h] \in Ids /\ hid[h] \in Sending
    BY <1>20 DEF SpawnSend, Control, Sending
  <2>2. hid[h] \notin Live \cup done \cup Elems(injection)
    BY <2>1 DEF OnePlace
  <2>3. QED
    BY <1>0, <1>20, <2>1, <2>2, SendRefines DEF SpawnSend, execv, ghost
<1>21. CASE UNCHANGED vars
  BY <1>0, <1>21, StillRefines DEF vars, execv, shared, ghost
<1>22. QED
  BY <1>1, <1>2, <1>3, <1>4, <1>5, <1>6, <1>7, <1>8, <1>9, <1>10, <1>11, <1>12, <1>13, <1>14,
     <1>15, <1>16, <1>17, <1>18, <1>19, <1>20, <1>21
  DEF Next, UserStep, PollEnd, RuntimeStep, ReactorStep, HelperStep, HelperCall

\* The executor, its queues, flags and threads, implements the safety part of
\* the Scheduler: tasks run one at a time, a finished one never again, and a
\* wake stays in force until the task is run.
THEOREM ImplementsSafely == Spec => Sched!SSafe
<1>1. Init => Sched!SInit
  <2> SUFFICES ASSUME Init PROVE Sched!SInit
    OBVIOUS
  <2>1. /\ pc = "user" /\ cur = Nobody /\ slab = {} /\ done = {} /\ injection = <<>> /\ owed = {}
    BY DEF Init
  <2>2. Elems(injection) = {}
    BY <2>1 DEF Elems
  <2>3. \A t \in Ids : Class(t, cur, slab, started, Elems(injection), done) = "none"
    BY <2>1, <2>2, IdFacts, ClassIs
  <2>4. TaskStatus = [t \in Ids |-> "none"]
    BY <2>3, StatusIs
  <2>5. QED
    BY <2>1, <2>4 DEF Sched!SInit
<1>2. Init => StartedOK
  BY DEF Init, StartedOK
<1>3. TypeOK /\ Control /\ OnePlace /\ StartedOK /\ OnePlace' /\ StartedOK' /\ [Next]_vars
        => [Sched!SNext]_(Sched!svars)
  BY RefineStep DEF Refines
<1>4. QED
  BY <1>1, <1>2, <1>3, TypeCorrect, TasksPlaced, StartedStep, PTL DEF Spec, Sched!SSafe

=============================================================================

----------------------------- MODULE TimerMap -----------------------------
(***************************************************************************)
(* What the timer wheel promises the reactor: a map from timer id to       *)
(* deadline, from which a park takes every timer that is due, and whose    *)
(* earliest deadline bounds how long it sleeps.                            *)
(***************************************************************************)
EXTENDS Integers, FiniteSetsExt

CONSTANTS TimerIds, WheelTimes

NoTimer == 0      \* no timer, no deadline: both start at 1

VARIABLES
  timers,    \* the deadline of each timer; NoTimer when it is not in the map
  clock,     \* the time of the latest park
  at,        \* the time of the running wake_expired_timers; NoTimer outside
  answer     \* what the latest call returned

MapInit ==
  /\ timers = [r \in TimerIds |-> NoTimer] /\ clock = 0 /\ at = NoTimer
  /\ answer = NoTimer

MapInsert(r, d) ==
  /\ at = NoTimer /\ d > clock
  /\ timers' = [timers EXCEPT ![r] = d] /\ answer' = NoTimer
  /\ UNCHANGED <<clock, at>>

MapRemove(r) ==
  /\ at = NoTimer
  /\ timers' = [timers EXCEPT ![r] = NoTimer] /\ answer' = NoTimer
  /\ UNCHANGED <<clock, at>>

Due(now) == {r \in TimerIds : timers[r] # NoTimer /\ timers[r] <= now}

\* One due timer is taken out, whichever; none only when none is due.
MapPop(now) ==
  /\ at \in {NoTimer, now} /\ now >= clock /\ clock' = now
  /\ \/ /\ Due(now) = {} /\ answer' = NoTimer /\ at' = NoTimer
        /\ UNCHANGED timers
     \/ \E r \in Due(now) :
          answer' = r /\ at' = now /\ timers' = [timers EXCEPT ![r] = NoTimer]

Deadlines == {timers[r] : r \in TimerIds} \ {NoTimer}

MapNextDeadline ==
  /\ at = NoTimer
  /\ answer' = IF Deadlines = {} THEN NoTimer ELSE Min(Deadlines)
  /\ UNCHANGED <<timers, clock, at>>

MapNext ==
  \/ \E r \in TimerIds : \/ \E d \in WheelTimes : MapInsert(r, d)
                         \/ MapRemove(r)
  \/ \E now \in WheelTimes : MapPop(now)
  \/ MapNextDeadline

MapSpec == MapInit /\ [][MapNext]_<<timers, clock, at, answer>>

=============================================================================

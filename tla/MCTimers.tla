------------------------------ MODULE MCTimers ------------------------------
(***************************************************************************)
(* TLC instances of Timers.                                                *)
(***************************************************************************)
EXTENDS Timers, TLC

\* Sleeps and wakers are interchangeable.
TimerSymmetry == Permutations(Sleeps) \cup Permutations(Wakers)

=============================================================================

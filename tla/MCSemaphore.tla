---------------------------- MODULE MCSemaphore ----------------------------
(***************************************************************************)
(* TLC instances of Semaphore.                                             *)
(***************************************************************************)
EXTENDS Semaphore, TLC

\* The futures are interchangeable.
FutureSymmetry == Permutations(Futures)

=============================================================================

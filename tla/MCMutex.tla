------------------------------ MODULE MCMutex ------------------------------
(***************************************************************************)
(* TLC instances of Mutex.                                                 *)
(***************************************************************************)
EXTENDS Mutex

=============================================================================

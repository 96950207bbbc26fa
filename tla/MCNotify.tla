------------------------------ MODULE MCNotify ------------------------------
(***************************************************************************)
(* TLC instances of Notify.                                                *)
(***************************************************************************)
EXTENDS Notify

=============================================================================

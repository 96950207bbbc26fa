-------------------------------- MODULE MCIo --------------------------------
(***************************************************************************)
(* TLC instances of Io.                                                    *)
(***************************************************************************)
EXTENDS Io

=============================================================================

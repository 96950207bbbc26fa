------------------------------- MODULE MCMpsc -------------------------------
(***************************************************************************)
(* TLC instances of Mpsc.                                                  *)
(***************************************************************************)
EXTENDS Mpsc, TLC

\* Sender futures are interchangeable, and so are wakers.
ChannelSymmetry == Permutations(Futures) \cup Permutations(Wakers)

=============================================================================

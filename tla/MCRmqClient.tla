---------------------------- MODULE MCRmqClient ----------------------------
(* TLC instances of RmqClient. *)
EXTENDS RmqClient, TLC

Symmetry == Permutations(Calls)
=============================================================================

---------------------------- MODULE MCRmqServer ----------------------------
(* TLC instances of RmqServer. *)
EXTENDS RmqServer, TLC
=============================================================================

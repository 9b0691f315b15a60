---------------------------- MODULE MCChangeFlow ----------------------------
(* Two people on one change. *)
EXTENDS ChangeFlow, TLC

Symmetry == Permutations(Users)
=============================================================================

----------------------------- MODULE MCTaskList -----------------------------
(* Three tasks, two users; limits and offsets on both sides of their defaults. *)
EXTENDS TaskList, TLC

MCLimits == {0, 1, 2}
MCOffsets == {-1, 0, 1}
Symmetry == Permutations(Users) \union Permutations(Ids) \union Permutations(Statuses)
=============================================================================

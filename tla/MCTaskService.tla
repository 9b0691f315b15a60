--------------------------- MODULE MCTaskService ---------------------------
(* TLC instances of TaskService. *)
EXTENDS TaskService, TLC

Symmetry == Permutations(Users) \cup Permutations(Titles)
            \cup Permutations(Requests) \cup Permutations(TaskIds)
=============================================================================

------------------------------ MODULE TaskBoard ------------------------------
(***************************************************************************)
(* What the task service promises: a board of cards, each owned by one     *)
(* user, changed in single steps by its owner only, whose status follows   *)
(* the documented machine and whose ids are never used again once removed. *)
(***************************************************************************)
CONSTANTS Users, Ids, Titles, None

Card == [owner : Users, title : Titles, status : {"todo", "in_progress", "done"}]

\* README: todo -> in_progress -> done (and in_progress -> todo).
Machine == {<<"todo", "in_progress">>, <<"in_progress", "done">>, <<"in_progress", "todo">>}

VARIABLES
    board,  \* Ids -> Card or None
    gone,   \* the ids of removed cards
    by      \* the user the last step answered, or None

vars == <<board, gone, by>>

Init ==
    /\ board = [i \in Ids |-> None]
    /\ gone = {}
    /\ by = None

Add(u, i, title) ==
    /\ board[i] = None
    /\ i \notin gone
    /\ board' = [board EXCEPT ![i] = [owner |-> u, title |-> title, status |-> "todo"]]
    /\ by' = u
    /\ UNCHANGED gone

Edit(u, i, title) ==
    /\ board[i] # None
    /\ board[i].owner = u
    /\ board' = [board EXCEPT ![i] = [@ EXCEPT !.title = title]]
    /\ by' = u
    /\ UNCHANGED gone

Move(u, i, to) ==
    /\ board[i] # None
    /\ board[i].owner = u
    /\ <<board[i].status, to>> \in Machine
    /\ board' = [board EXCEPT ![i] = [@ EXCEPT !.status = to]]
    /\ by' = u
    /\ UNCHANGED gone

Remove(u, i) ==
    /\ board[i] # None
    /\ board[i].owner = u
    /\ board' = [board EXCEPT ![i] = None]
    /\ gone' = gone \cup {i}
    /\ by' = u

\* A step that changes no card: a look at the board, a refusal, a failure.
Look ==
    /\ by' \in Users \cup {None}
    /\ UNCHANGED <<board, gone>>

Next ==
    \/ \E u \in Users, i \in Ids :
          \/ \E title \in Titles : Add(u, i, title) \/ Edit(u, i, title)
          \/ \E to \in {"todo", "in_progress", "done"} : Move(u, i, to)
          \/ Remove(u, i)
    \/ Look

Spec == Init /\ [][Next]_vars

==============================================================================

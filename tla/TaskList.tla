------------------------------ MODULE TaskList ------------------------------
(***************************************************************************)
(* Task.List: a client walks the pages of a user's tasks while others      *)
(* write to the table.  A page is two statements, COUNT and SELECT, each   *)
(* of which sees the table as it is then.  The SELECT orders by created_at *)
(* alone, so each one may order tasks of the same time as it likes; a      *)
(* connection lost while the rows are read leaves a shorter page and no    *)
(* error, because rows.Err is not asked.                                   *)
(***************************************************************************)
EXTENDS Integers, Sequences, FiniteSetsExt, Functions

CONSTANTS Users, Ids, Statuses,
          Limits, Offsets,   \* what a caller may send
          MaxTime,           \* bound: values of created_at
          AnyStatus, None    \* no filter; no row

ASSUME IdsAssumption == IsFiniteSet(Ids)
ASSUME CallersAssumption == Limits \subseteq Int /\ Offsets \subseteq Int
ASSUME MaxTimeAssumption == MaxTime \in Nat

VARIABLES
    table,     \* Ids -> row or None
    walk,      \* the List in progress: who, filter, limit, offset, and what it has
    touched,   \* history: someone has written since the walk began
    lost       \* history: a page was cut short by a lost connection

vars == <<table, walk, touched, lost>>

Row == [user : Users, status : Statuses, createdAt : 1..MaxTime]
ASSUME NoneAssumption == None \notin Row

-----------------------------------------------------------------------------
(* The statements. *)
Where(user, status) ==
    {i \in Ids : /\ table[i] # None
                 /\ table[i].user = user
                 /\ status # AnyStatus => table[i].status = status}
WhereUser(user, status) == {i \in Ids : table[i] # None /\ table[i].user = user}
CountAll(user, status) == Cardinality(WhereUser(user, status))
Count(user, status) == Cardinality(Where(user, status))

\* ORDER BY created_at DESC: any order that agrees with it.
AnyOrder(found) == Bijection(1..Cardinality(found), found)
Ordered(found) ==
    {s \in Bijection(1..Cardinality(found), found) : \A i, j \in 1..Cardinality(found) :
        i < j => table[s[i]].createdAt >= table[s[j]].createdAt}
\* LIMIT and OFFSET.
Page(s, limit, offset) == SubSeq(s, offset + 1, Min({Len(s), offset + limit}))

\* The use case replaces a limit that is not positive and a negative offset.
LimitAsGiven(l) == l
Limit(l) == IF l <= 0 THEN 10 ELSE l
Offset(o) == IF o < 0 THEN 0 ELSE o

-----------------------------------------------------------------------------
NoWalk == [at |-> "idle"]
Init ==
    /\ table = [i \in Ids |-> None]
    /\ walk = NoWalk /\ touched = FALSE /\ lost = FALSE

\* Store, Delete, and Update's effect on the columns that List looks at.
Write(i) ==
    /\ \/ table[i] = None /\ \E r \in Row : table' = [table EXCEPT ![i] = r]
       \/ table[i] # None /\ table' = [table EXCEPT ![i] = None]
       \/ table[i] # None /\ \E st \in Statuses : table' = [table EXCEPT ![i].status = st]
    /\ touched' = (walk.at # "idle")
    /\ UNCHANGED <<walk, lost>>

Begin ==
    /\ walk.at = "idle"
    /\ \E u \in Users, st \in Statuses \union {AnyStatus}, l \in Limits, o \in Offsets :
          walk' = [at |-> "count", user |-> u, status |-> st, limit |-> Limit(l),
                   from |-> Offset(o), offset |-> Offset(o), total |-> 0, seen |-> <<>>]
    /\ touched' = FALSE /\ lost' = FALSE
    /\ UNCHANGED table
ListCount ==
    /\ walk.at = "count"
    /\ walk' = [walk EXCEPT !.at = "page", !.total = Count(walk.user, walk.status)]
    /\ UNCHANGED <<table, touched, lost>>
\* The client asks for the next page until it has gone past the total.
Got(rows) ==
    walk' = [walk EXCEPT !.seen = @ \o rows, !.offset = @ + walk.limit,
                         !.at = IF walk.offset + walk.limit >= walk.total THEN "done" ELSE "count"]
ListPage ==
    /\ walk.at = "page"
    /\ \E s \in Ordered(Where(walk.user, walk.status)) :
          LET page == Page(s, walk.limit, walk.offset) IN
          \/ Got(page) /\ UNCHANGED lost
          \/ \E n \in 0..(Len(page) - 1) : Got(SubSeq(page, 1, n)) /\ lost' = TRUE
    /\ UNCHANGED <<table, touched>>
\* A statement fails, or the client has what it wanted.
End ==
    /\ walk.at # "idle"
    /\ walk' = NoWalk /\ touched' = FALSE /\ lost' = FALSE
    /\ UNCHANGED table

Next == (\E i \in Ids : Write(i)) \/ Begin \/ ListCount \/ ListPage \/ End

Spec == Init /\ [][Next]_vars

-----------------------------------------------------------------------------
\* The table holds rows, and a walk has a positive limit and an offset that is
\* not negative, whatever the caller sent.
TypeOK ==
    /\ table \in [Ids -> Row \union {None}]
    /\ walk.at \in {"idle", "count", "page", "done"}
    /\ walk.at # "idle" => walk.limit > 0 /\ walk.offset >= 0 /\ walk.total \in 0..Cardinality(Ids)
    /\ {touched, lost} \subseteq BOOLEAN

Found == Where(walk.user, walk.status)
Times == {table[i].createdAt : i \in Found}
Done == walk.at = "done" /\ ~touched /\ ~lost

\* Safety: pages that no write and no lost connection disturbed hold, together,
\* as many tasks as the total promised beyond the first offset: COUNT and the
\* page select the same tasks, and the pages neither overlap nor leave a gap.
PagesMatchTotal == Done => Len(walk.seen) = Max({0, walk.total - walk.from})

\* Safety: if moreover no two of the tasks have the same created_at, a walk
\* from the first page shows every matching task of the user exactly once,
\* newest first.  With equal times a task may come twice and another not at all.
WalkComplete ==
    Done /\ walk.from = 0 /\ Cardinality(Times) = Cardinality(Found) =>
        /\ Len(walk.seen) = Cardinality(Found)
        /\ {walk.seen[k] : k \in DOMAIN walk.seen} = Found
        /\ \A j, k \in DOMAIN walk.seen :
               j < k => table[walk.seen[j]].createdAt > table[walk.seen[k]].createdAt
=============================================================================

----------------------------- MODULE TaskService -----------------------------
(***************************************************************************)
(* The task domain: internal/entity/task.go, internal/usecase/task and     *)
(* internal/repo/persistent/task, running against the tasks table.         *)
(*                                                                         *)
(* Every in-flight request is a goroutine of one of the four transports    *)
(* that has called the task use case.  A database round trip is one step;  *)
(* Update and Transition read the row and write it back in two round       *)
(* trips with no transaction around them, so the steps of concurrent       *)
(* requests interleave between the read and the write.                     *)
(*                                                                         *)
(* A title stands for the title and description pair, which the code       *)
(* always carries together.  Time is counted in ticks of the clock, which  *)
(* are finer than the timestamp columns.                                   *)
(***************************************************************************)
EXTENDS Integers

CONSTANTS
    Users,     \* user ids, as the auth layer of a transport supplies them
    TaskIds,   \* the UUIDs that uuid.New can return
    Titles,
    Requests,  \* slots for requests that are inside the use case
    MaxClock,  \* bound on the wall clock
    Precision, \* clock ticks in one unit of a timestamp column
    None       \* no row, no loaded task, no response

ASSUME MaxClockAssumption == MaxClock \in Nat
ASSUME PrecisionAssumption == Precision \in Nat \ {0}

TaskStatus == {"todo", "in_progress", "done"}

\* What a caller may send as a status: gRPC does not validate it.
StatusInputs == TaskStatus \cup {"unknown"}

Task == [id : TaskIds, userID : Users, title : Titles, status : TaskStatus,
         createdAt : Nat, updatedAt : Nat]

Args == [op : {"update"}, user : Users, id : TaskIds, arg : Titles, now : Nat]
        \cup
        [op : {"transition"}, user : Users, id : TaskIds, arg : StatusInputs, now : Nat]

Errors == {"ok", "not_found", "forbidden", "invalid_transition", "internal"}

Response == [user : Users, err : Errors, task : Task \cup {None}]

ASSUME NoneAssumption == None \notin Task \cup Args \cup Response

VARIABLES
    rows,     \* the tasks table: TaskIds -> Task or None
    issued,   \* ids uuid.New has returned
    deleted,  \* history: ids whose row has been deleted
    clock,    \* time.Now
    pc,       \* where each request is
    args,     \* what an Update or a Transition was called with
    task,     \* the local variable task: the row to insert, or the row as read
    resp      \* what the last step returned to its caller, or None

vars == <<rows, issued, deleted, clock, pc, args, task, resp>>

-----------------------------------------------------------------------------
(* The entity and the statements of the repository.                        *)

\* Mutation: done is not a final state.
CanTransitionReopen(from, to) ==
    \/ from = "todo" /\ to = "in_progress"
    \/ from = "in_progress" /\ to \in {"done", "todo"}
    \/ from = "done" /\ to = "todo"

CanTransition(from, to) ==
    \/ from = "todo" /\ to = "in_progress"
    \/ from = "in_progress" /\ to \in {"done", "todo"}

\* Mutation: the status column is left out.
NewTaskNoStatus(i, u, title, now) ==
    [id |-> i, userID |-> u, title |-> title, status |-> "",
     createdAt |-> now, updatedAt |-> now]

\* Mutation: UpdatedAt keeps its zero value.
NewTaskNoStamp(i, u, title, now) ==
    [id |-> i, userID |-> u, title |-> title, status |-> "todo",
     createdAt |-> now, updatedAt |-> 0]

NewTask(i, u, title, now) ==
    [id |-> i, userID |-> u, title |-> title, status |-> "todo",
     createdAt |-> now, updatedAt |-> now]

\* A time as a TIMESTAMP column keeps it.
Truncate(ts) == ts - (ts % Precision)

\* The row that an INSERT of t creates.
Saved(t) == [t EXCEPT !.createdAt = Truncate(t.createdAt), !.updatedAt = Truncate(t.updatedAt)]

\* Mutation: the owner of the row is not compared with the caller.
GetByIDAnyOwner(u, i) == IF rows[i] = None THEN "not_found" ELSE "ok"

\* The error of repo.GetByID; on "ok" the task it returns is rows[i].
GetByID(u, i) ==
    IF rows[i] = None THEN "not_found"
    ELSE IF rows[i].userID # u THEN "forbidden"
    ELSE "ok"

\* WHERE id = task.ID AND user_id = task.UserID
Matches(u, i) == rows[i] # None /\ rows[i].userID = u

\* Mutation: INSERT ... ON CONFLICT DO UPDATE.
UpdateRowsUpsert(t) == [rows EXCEPT ![t.id] = Saved(t)]

\* Mutation: UPDATE without SET status.
UpdateRowsNoStatus(t) ==
    IF Matches(t.userID, t.id)
    THEN [rows EXCEPT ![t.id] = [@ EXCEPT !.title = t.title,
                                          !.updatedAt = Truncate(t.updatedAt)]]
    ELSE rows

\* The table after repo.Update(t).
UpdateRows(t) ==
    IF Matches(t.userID, t.id)
    THEN [rows EXCEPT ![t.id] = [@ EXCEPT !.title = t.title,
                                          !.status = t.status,
                                          !.updatedAt = Truncate(t.updatedAt)]]
    ELSE rows

\* The local task after the assignments of Update or of Transition.
Edited(t, a) ==
    IF a.op = "update"
    THEN [t EXCEPT !.title = a.arg, !.updatedAt = a.now]
    ELSE [t EXCEPT !.status = a.arg, !.updatedAt = a.now]

Respond(u, err, t) == resp' = [user |-> u, err |-> err, task |-> t]

\* The request leaves the use case.
Finish(r) ==
    /\ pc' = [pc EXCEPT ![r] = "idle"]
    /\ args' = [args EXCEPT ![r] = None]
    /\ task' = [task EXCEPT ![r] = None]

\* A caller names an id that was generated before, stored or not: guessing an
\* id that uuid.New has yet to return is left out.
Known(i) == i \in issued

-----------------------------------------------------------------------------
Init ==
    /\ rows = [i \in TaskIds |-> None]
    /\ issued = {}
    /\ deleted = {}
    /\ clock = 0
    /\ pc = [r \in Requests |-> "idle"]
    /\ args = [r \in Requests |-> None]
    /\ task = [r \in Requests |-> None]
    /\ resp = None

\* UseCase.Create up to the call of repo.Store.
Create(r, u, i, title) ==
    /\ pc[r] = "idle"
    /\ i \notin issued
    /\ issued' = issued \cup {i}
    /\ pc' = [pc EXCEPT ![r] = "store"]
    /\ task' = [task EXCEPT ![r] = NewTask(i, u, title, clock)]
    /\ resp' = None
    /\ UNCHANGED <<rows, deleted, clock, args>>

\* repo.Store.  An error may hide an INSERT that took effect: the answer was
\* lost, or the request's context ended after the server had committed.
Store(r) ==
    /\ pc[r] = "store"
    /\ \/ /\ rows' = [rows EXCEPT ![task[r].id] = Saved(task[r])]
          /\ \/ Respond(task[r].userID, "ok", task[r])
             \/ Respond(task[r].userID, "internal", None)
       \/ /\ rows' = rows
          /\ Respond(task[r].userID, "internal", None)
    /\ Finish(r)
    /\ UNCHANGED <<issued, deleted, clock>>

\* UseCase.Get: one query, nothing is kept.
Get(r, u, i) ==
    /\ pc[r] = "idle"
    /\ Known(i)
    /\ \/ Respond(u, GetByID(u, i), IF GetByID(u, i) = "ok" THEN rows[i] ELSE None)
       \/ Respond(u, "internal", None)
    /\ UNCHANGED <<rows, issued, deleted, clock, pc, args, task>>

\* UseCase.Update and UseCase.Transition take the time before they read.
Begin(r, a) ==
    /\ pc[r] = "idle"
    /\ Known(a.id)
    /\ a.now = clock
    /\ pc' = [pc EXCEPT ![r] = "read"]
    /\ args' = [args EXCEPT ![r] = a]
    /\ resp' = None
    /\ UNCHANGED <<rows, issued, deleted, clock, task>>

\* The read of Update and of Transition, then task.Transition's check.
Read(r) ==
    /\ pc[r] = "read"
    /\ LET a   == args[r]
           err == GetByID(a.user, a.id)
           bad == a.op = "transition" /\ ~CanTransition(rows[a.id].status, a.arg)
       IN  \/ /\ err = "ok" /\ ~bad
              /\ pc' = [pc EXCEPT ![r] = "write"]
              /\ task' = [task EXCEPT ![r] = rows[a.id]]
              /\ resp' = None
              /\ UNCHANGED args
           \/ /\ err = "ok" /\ bad
              /\ Respond(a.user, "invalid_transition", None)
              /\ Finish(r)
           \/ /\ err # "ok"
              /\ Respond(a.user, err, None)
              /\ Finish(r)
           \/ /\ Respond(a.user, "internal", None)
              /\ Finish(r)
    /\ UNCHANGED <<rows, issued, deleted, clock>>

\* repo.Update with the edited copy, whatever the row has become meanwhile.
Write(r) ==
    /\ pc[r] = "write"
    /\ LET t == Edited(task[r], args[r])
       IN  \/ /\ rows' = UpdateRows(t)
              /\ \/ /\ Matches(t.userID, t.id)
                    /\ Respond(args[r].user, "ok", t)
                 \/ /\ ~Matches(t.userID, t.id)
                    /\ Respond(args[r].user, "not_found", None)
                 \/ Respond(args[r].user, "internal", None)
           \/ /\ rows' = rows
              /\ Respond(args[r].user, "internal", None)
    /\ Finish(r)
    /\ UNCHANGED <<issued, deleted, clock>>

\* UseCase.Delete: one statement.
Delete(r, u, i) ==
    /\ pc[r] = "idle"
    /\ Known(i)
    /\ \/ /\ Matches(u, i)
          /\ rows' = [rows EXCEPT ![i] = None]
          /\ deleted' = deleted \cup {i}
          /\ \/ Respond(u, "ok", None)
             \/ Respond(u, "internal", None)
       \/ /\ ~Matches(u, i)
          /\ Respond(u, "not_found", None)
          /\ UNCHANGED <<rows, deleted>>
       \/ /\ Respond(u, "internal", None)
          /\ UNCHANGED <<rows, deleted>>
    /\ UNCHANGED <<issued, clock, pc, args, task>>

Tick ==
    /\ clock < MaxClock
    /\ clock' = clock + 1
    /\ resp' = None
    /\ UNCHANGED <<rows, issued, deleted, pc, args, task>>

\* What Update and Transition can be called with at this moment.
Calls == [op : {"update"}, user : Users, id : TaskIds, arg : Titles, now : {clock}]
         \cup
         [op : {"transition"}, user : Users, id : TaskIds, arg : StatusInputs, now : {clock}]

Next ==
    \/ \E r \in Requests, u \in Users, i \in TaskIds :
          \/ \E title \in Titles : Create(r, u, i, title)
          \/ Get(r, u, i)
          \/ Delete(r, u, i)
    \/ \E r \in Requests : Store(r) \/ Read(r) \/ Write(r)
    \/ \E r \in Requests, a \in Calls : Begin(r, a)
    \/ Tick

Spec == Init /\ [][Next]_vars

-----------------------------------------------------------------------------
(* Properties.                                                             *)

\* The type invariant: the table, the requests and the responses are well
\* formed, and a request holds what its place in Update, Transition or Create
\* says it holds.
TypeOK ==
    /\ rows \in [TaskIds -> Task \cup {None}]
    /\ issued \subseteq TaskIds
    /\ deleted \subseteq TaskIds
    /\ clock \in Nat
    /\ pc \in [Requests -> {"idle", "store", "read", "write"}]
    /\ args \in [Requests -> Args \cup {None}]
    /\ task \in [Requests -> Task \cup {None}]
    /\ resp \in Response \cup {None}
    /\ \A i \in TaskIds : rows[i] # None => rows[i].id = i
    /\ \A r \in Requests : pc[r] \in {"store", "write"} => task[r] # None
    /\ \A r \in Requests : pc[r] \in {"read", "write"} => args[r] # None

\* Tasks are scoped to their owner: an existing row is changed or deleted
\* only by a step that serves its owner, although Update and Transition check
\* the owner in GetByID one round trip before they write.
OwnerOnly ==
    [][\A i \in TaskIds :
          rows[i] # None /\ rows'[i] # rows[i] =>
              resp' # None /\ resp'.user = rows[i].userID]_vars

\* A deleted task never comes back, whatever Update or Transition had read it
\* before the Delete and whatever Create is still about to store.
DeletedStayDeleted == \A i \in deleted : rows[i] = None

\* The task a successful Create, Get, Update or Transition returns is the row
\* as the table holds it after the call's last statement, but for the part of
\* the times that the columns cut off.  Update and Transition return their own
\* copy and write only some columns of it.
ResponseIsStored ==
    resp # None /\ resp.task # None => rows[resp.task.id] = Saved(resp.task)

\* No task is updated before it was created, although Update and Transition
\* take the time before they read the row.
StampsOrdered ==
    \A i \in TaskIds : rows[i] # None => rows[i].createdAt <= rows[i].updatedAt

\* The documented status machine.
DocumentedMoves ==
    {<<"todo", "in_progress">>, <<"in_progress", "done">>, <<"in_progress", "todo">>}

\* A task's status changes only along the documented moves.
StatusFollowsMachine ==
    [][\A i \in TaskIds :
          rows[i] # None /\ rows'[i] # None /\ rows'[i].status # rows[i].status =>
              <<rows[i].status, rows'[i].status>> \in DocumentedMoves]_vars

\* The only way a status leaves the machine is a write of an Update or a
\* Transition that read the row before another request changed its status:
\* every other step, concurrent or not, keeps the machine.
OnlyStaleWritesBreakMachine ==
    [][\A i \in TaskIds :
          rows[i] # None /\ rows'[i] # None /\ rows'[i].status # rows[i].status =>
              \/ <<rows[i].status, rows'[i].status>> \in DocumentedMoves
              \/ \E r \in Requests :
                    /\ pc[r] = "write" /\ pc'[r] = "idle"
                    /\ task[r].id = i
                    /\ task[r].status # rows[i].status]_vars

-----------------------------------------------------------------------------
(* Requests that do not overlap between the read and the write of a row:   *)
(* under that assumption the service implements TaskBoard.                 *)

NoOverlap ==
    \A r, q \in Requests :
        pc[r] = "write" /\ pc[q] = "write" /\ args[r].id = args[q].id => r = q

SerialSpec == Init /\ [][Next /\ NoOverlap']_vars

Card(row) ==
    IF row = None THEN None
    ELSE [owner |-> row.userID, title |-> row.title, status |-> row.status]

ASSUME CardAssumption == None \notin [owner : Users, title : Titles, status : TaskStatus]

Board == INSTANCE TaskBoard WITH
    Ids <- TaskIds,
    board <- [i \in TaskIds |-> Card(rows[i])],
    gone <- deleted,
    by <- IF resp = None THEN None ELSE resp.user

\* While no two requests are between the read and the write of the same task,
\* the read-modify-write of Update and Transition is one step of the promised
\* board: owner-checked, along the documented moves, with no lost change.
ImplementsBoard == Board!Spec

==============================================================================

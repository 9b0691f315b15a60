-------------------------- MODULE TaskServiceProofs --------------------------
(***************************************************************************)
(* The invariants of TaskService, what a single step may do to an existing *)
(* row, and that requests which do not overlap implement the promised      *)
(* board, for any users, ids, titles and requests.                         *)
(***************************************************************************)
EXTENDS TaskInvariant

\* The invariant is inductive.
LEMMA NextInv == ASSUME IndInv, [Next]_vars PROVE IndInv'
BY CreateInv, StoreInv, GetInv, BeginInv, ReadInv, WriteInv, DeleteInv, TickInv,
   StutterInv DEF Next

\* The inductive invariant holds in every behaviour.
THEOREM Invariance == Spec => []IndInv
BY InitInv, NextInv, PTL DEF Spec

\* The table, the requests in flight and the responses stay well formed: in
\* particular no Transition stores a status outside the three.
THEOREM TypeCorrect == Spec => []TypeOK
BY Invariance, PTL DEF IndInv

\* No interleaving of Create, Update, Transition and Delete brings a deleted
\* task back.
THEOREM NoResurrection == Spec => []DeletedStayDeleted
BY Invariance, PTL DEF IndInv, IdsInv

\* The task in a successful response is the stored row, column by column.
THEOREM ResponsesStored == Spec => []ResponseIsStored
BY Invariance, PTL DEF IndInv

\* No task carries an updated_at before its created_at.
THEOREM StampsInOrder == Spec => []StampsOrdered
BY Invariance, PTL DEF IndInv, StampsInv

-----------------------------------------------------------------------------
(* What a single step may do to an existing row.                           *)

\* Who changes an existing row, and how.
RowStep(i) ==
    \/ /\ rows'[i] = None
       /\ resp' # None /\ resp'.user = rows[i].userID
    \/ \E r \in Requests :
          /\ pc[r] = "write" /\ pc'[r] = "idle"
          /\ task[r].id = i /\ args[r].id = i
          /\ rows'[i] = Saved(Edited(task[r], args[r]))
          /\ resp' # None /\ resp'.user = rows[i].userID

\* A row changes only by its owner's Delete or by the Write of a copy of it.
LEMMA ChangeIsRowStep ==
    ASSUME IndInv, [Next]_vars, NEW i \in TaskIds, rows[i] # None, rows'[i] # rows[i]
    PROVE  RowStep(i)
<1>1. ~UNCHANGED rows
  OBVIOUS
<1>2. ASSUME NEW r \in Requests, Store(r) PROVE FALSE
  <2>1. task[r].id \in TaskIds /\ rows[task[r].id] = None
    BY <1>2 DEF Store, IndInv, TypeOK, IdsInv, Task
  <2> QED BY <1>1, <1>2, <2>1 DEF Store, IndInv, TypeOK
<1>3. ASSUME NEW r \in Requests, NEW u \in Users, NEW j \in TaskIds, Delete(r, u, j)
      PROVE  RowStep(i)
  <2>1. rows' = [rows EXCEPT ![j] = None] /\ rows[j].userID = u
    BY <1>1, <1>3 DEF Delete, Matches
  <2>2. resp' \in Response /\ resp'.user = u
    BY <1>3 DEF Delete, Respond, Response, Errors
  <2> QED BY <2>1, <2>2, NoneAssumption DEF RowStep, IndInv, TypeOK
<1>4. ASSUME NEW r \in Requests, Write(r) PROVE RowStep(i)
  <2> DEFINE t == Edited(task[r], args[r])
  <2>1. pc[r] = "write" /\ pc'[r] = "idle"
    BY <1>4 DEF Write, Finish, IndInv, TypeOK
  <2>2. /\ t.id = task[r].id /\ t.id = args[r].id /\ t.id \in TaskIds
        /\ t.userID = args[r].user /\ args[r].user \in Users
        /\ t \in Task
    BY <2>1, UpdateStoresTask, ZenonT(30) DEF Task
  <2>3. Matches(t.userID, t.id) /\ rows' = [rows EXCEPT ![t.id] = Saved(t)]
    BY <1>1, <1>4, <2>1, UpdateStoresTask, ZenonT(30) DEF Write
  <2>4. resp' \in Response /\ resp'.user = t.userID
    <3>1. PICK err \in Errors, tk \in Task \cup {None} : Respond(args[r].user, err, tk)
      BY <1>4, <2>2 DEF Write, Errors
    <3> QED BY <2>2, <3>1, Responded
  <2>5. t.id = i /\ rows[i].userID = t.userID /\ rows'[i] = Saved(t)
    BY <2>2, <2>3 DEF Matches, IndInv, TypeOK
  <2> QED BY <2>1, <2>2, <2>4, <2>5, NoneAssumption, ZenonT(30) DEF RowStep
<1>5. ASSUME NEW r \in Requests, Read(r) PROVE FALSE
  BY <1>1, <1>5 DEF Read
<1>6. ASSUME NEW r \in Requests, NEW a \in Calls, Begin(r, a) PROVE FALSE
  BY <1>1, <1>6 DEF Begin
<1>7. ASSUME NEW r \in Requests, NEW u \in Users, NEW j \in TaskIds,
             Get(r, u, j) \/ \E title \in Titles : Create(r, u, j, title)
      PROVE  FALSE
  BY <1>1, <1>7 DEF Get, Create
<1>8. ~Tick /\ ~UNCHANGED vars
  BY <1>1 DEF Tick, vars
<1> QED BY <1>2, <1>3, <1>4, <1>5, <1>6, <1>7, <1>8 DEF Next

\* Every change of an existing row serves its owner, although the owner is
\* checked one round trip before the write.
THEOREM ChangesServeOwner == Spec => OwnerOnly
<1>1. ASSUME IndInv, [Next]_vars
      PROVE  \A i \in TaskIds : rows[i] # None /\ rows'[i] # rows[i] =>
                 resp' # None /\ resp'.user = rows[i].userID
  BY <1>1, ChangeIsRowStep DEF RowStep
<1> QED BY <1>1, Invariance, PTL DEF Spec, OwnerOnly

\* A status leaves the documented machine only through a write whose read is
\* older than the row's current status.
THEOREM OnlyStaleWrites == Spec => OnlyStaleWritesBreakMachine
<1> DEFINE Good(i) ==
        rows[i] # None /\ rows'[i] # None /\ rows'[i].status # rows[i].status =>
              \/ <<rows[i].status, rows'[i].status>> \in DocumentedMoves
              \/ \E r \in Requests :
                    /\ pc[r] = "write" /\ pc'[r] = "idle"
                    /\ task[r].id = i
                    /\ task[r].status # rows[i].status
<1>1. ASSUME IndInv, [Next]_vars, NEW i \in TaskIds PROVE Good(i)
  <2> SUFFICES ASSUME rows[i] # None, rows'[i] # None, rows'[i].status # rows[i].status
               PROVE  Good(i)
    OBVIOUS
  <2>1. PICK r \in Requests : /\ pc[r] = "write" /\ pc'[r] = "idle"
                              /\ task[r].id = i
                              /\ rows'[i] = Saved(Edited(task[r], args[r]))
    BY <1>1, ChangeIsRowStep DEF RowStep
  <2>2. task[r] \in Task /\ args[r] \in Args
    BY <1>1, <2>1 DEF IndInv, TypeOK
  <2>5. rows'[i].status = Edited(task[r], args[r]).status
    BY <1>1, <2>1, UpdateStoresTask, SavedTask, ZenonT(30)
  <2>3. CASE args[r].op = "update"
    <3>1. rows'[i].status = task[r].status
      BY <2>2, <2>3, <2>5 DEF Edited, Task
    <3> QED BY <2>1, <3>1
  <2>4. CASE args[r].op = "transition"
    <3>1. rows'[i].status = args[r].arg
      BY <2>2, <2>4, <2>5 DEF Edited, Task
    <3>2. <<task[r].status, args[r].arg>> \in DocumentedMoves
      BY <1>1, <2>1, <2>4 DEF IndInv, LoadedInv, CanTransition, DocumentedMoves
    <3> QED BY <2>1, <3>1, <3>2
  <2> QED BY <2>2, <2>3, <2>4 DEF Args
<1>2. ASSUME IndInv, [Next]_vars PROVE \A i \in TaskIds : Good(i)
  BY <1>1, <1>2
<1> QED BY <1>2, Invariance, PTL DEF Spec, OnlyStaleWritesBreakMachine

-----------------------------------------------------------------------------
(* While no two requests are between the read and the write of one task, a *)
(* request writes over the row that it read.                               *)

\* What a request is about to overwrite is what it read, or was deleted.
FreshInv ==
    \A r \in Requests : pc[r] = "write" => rows[task[r].id] \in {None, task[r]}

SerialInv == IndInv /\ NoOverlap /\ FreshInv

\* The empty table satisfies the serial invariant.
LEMMA SerialInitInv == Init => SerialInv
BY InitInv DEF Init, SerialInv, NoOverlap, FreshInv

\* Without overlap a loaded copy stays the row, unless the row is deleted.
LEMMA SerialNextInv ==
    ASSUME SerialInv, [Next /\ NoOverlap']_vars
    PROVE  SerialInv'
<1>1. IndInv /\ [Next]_vars /\ IndInv'
  BY NextInv DEF SerialInv
<1>2. NoOverlap'
  BY DEF SerialInv, NoOverlap, vars
<1>3. FreshInv'
  <2> SUFFICES ASSUME NEW q \in Requests, pc'[q] = "write"
               PROVE  rows'[task'[q].id] \in {None, task'[q]}
    BY DEF FreshInv
  <2>1. CASE UNCHANGED vars
    BY <2>1 DEF vars, SerialInv, FreshInv
  <2>2. ASSUME NEW r \in Requests, Store(r) PROVE rows'[task'[q].id] \in {None, task'[q]}
    <3>1. pc[q] = "write" /\ q # r /\ task'[q] = task[q]
      BY <1>1, <2>2 DEF Store, Finish, IndInv, TypeOK
    <3>2. task[r].id # task[q].id /\ task[q].id \in TaskIds
      <4>1. task[r].id # task[q].id
        BY <1>1, <2>2, <3>1 DEF Store, IndInv, LoadedInv
      <4> QED BY <1>1, <3>1, <4>1, LoadedTask
    <3>3. rows' = rows \/ rows' = [rows EXCEPT ![task[r].id] = Saved(task[r])]
      BY <2>2 DEF Store
    <3>4. DOMAIN rows = TaskIds
      BY <1>1 DEF IndInv, TypeOK
    <3>5. rows'[task[q].id] = rows[task[q].id]
      BY <3>2, <3>3, <3>4
    <3> QED BY <3>1, <3>5 DEF SerialInv, FreshInv
  <2>3. ASSUME NEW r \in Requests, Read(r) PROVE rows'[task'[q].id] \in {None, task'[q]}
    <3>1. CASE q = r
      <4>1. task'[q] = rows[args[r].id] /\ args[r].id \in TaskIds /\ rows' = rows
        <5>1. args[r].id \in TaskIds
          BY <1>1, <2>3, ArgsNameIds DEF Read, IndInv
        <5> QED BY <1>1, <2>3, <3>1, <5>1 DEF Read, Finish, IndInv, TypeOK
      <4>2. rows[args[r].id] # None
        BY <1>1, <2>3, <3>1, <4>1 DEF IndInv, TypeOK
      <4> QED BY <1>1, <4>1, <4>2 DEF IndInv, TypeOK
    <3>2. CASE q # r
      <4>1. rows' = rows /\ pc[q] = "write" /\ task'[q] = task[q]
        BY <1>1, <2>3, <3>2 DEF Read, Finish, IndInv, TypeOK
      <4> QED BY <4>1 DEF SerialInv, FreshInv
    <3> QED BY <3>1, <3>2
  <2>4. ASSUME NEW r \in Requests, Write(r) PROVE rows'[task'[q].id] \in {None, task'[q]}
    <3>1. pc[q] = "write" /\ pc[r] = "write" /\ q # r /\ task'[q] = task[q]
      BY <1>1, <2>4 DEF Write, Finish, IndInv, TypeOK
    <3>2. task[r].id # task[q].id /\ task[q].id \in TaskIds
      BY <1>1, <3>1, LoadedTask DEF SerialInv, NoOverlap
    <3>3. rows'[task[q].id] = rows[task[q].id]
      <4>1. \/ rows' = rows
            \/ rows' = [rows EXCEPT ![task[r].id] = Saved(Edited(task[r], args[r]))]
        BY <1>1, <2>4, WriteRows
      <4>2. DOMAIN rows = TaskIds
        BY <1>1 DEF IndInv, TypeOK
      <4> QED BY <3>2, <4>1, <4>2
    <3> QED BY <3>1, <3>3 DEF SerialInv, FreshInv
  <2>5. ASSUME NEW r \in Requests, NEW u \in Users, NEW j \in TaskIds, Delete(r, u, j)
        PROVE  rows'[task'[q].id] \in {None, task'[q]}
    <3>1. pc[q] = "write" /\ task'[q] = task[q]
      BY <2>5 DEF Delete
    <3>2. rows'[task[q].id] \in {None, rows[task[q].id]}
      <4>1. rows' = rows \/ rows' = [rows EXCEPT ![j] = None]
        BY <2>5 DEF Delete
      <4>2. DOMAIN rows = TaskIds /\ task[q].id \in TaskIds
        BY <1>1, <3>1, LoadedTask DEF IndInv, TypeOK
      <4> QED BY <4>1, <4>2
    <3> QED BY <3>1, <3>2 DEF SerialInv, FreshInv
  <2>6. ASSUME NEW r \in Requests, NEW u \in Users, NEW j \in TaskIds,
               Get(r, u, j) \/ \E title \in Titles : Create(r, u, j, title)
        PROVE  rows'[task'[q].id] \in {None, task'[q]}
    <3>1. rows' = rows /\ pc[q] = "write" /\ task'[q] = task[q]
      BY <1>1, <2>6 DEF Get, Create, IndInv, TypeOK
    <3> QED BY <3>1 DEF SerialInv, FreshInv
  <2>7. ASSUME NEW r \in Requests, NEW a \in Calls, Begin(r, a)
        PROVE  rows'[task'[q].id] \in {None, task'[q]}
    BY <1>1, <2>7 DEF Begin, SerialInv, FreshInv, IndInv, TypeOK
  <2>8. CASE Tick
    BY <2>8 DEF Tick, SerialInv, FreshInv
  <2> QED BY <1>1, <2>1, <2>2, <2>3, <2>4, <2>5, <2>6, <2>7, <2>8 DEF Next
<1> QED BY <1>1, <1>2, <1>3 DEF SerialInv

-----------------------------------------------------------------------------
(* Requests that do not overlap implement the promised board. *)

\* The board as the table shows it, and the user a step answers.
Cards == [i \in TaskIds |-> Card(rows[i])]
Answered == IF resp = None THEN None ELSE resp.user

\* A row shows as a card with its owner, title and status.
LEMMA CardOfTask ==
    ASSUME NEW t \in Task
    PROVE  /\ Card(t) = [owner |-> t.userID, title |-> t.title, status |-> t.status]
           /\ Card(t) # None
<1>1. Card(t) = [owner |-> t.userID, title |-> t.title, status |-> t.status]
  BY NoneAssumption DEF Card
<1>2. t.userID \in Users /\ t.title \in Titles /\ t.status \in TaskStatus
  BY DEF Task
<1> QED BY <1>1, <1>2, CardAssumption

\* What changing one field does to a card.
LEMMA EditedCard ==
    ASSUME NEW o, NEW title, NEW status, NEW x
    PROVE  LET c == [owner |-> o, title |-> title, status |-> status]
           IN  /\ [c EXCEPT !.title = x] = [owner |-> o, title |-> x, status |-> status]
               /\ [c EXCEPT !.status = x] = [owner |-> o, title |-> title, status |-> x]
OBVIOUS

\* A step that leaves the table alone is a look at the board.
LEMMA QuietIsLook ==
    ASSUME IndInv', rows' = rows, deleted' = deleted
    PROVE  Board!Next
<1>1. Answered' \in Users \cup {None}
  BY DEF Answered, IndInv, TypeOK, Response
<1>2. Cards' = Cards
  BY DEF Cards
<1> QED BY <1>1, <1>2 DEF Board!Next, Board!Look, Cards, Answered

\* A Store that changes the table adds a card to the board.
LEMMA StoreIsAdd ==
    ASSUME IndInv, IndInv', NEW r \in Requests, Store(r), rows' # rows
    PROVE  Board!Next
<1> DEFINE t == task[r]
<1>1. /\ t \in Task /\ t.id \in TaskIds /\ t.userID \in Users /\ t.title \in Titles
      /\ rows[t.id] = None /\ t.id \notin deleted
  <2>1. t \in Task
    BY DEF Store, IndInv, TypeOK
  <2>2. rows[t.id] = None /\ t.id \notin deleted
    BY DEF Store, IndInv, IdsInv
  <2>3. t.id \in TaskIds /\ t.userID \in Users /\ t.title \in Titles
    BY <2>1 DEF Task
  <2> QED BY <2>1, <2>2, <2>3
<1>2. rows' = [rows EXCEPT ![t.id] = Saved(t)] /\ deleted' = deleted
  BY DEF Store
<1>3. Answered' = t.userID
  BY <1>1, NoneAssumption DEF Store, Respond, Answered, Response, Errors
<1>4. t.status = "todo"
  BY DEF Store, IndInv, IdsInv
<1>5. Cards' = [Cards EXCEPT ![t.id] = [owner |-> t.userID, title |-> t.title, status |-> "todo"]]
  <2>1. Card(Saved(t)) = [owner |-> t.userID, title |-> t.title, status |-> "todo"]
    BY <1>1, <1>4, CardOfTask, SavedTask
  <2> QED BY <1>1, <1>2, <2>1, ZenonT(30) DEF Cards, IndInv, TypeOK
<1>6. Cards[t.id] = None
  BY <1>1 DEF Cards, Card
<1>7. Board!Add(t.userID, t.id, t.title)
  BY <1>1, <1>2, <1>3, <1>5, <1>6 DEF Board!Add, Cards, Answered
<1> QED BY <1>1, <1>7 DEF Board!Next

\* A Delete that changes the table removes the owner's card.
LEMMA DeleteIsRemove ==
    ASSUME IndInv, IndInv', NEW r \in Requests, NEW u \in Users, NEW i \in TaskIds,
           Delete(r, u, i), rows' # rows
    PROVE  Board!Next
<1>1. /\ rows[i] # None /\ rows[i].userID = u
      /\ rows' = [rows EXCEPT ![i] = None] /\ deleted' = deleted \cup {i}
  BY DEF Delete, Matches
<1>2. Answered' = u
  BY NoneAssumption DEF Delete, Respond, Answered, Response, Errors
<1>3. Cards' = [Cards EXCEPT ![i] = None]
  BY <1>1, ZenonT(30) DEF Cards, Card, IndInv, TypeOK
<1>4. Cards[i] # None /\ Cards[i].owner = u
  BY <1>1, CardOfTask DEF Cards, IndInv, TypeOK
<1>5. Board!Remove(u, i)
  BY <1>1, <1>2, <1>3, <1>4 DEF Board!Remove, Cards, Answered
<1> QED BY <1>5 DEF Board!Next

\* A Write that changes the table, without overlap, edits or moves a card.
LEMMA WriteIsEditOrMove ==
    ASSUME SerialInv, IndInv', NEW r \in Requests, Write(r), rows' # rows
    PROVE  Board!Next
<1> DEFINE old == task[r]
           t   == Edited(task[r], args[r])
           i   == t.id
<1>1. /\ pc[r] = "write" /\ old \in Task /\ args[r] \in Args /\ deleted' = deleted
  BY DEF Write, SerialInv, IndInv, TypeOK
<1>2. /\ t \in Task /\ i \in TaskIds /\ t.userID \in Users
      /\ i = old.id /\ t.userID = old.userID /\ t.userID = args[r].user
  BY <1>1, UpdateStoresTask, ZenonT(30) DEF SerialInv, Task
<1>3. rows[i] # None /\ rows' = [rows EXCEPT ![i] = Saved(t)]
  BY <1>2, WriteRows DEF SerialInv
<1>4. rows[i] = old
  BY <1>1, <1>2, <1>3 DEF SerialInv, FreshInv
<1>5. Answered' = t.userID
  BY <1>2, NoneAssumption DEF Write, Respond, Answered, Response, Errors
<1>6. /\ Cards[i] = [owner |-> old.userID, title |-> old.title, status |-> old.status]
      /\ Cards[i] # None
      /\ Cards[i].owner = t.userID
      /\ Cards[i].status = old.status
  <2>1. Cards[i] = Card(old)
    BY <1>2, <1>4 DEF Cards
  <2>2. /\ Card(old) = [owner |-> old.userID, title |-> old.title, status |-> old.status]
        /\ Card(old) # None
    BY <1>1, CardOfTask
  <2>3. Card(old).owner = old.userID /\ Card(old).status = old.status
    BY <2>2
  <2> QED BY <1>2, <2>1, <2>2, <2>3
<1>7. Cards' = [Cards EXCEPT ![i] = [owner |-> t.userID, title |-> t.title, status |-> t.status]]
  <2>1. Card(Saved(t)) = [owner |-> t.userID, title |-> t.title, status |-> t.status]
    <3>1. /\ Saved(t) \in Task /\ Saved(t).userID = t.userID
          /\ Saved(t).title = t.title /\ Saved(t).status = t.status
      BY <1>2, SavedTask
    <3> QED BY <3>1, CardOfTask
  <2> QED BY <1>2, <1>3, <2>1, ZenonT(30) DEF Cards, SerialInv, IndInv, TypeOK
<1>8. CASE args[r].op = "update"
  <2>1. t.title \in Titles /\ t.status = old.status
    BY <1>1, <1>2, <1>8, ZenonT(30) DEF Edited, Task
  <2>2. [Cards[i] EXCEPT !.title = t.title]
            = [owner |-> t.userID, title |-> t.title, status |-> t.status]
    BY <1>2, <1>6, <2>1, EditedCard
  <2>3. Board!Edit(t.userID, i, t.title)
    BY <1>1, <1>2, <1>5, <1>6, <1>7, <2>2, ZenonT(30) DEF Board!Edit, Cards, Answered
  <2> QED BY <1>2, <2>1, <2>3 DEF Board!Next
<1>9. CASE args[r].op = "transition"
  <2>1. t.title = old.title /\ t.status = args[r].arg /\ t.status \in TaskStatus
    BY <1>1, <1>2, <1>9, ZenonT(30) DEF Edited, Task
  <2>2. <<old.status, t.status>> \in Board!Machine
    <3>1. CanTransition(old.status, args[r].arg)
      BY <1>1, <1>9, Zenon DEF SerialInv, IndInv, LoadedInv
    <3> QED BY <2>1, <3>1 DEF CanTransition, Board!Machine
  <2>3. [Cards[i] EXCEPT !.status = t.status]
            = [owner |-> t.userID, title |-> t.title, status |-> t.status]
    BY <1>2, <1>6, <2>1, EditedCard
  <2>4. Board!Move(t.userID, i, t.status)
    BY <1>1, <1>2, <1>5, <1>6, <1>7, <2>2, <2>3, ZenonT(30) DEF Board!Move, Cards, Answered
  <2> QED BY <1>2, <2>1, <2>4, Zenon DEF Board!Next, TaskStatus
<1> QED BY <1>1, <1>8, <1>9 DEF Args

\* Without overlap, every step of the service is a step of the board.
THEOREM SerialRefinement == SerialSpec => ImplementsBoard
<1>1. Init => Board!Init
  BY DEF Init, Board!Init, Card
<1>2. ASSUME SerialInv, SerialInv', [Next /\ NoOverlap']_vars
      PROVE  [Board!Next]_(Board!vars)
  <2>1. IndInv /\ IndInv'
    BY <1>2 DEF SerialInv
  <2>2. CASE UNCHANGED vars
    BY <2>2 DEF vars, Board!vars
  <2>3. ASSUME Next PROVE Board!Next
    <3>1. CASE rows' = rows /\ deleted' = deleted
      BY <2>1, <3>1, QuietIsLook
    <3>2. CASE ~(rows' = rows /\ deleted' = deleted)
      <4>1. ASSUME NEW r \in Requests, NEW u \in Users, NEW i \in TaskIds, Delete(r, u, i)
            PROVE  Board!Next
        <5>1. rows' # rows
          BY <2>1, <3>2, <4>1 DEF Delete, Matches, IndInv, TypeOK
        <5> QED BY <2>1, <4>1, <5>1, DeleteIsRemove
      <4>2. ASSUME NEW r \in Requests, Store(r) PROVE Board!Next
        BY <2>1, <3>2, <4>2, StoreIsAdd DEF Store
      <4>3. ASSUME NEW r \in Requests, Write(r) PROVE Board!Next
        BY <1>2, <2>1, <3>2, <4>3, WriteIsEditOrMove DEF Write
      <4> QED BY <2>3, <3>2, <4>1, <4>2, <4>3, Zenon DEF Next, Create, Get, Begin, Read, Tick
    <3> QED BY <3>1, <3>2
  <2> QED BY <1>2, <2>2, <2>3
<1> QED BY <1>1, <1>2, SerialInitInv, SerialNextInv, PTL DEF SerialSpec, ImplementsBoard, Board!Spec
=============================================================================

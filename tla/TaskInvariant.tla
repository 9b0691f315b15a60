--------------------------- MODULE TaskInvariant -----------------------------
(***************************************************************************)
(* The inductive invariant of TaskService for any users, ids, titles and   *)
(* requests: what the timestamp columns keep of a time, and that every     *)
(* step keeps the invariant.                                               *)
(***************************************************************************)
EXTENDS TaskService, TLAPS

-----------------------------------------------------------------------------
(* What a timestamp column keeps of a time.                                *)

\* Division by the precision of the column.
LEMMA DivMod ==
    ASSUME NEW n \in Nat
    PROVE  /\ n % Precision \in Nat
           /\ n % Precision < Precision
           /\ n \div Precision \in Nat
           /\ n = Precision * (n \div Precision) + (n % Precision)
BY PrecisionAssumption, SMTT(30)

\* Between a multiple and the next lies the precision.
LEMMA NextMultiple ==
    ASSUME NEW a \in Nat, NEW b \in Nat, a < b, NEW p \in Nat
    PROVE  p * a + p <= p * b
<1>1. PICK d \in Nat : b = a + 1 + d
  <2> WITNESS b - a - 1 \in Nat
  <2> QED OBVIOUS
<1>2. p * b = p * a + p + p * d /\ p * d \in Nat
  BY <1>1, SMTT(30)
<1> QED BY <1>2, SMTT(30)

\* Storing a time never moves it forward.
LEMMA TruncateBounds ==
    ASSUME NEW n \in Nat
    PROVE  Truncate(n) \in Nat /\ Truncate(n) <= n
BY DivMod, PrecisionAssumption DEF Truncate

\* Storing keeps the order of times.
LEMMA TruncateMonotone ==
    ASSUME NEW m \in Nat, NEW n \in Nat, m <= n
    PROVE  Truncate(m) <= Truncate(n)
<1> DEFINE a == m \div Precision
           b == n \div Precision
<1>1. /\ Truncate(m) = Precision * a /\ a \in Nat
      /\ Truncate(n) = Precision * b /\ b \in Nat
  BY DivMod, PrecisionAssumption DEF Truncate
<1>2. CASE b < a
  BY <1>1, <1>2, DivMod, NextMultiple, PrecisionAssumption, SMTT(30)
<1>3. CASE a <= b
  BY <1>1, <1>3, NextMultiple, PrecisionAssumption, SMTT(30)
<1> QED BY <1>1, <1>2, <1>3

\* A time that was stored is stored unchanged.
LEMMA TruncateIdempotent ==
    ASSUME NEW n \in Nat
    PROVE  Truncate(Truncate(n)) = Truncate(n)
<1> DEFINE a == n \div Precision
<1>1. Truncate(n) = Precision * a /\ a \in Nat
  BY DivMod, PrecisionAssumption DEF Truncate
<1>2. (Precision * a) % Precision = 0
  BY <1>1, PrecisionAssumption, SMTT(30)
<1> QED BY <1>1, <1>2, TruncateBounds DEF Truncate

\* Storing a task changes nothing but its times.
LEMMA SavedTask ==
    ASSUME NEW t \in Task
    PROVE  /\ Saved(t) \in Task /\ Saved(t) # None
           /\ Saved(t).id = t.id /\ Saved(t).userID = t.userID
           /\ Saved(t).title = t.title /\ Saved(t).status = t.status
           /\ Saved(t).createdAt = Truncate(t.createdAt)
           /\ Saved(t).updatedAt = Truncate(t.updatedAt)
           /\ t.createdAt \in Nat /\ t.updatedAt \in Nat
           /\ Truncate(t.createdAt) \in Nat /\ Truncate(t.updatedAt) \in Nat
<1>1. t.createdAt \in Nat /\ t.updatedAt \in Nat
  BY DEF Task
<1>2. Truncate(t.createdAt) \in Nat /\ Truncate(t.updatedAt) \in Nat
  BY <1>1, TruncateBounds
<1>3. Saved(t) \in Task /\ Saved(t) # None
  BY <1>2, NoneAssumption, ZenonT(30) DEF Saved, Task
<1> QED BY <1>1, <1>2, <1>3 DEF Saved, Task

-----------------------------------------------------------------------------
(* The inductive invariant.                                                *)

\* An id is stored, deleted, pending in one Create, or lost in a failed one,
\* and in only one of these ways.
IdsInv ==
    /\ \A i \in TaskIds : rows[i] # None => i \in issued
    /\ deleted \subseteq issued
    /\ DeletedStayDeleted
    /\ \A r \in Requests : pc[r] = "store" =>
          /\ task[r].id \in issued \ deleted
          /\ rows[task[r].id] = None
          /\ task[r].status = "todo"
          /\ \A q \in Requests : pc[q] = "store" /\ task[q].id = task[r].id => q = r

\* What an Update or a Transition knows of the row it is about to write: the
\* caller owns it, it has no pending Create, and the columns that repo.Update
\* leaves alone are still those that were read.
LoadedInv ==
    \A r \in Requests : pc[r] = "write" =>
        LET t == task[r]
            a == args[r]
        IN  /\ t.id = a.id
            /\ t.userID = a.user
            /\ t.id \in issued
            /\ rows[t.id] # None =>
                  rows[t.id].userID = t.userID /\ rows[t.id].createdAt = t.createdAt
            /\ \A q \in Requests : pc[q] = "store" => task[q].id # t.id
            /\ a.op = "transition" => CanTransition(t.status, a.arg)

\* The times that a task and the requests on it carry are ordered, and the
\* table holds no more of a time than its columns keep.
StampsInv ==
    /\ StampsOrdered
    /\ \A i \in TaskIds : rows[i] # None =>
          /\ Truncate(rows[i].createdAt) = rows[i].createdAt
          /\ Truncate(rows[i].updatedAt) = rows[i].updatedAt
    /\ \A i \in TaskIds : rows[i] # None => rows[i].createdAt <= clock
    /\ \A r \in Requests : pc[r] = "store" =>
          task[r].createdAt <= clock /\ task[r].createdAt <= task[r].updatedAt
    /\ \A r \in Requests : pc[r] \in {"read", "write"} =>
          /\ args[r].id \in issued
          /\ rows[args[r].id] # None => rows[args[r].id].createdAt <= args[r].now
          /\ \A q \in Requests : pc[q] = "store" /\ task[q].id = args[r].id =>
                task[q].createdAt <= args[r].now

IndInv == TypeOK /\ IdsInv /\ LoadedInv /\ StampsInv /\ ResponseIsStored

\* A request that leaves the use case takes nothing of another request along.
LEMMA FinishedAlone ==
    ASSUME TypeOK, NEW r \in Requests, Finish(r)
    PROVE  \A q \in Requests : pc'[q] # "idle" =>
               q # r /\ pc'[q] = pc[q] /\ args'[q] = args[q] /\ task'[q] = task[q]
<1>1. pc \in [Requests -> {"idle", "store", "read", "write"}]
      /\ args \in [Requests -> Args \cup {None}]
      /\ task \in [Requests -> Task \cup {None}]
  BY DEF TypeOK
<1> QED BY <1>1 DEF Finish

\* What every response looks like.
LEMMA Responded ==
    ASSUME NEW u \in Users, NEW err \in Errors, NEW tk \in Task \cup {None},
           Respond(u, err, tk)
    PROVE  /\ resp' \in Response /\ resp' # None
           /\ resp'.user = u /\ resp'.task = tk
<1>1. resp' = [user |-> u, err |-> err, task |-> tk]
  BY DEF Respond
<1>2. resp' \in Response
  BY <1>1 DEF Response
<1> QED BY <1>1, <1>2, NoneAssumption

\* An Update or a Transition that is about to write holds the task it names.
LEMMA LoadedTask ==
    ASSUME IndInv, NEW r \in Requests, pc[r] = "write"
    PROVE  /\ task[r] \in Task /\ args[r] \in Args
           /\ task[r].id \in TaskIds /\ task[r].id = args[r].id
           /\ task[r].userID = args[r].user /\ args[r].user \in Users
<1>1. task[r] \in Task /\ args[r] \in Args
  BY DEF IndInv, TypeOK
<1>2. task[r].id = args[r].id /\ task[r].userID = args[r].user
  BY DEF IndInv, LoadedInv
<1>3. task[r].id \in TaskIds /\ task[r].userID \in Users
  BY <1>1 DEF Task
<1> QED BY <1>1, <1>2, <1>3

\* A step that starts no write and leaves the owner and the creation time of
\* the rows under way alone keeps what the pending writes know.
LEMMA LoadedKept ==
    ASSUME LoadedInv, issued' = issued,
           \A q \in Requests : pc'[q] = "write" =>
               pc[q] = "write" /\ task'[q] = task[q] /\ args'[q] = args[q],
           \A q \in Requests : pc'[q] = "store" => pc[q] = "store" /\ task'[q] = task[q],
           \A q \in Requests : pc[q] = "write" /\ rows'[task[q].id] # None =>
               /\ rows[task[q].id] # None
               /\ rows'[task[q].id].userID = rows[task[q].id].userID
               /\ rows'[task[q].id].createdAt = rows[task[q].id].createdAt
    PROVE  LoadedInv'
<1> SUFFICES ASSUME NEW q \in Requests, pc'[q] = "write"
             PROVE  LoadedInv!(q)!2'
  BY DEF LoadedInv
<1>1. pc[q] = "write" /\ task'[q] = task[q] /\ args'[q] = args[q]
  OBVIOUS
<1>2. LoadedInv!(q)!2
  BY <1>1 DEF LoadedInv
<1> QED BY <1>1, <1>2

\* A step that changes no row but by deleting it keeps the times in order.
LEMMA StampsKept ==
    ASSUME StampsInv, issued' = issued, clock' = clock,
           \A i \in TaskIds : rows'[i] # None => rows'[i] = rows[i],
           \A q \in Requests : pc'[q] = "store" => pc[q] = "store" /\ task'[q] = task[q],
           \A q \in Requests : pc'[q] \in {"read", "write"} =>
               pc[q] \in {"read", "write"} /\ args'[q] = args[q] /\ args[q].id \in TaskIds
    PROVE  StampsInv'
BY DEF StampsInv, StampsOrdered

\* A request that reads or writes names a task id.
LEMMA ArgsNameIds ==
    ASSUME TypeOK, NEW q \in Requests, pc[q] \in {"read", "write"}
    PROVE  args[q].id \in TaskIds
BY DEF TypeOK, Args

\* The empty table satisfies the invariant.
LEMMA InitInv == Init => IndInv
BY MaxClockAssumption DEF Init, IndInv, TypeOK, IdsInv, LoadedInv, StampsInv,
   DeletedStayDeleted, StampsOrdered, ResponseIsStored

\* Create makes a task with a fresh id and stores nothing yet.
LEMMA CreateInv ==
    ASSUME IndInv, NEW r \in Requests, NEW u \in Users, NEW i \in TaskIds,
           NEW title \in Titles, Create(r, u, i, title)
    PROVE  IndInv'
<1> DEFINE new == NewTask(i, u, title, clock)
<1>1. new \in Task /\ new # None
  BY NoneAssumption DEF NewTask, Task, TaskStatus, IndInv, TypeOK
<1>2. TypeOK'
  BY <1>1 DEF Create, IndInv, TypeOK
<1>3. IdsInv'
  BY <1>1 DEF Create, IndInv, TypeOK, IdsInv, DeletedStayDeleted, NewTask
<1>4. LoadedInv'
  BY <1>1 DEF Create, IndInv, TypeOK, LoadedInv, NewTask
<1>5. StampsInv'
  <2>1. /\ rows' = rows /\ clock' = clock /\ args' = args /\ issued \subseteq issued'
        /\ \A q \in Requests : q # r => pc'[q] = pc[q] /\ task'[q] = task[q]
        /\ pc'[r] = "store" /\ task'[r] = new
    BY DEF Create, IndInv, TypeOK
  <2>2. new.id = i /\ new.createdAt = clock /\ new.updatedAt = clock /\ clock \in Nat
    BY DEF NewTask, IndInv, TypeOK
  <2>3. \A q \in Requests : pc[q] \in {"read", "write"} => args[q].id # i
    BY DEF Create, IndInv, StampsInv
  <2> HIDE DEF new
  <2>4. \A q \in Requests : pc'[q] = "store" =>
            task'[q].createdAt <= clock' /\ task'[q].createdAt <= task'[q].updatedAt
    <3>1. \A q \in Requests : pc[q] = "store" =>
              task[q].createdAt <= clock /\ task[q].createdAt <= task[q].updatedAt
      BY DEF IndInv, StampsInv
    <3> QED BY <2>1, <2>2, <3>1
  <2>5. \A q \in Requests : pc'[q] \in {"read", "write"} =>
            \A p \in Requests : pc'[p] = "store" /\ task'[p].id = args'[q].id =>
                task'[p].createdAt <= args'[q].now
    <3>1. \A q \in Requests : pc[q] \in {"read", "write"} =>
              \A p \in Requests : pc[p] = "store" /\ task[p].id = args[q].id =>
                  task[p].createdAt <= args[q].now
      BY DEF IndInv, StampsInv
    <3> QED BY <2>1, <2>2, <2>3, <3>1
  <2>6. \A q \in Requests : pc'[q] \in {"read", "write"} => pc[q] \in {"read", "write"}
    BY <2>1
  <2>7. StampsInv
    BY DEF IndInv
  <2> QED BY <2>1, <2>4, <2>5, <2>6, <2>7 DEF StampsInv, StampsOrdered
<1>6. ResponseIsStored'
  BY DEF Create, ResponseIsStored
<1> QED BY <1>2, <1>3, <1>4, <1>5, <1>6 DEF IndInv

\* The INSERT adds a row that was never there before, or fails.
LEMMA StoreInv ==
    ASSUME IndInv, NEW r \in Requests, Store(r)
    PROVE  IndInv'
<1> DEFINE t == task[r]
<1>1. t \in Task /\ t # None /\ t.id \in TaskIds /\ t.userID \in Users
  BY DEF Store, IndInv, TypeOK, Task
<1>2. rows' = rows \/ rows' = [rows EXCEPT ![t.id] = Saved(t)]
  BY DEF Store
<1>3. /\ pc' = [pc EXCEPT ![r] = "idle"]
      /\ args' = [args EXCEPT ![r] = None]
      /\ task' = [task EXCEPT ![r] = None]
      /\ issued' = issued /\ deleted' = deleted /\ clock' = clock
  BY DEF Store, Finish
<1>4. /\ resp' \in Response
      /\ resp'.task # None => resp'.task = t /\ rows' = [rows EXCEPT ![t.id] = Saved(t)]
  BY <1>1 DEF Store, Respond, Response, Errors
<1>10. \A q \in Requests : pc'[q] # "idle" =>
           q # r /\ pc'[q] = pc[q] /\ args'[q] = args[q] /\ task'[q] = task[q]
  BY FinishedAlone DEF Store, IndInv
<1>11. Saved(t) \in Task /\ Saved(t).id = t.id
  BY <1>1, SavedTask
<1>12. /\ rows' \in [TaskIds -> Task \cup {None}]
       /\ \A i \in TaskIds : rows'[i] # None => rows'[i].id = i
       /\ \A i \in TaskIds : i # t.id => rows'[i] = rows[i]
  <2>1. /\ rows \in [TaskIds -> Task \cup {None}]
        /\ \A i \in TaskIds : rows[i] # None => rows[i].id = i
    BY DEF IndInv, TypeOK
  <2> QED BY <1>1, <1>2, <1>11, <2>1
<1>5. TypeOK'
  <2>1. /\ pc' \in [Requests -> {"idle", "store", "read", "write"}]
        /\ args' \in [Requests -> Args \cup {None}]
        /\ task' \in [Requests -> Task \cup {None}]
    BY <1>3 DEF IndInv, TypeOK
  <2> QED BY <1>3, <1>4, <1>10, <1>12, <2>1 DEF IndInv, TypeOK
<1>6. IdsInv'
  <2>1. t.id \in issued /\ t.id \notin deleted
    BY DEF Store, IndInv, IdsInv
  <2>2. \A q \in Requests : q # r /\ pc[q] = "store" => task[q].id # t.id
    BY DEF Store, IndInv, IdsInv
  <2>3. \A q \in Requests : pc[q] = "store" => task[q].id \in TaskIds
    BY DEF IndInv, IdsInv, TypeOK
  <2>4. IdsInv /\ deleted \subseteq TaskIds
    BY DEF IndInv, TypeOK
  <2> HIDE DEF t
  <2> QED BY <1>3, <1>10, <1>12, <2>1, <2>2, <2>3, <2>4 DEF IdsInv, DeletedStayDeleted
<1>7. LoadedInv'
  <2>1. \A q \in Requests : pc[q] = "write" => task[q].id # t.id
    BY DEF Store, IndInv, LoadedInv
  <2>2. \A q \in Requests : pc[q] = "write" => rows'[task[q].id] = rows[task[q].id]
    BY <1>2, <2>1, LoadedTask DEF IndInv, TypeOK
  <2> QED BY <1>3, <1>10, <2>2, LoadedKept DEF IndInv
<1>8. StampsInv'
  <2> DEFINE row == Saved(t)
  <2>1. /\ t.createdAt \in Nat /\ t.updatedAt \in Nat
        /\ t.createdAt <= clock /\ t.createdAt <= t.updatedAt
    <3>1. t.createdAt \in Nat /\ t.updatedAt \in Nat
      BY <1>1 DEF Task
    <3>2. t.createdAt <= clock /\ t.createdAt <= t.updatedAt
      BY DEF Store, IndInv, StampsInv
    <3> QED BY <3>1, <3>2
  <2>2. /\ row.createdAt = Truncate(t.createdAt) /\ row.updatedAt = Truncate(t.updatedAt)
        /\ row.createdAt \in Nat /\ row.updatedAt \in Nat
    BY <1>1, SavedTask
  <2>3. /\ row.createdAt <= row.updatedAt
        /\ row.createdAt <= t.createdAt
        /\ Truncate(row.createdAt) = row.createdAt
        /\ Truncate(row.updatedAt) = row.updatedAt
    BY <2>1, <2>2, TruncateMonotone, TruncateBounds, TruncateIdempotent
  <2>4. row.createdAt <= clock
    BY <2>1, <2>2, <2>3 DEF IndInv, TypeOK
  <2>5. \A q \in Requests : pc[q] \in {"read", "write"} /\ args[q].id = t.id =>
            args[q].now \in Nat /\ t.createdAt <= args[q].now
    BY DEF Store, IndInv, StampsInv, TypeOK, Args
  <2>14. t.createdAt \in Nat /\ row.createdAt \in Nat /\ row.createdAt <= t.createdAt
    BY <2>1, <2>2, <2>3
  <2> HIDE DEF row, t
  <2>6. \A q \in Requests : pc[q] \in {"read", "write"} /\ args[q].id = t.id =>
            row.createdAt <= args[q].now
    BY <2>5, <2>14
  <2>7. rows' = rows \/ rows' = [rows EXCEPT ![t.id] = row]
    BY <1>2 DEF row
  <2>8. /\ rows'[t.id] = rows[t.id] \/ rows'[t.id] = row
        /\ \A i \in TaskIds : i # t.id => rows'[i] = rows[i]
    BY <1>1, <2>7 DEF IndInv, TypeOK
  <2>10. /\ StampsOrdered'
         /\ \A i \in TaskIds : rows'[i] # None =>
               /\ Truncate(rows'[i].createdAt) = rows'[i].createdAt
               /\ Truncate(rows'[i].updatedAt) = rows'[i].updatedAt
               /\ rows'[i].createdAt <= clock'
    BY <1>3, <2>3, <2>4, <2>8 DEF IndInv, StampsInv, StampsOrdered
  <2>11. \A q \in Requests : pc'[q] \in {"read", "write"} =>
             /\ pc[q] \in {"read", "write"} /\ args'[q] = args[q]
             /\ rows'[args[q].id] # None => rows'[args[q].id].createdAt <= args[q].now
    <3>1. \A q \in Requests : pc[q] \in {"read", "write"} => args[q].id \in TaskIds
      BY ArgsNameIds DEF IndInv
    <3>2. \A q \in Requests : pc[q] \in {"read", "write"} /\ rows[args[q].id] # None =>
              rows[args[q].id].createdAt <= args[q].now
      BY DEF IndInv, StampsInv
    <3> QED BY <1>10, <2>6, <2>8, <3>1, <3>2
  <2>12. \A q \in Requests : pc[q] \in {"read", "write"} =>
             /\ args[q].id \in issued
             /\ \A p \in Requests : pc[p] = "store" /\ task[p].id = args[q].id =>
                   task[p].createdAt <= args[q].now
    BY DEF IndInv, StampsInv
  <2>13. \A q \in Requests : pc[q] = "store" =>
             task[q].createdAt <= clock /\ task[q].createdAt <= task[q].updatedAt
    BY DEF IndInv, StampsInv
  <2> QED BY <1>3, <1>10, <2>10, <2>11, <2>12, <2>13 DEF StampsInv
<1>9. ResponseIsStored'
  BY <1>1, <1>4 DEF IndInv, TypeOK, ResponseIsStored
<1> QED BY <1>5, <1>6, <1>7, <1>8, <1>9 DEF IndInv

-----------------------------------------------------------------------------
(* The steps after Create: those that read, that delete and that only let  *)
(* time pass, then the write of Update and Transition, one round trip      *)
(* after their read.                                                       *)


\* Get answers with the row.
LEMMA GetInv ==
    ASSUME IndInv, NEW r \in Requests, NEW u \in Users, NEW i \in TaskIds, Get(r, u, i)
    PROVE  IndInv'
<1>1. resp' \in Response /\ (resp'.task # None => resp'.task = rows[i] /\ rows[i] # None)
  BY DEF Get, Respond, GetByID, Response, Errors, IndInv, TypeOK
<1>2. UNCHANGED <<rows, issued, deleted, clock, pc, args, task>>
  BY DEF Get
<1>3. TypeOK'
  BY <1>1, <1>2 DEF IndInv, TypeOK
<1>5. ResponseIsStored'
  <2>1. ASSUME rows[i] # None PROVE Saved(rows[i]) = rows[i]
    <3>1. /\ rows[i] \in Task
          /\ Truncate(rows[i].createdAt) = rows[i].createdAt
          /\ Truncate(rows[i].updatedAt) = rows[i].updatedAt
      BY <2>1 DEF IndInv, TypeOK, StampsInv
    <3> QED BY <3>1, ZenonT(30) DEF Saved, Task
  <2>2. rows[i] # None => rows[i].id = i
    BY DEF IndInv, TypeOK
  <2> QED BY <1>1, <1>2, <2>1, <2>2 DEF ResponseIsStored
<1>4. IdsInv' /\ LoadedInv' /\ StampsInv'
  <2>1. IdsInv'
    BY <1>2 DEF IndInv, IdsInv, DeletedStayDeleted
  <2>2. LoadedInv'
    BY <1>2, LoadedKept DEF IndInv
  <2>3. StampsInv'
    BY <1>2, StampsKept, ArgsNameIds DEF IndInv
  <2> QED BY <2>1, <2>2, <2>3
<1> QED BY <1>3, <1>4, <1>5 DEF IndInv

\* Update and Transition take the time before they read.
LEMMA BeginInv ==
    ASSUME IndInv, NEW r \in Requests, NEW a \in Calls, Begin(r, a)
    PROVE  IndInv'
<1>1. a \in Args /\ a # None /\ a.id \in issued /\ a.now = clock
  BY NoneAssumption DEF Calls, Args, Begin, Known, IndInv, TypeOK
<1>2. TypeOK'
  BY <1>1 DEF Begin, IndInv, TypeOK
<1>6. /\ rows' = rows /\ issued' = issued /\ deleted' = deleted /\ task' = task
      /\ \A q \in Requests : pc'[q] \in {"store", "write"} =>
            pc'[q] = pc[q] /\ args'[q] = args[q]
  BY DEF Begin, IndInv, TypeOK
<1>3. IdsInv' /\ LoadedInv'
  <2>1. IdsInv'
    BY <1>6 DEF IndInv, IdsInv, DeletedStayDeleted
  <2>2. LoadedInv'
    BY <1>6, LoadedKept DEF IndInv
  <2> QED BY <2>1, <2>2
<1>4. StampsInv'
  <2>1. /\ rows' = rows /\ issued' = issued /\ clock' = clock /\ task' = task
        /\ \A q \in Requests :
              \/ pc'[q] = pc[q] /\ args'[q] = args[q]
              \/ pc'[q] = "read" /\ args'[q] = a
    BY DEF Begin, IndInv, TypeOK
  <2>2. \A q \in Requests : pc[q] = "store" /\ task[q].id = a.id => task[q].createdAt <= a.now
    BY <1>1 DEF IndInv, StampsInv
  <2>3. rows[a.id] # None => rows[a.id].createdAt <= a.now
    BY <1>1 DEF IndInv, TypeOK, StampsInv
  <2>4. StampsInv
    BY DEF IndInv
  <2> QED BY <1>1, <2>1, <2>2, <2>3, <2>4 DEF StampsInv, StampsOrdered
<1>5. ResponseIsStored'
  BY DEF Begin, ResponseIsStored
<1> QED BY <1>2, <1>3, <1>4, <1>5 DEF IndInv

\* The copy that is read is the row, and its owner is checked.
LEMMA ReadInv ==
    ASSUME IndInv, NEW r \in Requests, Read(r)
    PROVE  IndInv'
<1> DEFINE a == args[r]
<1>1. pc[r] = "read" /\ a \in Args /\ a # None /\ a.id \in TaskIds /\ a.user \in Users
  BY DEF Read, IndInv, TypeOK, Args
<1>2. rows' = rows /\ issued' = issued /\ deleted' = deleted /\ clock' = clock
  BY DEF Read
<1>3. CASE resp' = None
  <2>1. /\ GetByID(a.user, a.id) = "ok"
        /\ a.op = "transition" => CanTransition(rows[a.id].status, a.arg)
        /\ pc' = [pc EXCEPT ![r] = "write"]
        /\ task' = [task EXCEPT ![r] = rows[a.id]]
        /\ args' = args
    <3>1. \A err \in Errors : ~Respond(a.user, err, None)
      BY <1>1, <1>3, Responded
    <3>2. GetByID(a.user, a.id) \in Errors /\ {"invalid_transition", "internal"} \subseteq Errors
      BY DEF GetByID, Errors
    <3> QED BY <3>1, <3>2 DEF Read
  <2>2. rows[a.id] # None /\ rows[a.id] \in Task /\ rows[a.id].userID = a.user
        /\ rows[a.id].id = a.id
    BY <1>1, <2>1 DEF GetByID, IndInv, TypeOK
  <2>3. TypeOK'
    BY <1>1, <1>2, <1>3, <2>1, <2>2 DEF IndInv, TypeOK
  <2>4. IdsInv'
    <3>1. \A q \in Requests : pc'[q] = "store" => pc[q] = "store" /\ task'[q] = task[q]
      BY <2>1 DEF IndInv, TypeOK
    <3> QED BY <1>2, <3>1 DEF IndInv, IdsInv, DeletedStayDeleted
  <2>5. LoadedInv'
    <3>1. \A q \in Requests : q # r =>
              pc'[q] = pc[q] /\ task'[q] = task[q]
      BY <2>1 DEF IndInv, TypeOK
    <3>2. pc'[r] = "write" /\ task'[r] = rows[a.id] /\ args'[r] = a
      BY <2>1 DEF IndInv, TypeOK
    <3>3. a.id \in issued /\ \A q \in Requests : pc[q] = "store" => task[q].id # a.id
      BY <1>1, <2>2 DEF IndInv, IdsInv
    <3>4. pc[r] # "store"
      BY <1>1
    <3>5. \A q \in Requests : pc'[q] = "store" => pc[q] = "store" /\ task'[q] = task[q]
      BY <3>1, <3>2
    <3>6. ASSUME NEW q \in Requests, q # r, pc'[q] = "write" PROVE LoadedInv!(q)!2'
      <4>1. pc[q] = "write" /\ task'[q] = task[q] /\ args'[q] = args[q]
        BY <2>1, <3>1, <3>6
      <4>2. LoadedInv!(q)!2
        BY <4>1 DEF IndInv, LoadedInv
      <4> QED BY <1>2, <3>5, <4>1, <4>2
    <3>7. LoadedInv!(r)!2'
      <4>1. task'[r].id = a.id /\ task'[r].userID = a.user /\ args'[r] = a
        BY <2>2, <3>2
      <4>2. rows'[task'[r].id] = task'[r]
        BY <1>2, <3>2, <4>1
      <4>3. a.op = "transition" => CanTransition(task'[r].status, a.arg)
        BY <2>1, <3>2
      <4>4. \A q \in Requests : pc'[q] = "store" => task'[q].id # a.id
        BY <3>3, <3>5
      <4> QED BY <1>2, <3>3, <4>1, <4>2, <4>3, <4>4
    <3> QED BY <3>6, <3>7 DEF LoadedInv
  <2>6. StampsInv'
    <3>1. \A q \in Requests :
              /\ pc'[q] = "store" => pc[q] = "store" /\ task'[q] = task[q]
              /\ pc'[q] \in {"read", "write"} => pc[q] \in {"read", "write"}
      BY <1>1, <2>1 DEF IndInv, TypeOK
    <3> QED BY <1>2, <2>1, <3>1, StampsKept, ArgsNameIds DEF IndInv
  <2>7. ResponseIsStored'
    BY <1>3 DEF ResponseIsStored
  <2> QED BY <2>3, <2>4, <2>5, <2>6, <2>7 DEF IndInv
<1>4. CASE resp' # None
  <2>6. Finish(r) /\ \E err \in Errors : Respond(a.user, err, None)
    BY <1>1, <1>4 DEF Read, GetByID, Errors
  <2>1. Finish(r) /\ resp' \in Response /\ resp'.task = None
    BY <1>1, <2>6, Responded
  <2>7. \A q \in Requests : pc'[q] # "idle" =>
            q # r /\ pc'[q] = pc[q] /\ args'[q] = args[q] /\ task'[q] = task[q]
    BY <2>1, FinishedAlone DEF IndInv
  <2>2. TypeOK' /\ ResponseIsStored'
    BY <1>2, <2>1 DEF Finish, IndInv, TypeOK, ResponseIsStored
  <2>3. IdsInv'
    BY <1>2, <2>7 DEF IndInv, IdsInv, DeletedStayDeleted
  <2>4. LoadedInv'
    BY <1>2, <2>7, LoadedKept DEF IndInv
  <2>5. StampsInv'
    BY <1>2, <2>7, StampsKept, ArgsNameIds DEF IndInv
  <2> QED BY <2>2, <2>3, <2>4, <2>5 DEF IndInv
<1> QED BY <1>3, <1>4

\* DELETE removes the row of its owner for good.
LEMMA DeleteInv ==
    ASSUME IndInv, NEW r \in Requests, NEW u \in Users, NEW i \in TaskIds,
           Delete(r, u, i)
    PROVE  IndInv'
<1>1. /\ UNCHANGED <<issued, clock, pc, args, task>>
      /\ \/ rows' = rows /\ deleted' = deleted
         \/ /\ rows[i] # None
            /\ rows' = [rows EXCEPT ![i] = None]
            /\ deleted' = deleted \cup {i}
  BY DEF Delete, Matches
<1>2. resp' \in Response /\ resp'.task = None
  BY DEF Delete, Respond, Response, Errors
<1>3. TypeOK' /\ ResponseIsStored'
  BY <1>1, <1>2 DEF IndInv, TypeOK, ResponseIsStored
<1>4. IdsInv'
  BY <1>1 DEF IndInv, TypeOK, IdsInv, DeletedStayDeleted
<1>7. \A j \in TaskIds : rows'[j] # None => rows'[j] = rows[j] /\ rows[j] # None
  BY <1>1 DEF IndInv, TypeOK
<1>5. LoadedInv'
  <2>1. \A q \in Requests : pc[q] = "write" => task[q].id \in TaskIds
    BY LoadedTask
  <2> QED BY <1>1, <1>7, <2>1, LoadedKept DEF IndInv
<1>6. StampsInv'
  BY <1>1 DEF IndInv, TypeOK, StampsInv, StampsOrdered
<1> QED BY <1>3, <1>4, <1>5, <1>6 DEF IndInv

\* Time passes.
LEMMA TickInv == ASSUME IndInv, Tick PROVE IndInv'
<1>1. TypeOK' /\ ResponseIsStored'
  BY DEF Tick, IndInv, TypeOK, ResponseIsStored
<1>2. IdsInv' /\ LoadedInv'
  BY DEF Tick, IndInv, IdsInv, LoadedInv, DeletedStayDeleted
<1>3. StampsInv'
  <2>1. \A i \in TaskIds : rows[i] # None => rows[i].createdAt \in Nat
    BY DEF IndInv, TypeOK, Task
  <2>2. \A q \in Requests : pc[q] = "store" => task[q].createdAt \in Nat
    BY DEF IndInv, TypeOK, Task
  <2>3. clock \in Nat
    BY DEF IndInv, TypeOK
  <2>4. /\ StampsInv
        /\ clock' = clock + 1
        /\ UNCHANGED <<rows, issued, pc, args, task>>
    BY DEF Tick, IndInv
  <2>5. \A i \in TaskIds : rows[i] # None => rows[i].createdAt <= clock'
    <3>1. \A i \in TaskIds : rows[i] # None => rows[i].createdAt <= clock
      BY <2>4 DEF StampsInv
    <3> QED BY <2>1, <2>3, <2>4, <3>1
  <2>6. \A q \in Requests : pc[q] = "store" => task[q].createdAt <= clock'
    <3>1. \A q \in Requests : pc[q] = "store" => task[q].createdAt <= clock
      BY <2>4 DEF StampsInv
    <3> QED BY <2>2, <2>3, <2>4, <3>1
  <2> QED BY <2>4, <2>5, <2>6, Zenon DEF StampsInv, StampsOrdered
<1> QED BY <1>1, <1>2, <1>3 DEF IndInv

\* Nothing happens.
LEMMA StutterInv == ASSUME IndInv, UNCHANGED vars PROVE IndInv'
<1>1. TypeOK' /\ ResponseIsStored'
  BY DEF vars, IndInv, TypeOK, ResponseIsStored
<1>2. IdsInv'
  BY DEF vars, IndInv, IdsInv, DeletedStayDeleted
<1>3. LoadedInv'
  BY DEF vars, IndInv, LoadedInv
<1>4. StampsInv'
  BY DEF vars, IndInv, StampsInv, StampsOrdered
<1> QED BY <1>1, <1>2, <1>3, <1>4 DEF IndInv

-----------------------------------------------------------------------------
(* The write of Update and Transition. *)

\* The copy that repo.Update is given differs from the row in the columns it
\* writes and in no other, so the row becomes the copy as the columns keep it.
LEMMA UpdateStoresTask ==
    ASSUME IndInv, NEW r \in Requests, pc[r] = "write"
    PROVE  LET t == Edited(task[r], args[r])
           IN  /\ t \in Task /\ t # None
               /\ t.id = task[r].id /\ t.id = args[r].id
               /\ t.userID = task[r].userID /\ t.userID = args[r].user
               /\ t.createdAt = task[r].createdAt /\ t.updatedAt = args[r].now
               /\ Matches(t.userID, t.id) <=> rows[t.id] # None
               /\ Matches(t.userID, t.id) => UpdateRows(t) = [rows EXCEPT ![t.id] = Saved(t)]
               /\ ~Matches(t.userID, t.id) => UpdateRows(t) = rows
<1> DEFINE t == Edited(task[r], args[r])
<1>1. task[r] \in Task /\ args[r] \in Args
  BY DEF IndInv, TypeOK
<1>2. /\ task[r].id = args[r].id
      /\ task[r].userID = args[r].user
      /\ rows[task[r].id] # None => /\ rows[task[r].id].userID = task[r].userID
                                    /\ rows[task[r].id].createdAt = task[r].createdAt
      /\ args[r].op = "transition" => CanTransition(task[r].status, args[r].arg)
  BY DEF IndInv, LoadedInv
<1>3. /\ t \in Task
      /\ t.id = task[r].id /\ t.userID = task[r].userID
      /\ t.createdAt = task[r].createdAt /\ t.updatedAt = args[r].now
  <2>1. CASE args[r].op = "update"
    <3>1. t = [task[r] EXCEPT !.title = args[r].arg, !.updatedAt = args[r].now]
      BY <2>1 DEF Edited
    <3>2. args[r].arg \in Titles /\ args[r].now \in Nat
      BY <1>1, <2>1 DEF Args
    <3> QED BY <1>1, <3>1, <3>2, ZenonT(30) DEF Task
  <2>2. CASE args[r].op = "transition"
    <3>1. t = [task[r] EXCEPT !.status = args[r].arg, !.updatedAt = args[r].now]
      BY <2>2 DEF Edited
    <3>2. args[r].arg \in TaskStatus /\ args[r].now \in Nat
      BY <1>1, <1>2, <2>2 DEF Args, CanTransition, TaskStatus
    <3> QED BY <1>1, <3>1, <3>2, ZenonT(30) DEF Task
  <2> QED BY <1>1, <2>1, <2>2, Zenon DEF Args
<1>4. Matches(t.userID, t.id) <=> rows[t.id] # None
  BY <1>2, <1>3 DEF Matches
<1>5. ASSUME rows[t.id] # None
      PROVE  [rows[t.id] EXCEPT !.title = t.title, !.status = t.status,
                                !.updatedAt = Truncate(t.updatedAt)] = Saved(t)
  <2>1. rows[t.id] \in Task /\ rows[t.id].id = t.id
    BY <1>3, <1>5 DEF IndInv, TypeOK, Task
  <2>2. rows[t.id].userID = t.userID /\ rows[t.id].createdAt = Truncate(t.createdAt)
    <3>1. t.id \in TaskIds
      BY <1>3 DEF Task
    <3>2. Truncate(rows[t.id].createdAt) = rows[t.id].createdAt
      BY <1>5, <3>1 DEF IndInv, StampsInv
    <3> QED BY <1>2, <1>3, <1>5, <3>2
  <2> QED BY <1>3, <2>1, <2>2, ZenonT(30) DEF Task, Saved
<1>6. Matches(t.userID, t.id) => UpdateRows(t) = [rows EXCEPT ![t.id] = Saved(t)]
  BY <1>4, <1>5, ZenonT(30) DEF UpdateRows
<1>7. ~Matches(t.userID, t.id) => UpdateRows(t) = rows
  BY DEF UpdateRows
<1>8. t # None
  BY <1>3, NoneAssumption
<1> QED BY <1>2, <1>3, <1>4, <1>6, <1>7, <1>8, Zenon

\* What a write does to the table.
LEMMA WriteRows ==
    ASSUME IndInv, NEW r \in Requests, Write(r)
    PROVE  LET t == Edited(task[r], args[r])
           IN  \/ rows' = rows
               \/ /\ rows[task[r].id] # None
                  /\ rows' = [rows EXCEPT ![task[r].id] = Saved(t)]
<1> DEFINE t == Edited(task[r], args[r])
<1>1. pc[r] = "write" /\ (rows' = rows \/ rows' = UpdateRows(t))
  BY DEF Write
<1>2. /\ t.id = task[r].id
      /\ Matches(t.userID, t.id) <=> rows[t.id] # None
      /\ Matches(t.userID, t.id) => UpdateRows(t) = [rows EXCEPT ![t.id] = Saved(t)]
      /\ ~Matches(t.userID, t.id) => UpdateRows(t) = rows
  BY <1>1, UpdateStoresTask, Zenon
<1> HIDE DEF t
<1>3. \/ rows' = rows
      \/ /\ rows[task[r].id] # None
         /\ rows' = [rows EXCEPT ![task[r].id] = Saved(t)]
  BY <1>1, <1>2, Zenon
<1> QED BY <1>3 DEF t

\* The UPDATE writes the edited copy over the row it was read from, if that is still there.
LEMMA WriteInv ==
    ASSUME IndInv, NEW r \in Requests, Write(r)
    PROVE  IndInv'
<1> DEFINE t == Edited(task[r], args[r])
<1>1. pc[r] = "write"
  BY Zenon DEF Write
<1>2. /\ t \in Task /\ t # None
      /\ t.id \in TaskIds /\ t.userID \in Users
      /\ t.id = task[r].id /\ t.id = args[r].id
      /\ t.userID = task[r].userID /\ t.userID = args[r].user
      /\ t.createdAt = task[r].createdAt /\ t.updatedAt = args[r].now
      /\ t.createdAt \in Nat /\ t.updatedAt \in Nat
  BY <1>1, UpdateStoresTask, ZenonT(30) DEF Task
<1>3. \/ rows' = rows
      \/ rows[t.id] # None /\ rows' = [rows EXCEPT ![t.id] = Saved(t)]
  BY <1>2, WriteRows, Zenon
<1>4. Finish(r) /\ issued' = issued /\ deleted' = deleted /\ clock' = clock
  BY DEF Write
<1>5. /\ resp' \in Response
      /\ resp'.task # None => resp'.task = t /\ rows' = [rows EXCEPT ![t.id] = Saved(t)]
  <2>1. Matches(t.userID, t.id) => UpdateRows(t) = [rows EXCEPT ![t.id] = Saved(t)]
    BY <1>1, UpdateStoresTask, Zenon
  <2>2. \/ /\ resp' = [user |-> t.userID, err |-> "ok", task |-> t]
           /\ rows' = [rows EXCEPT ![t.id] = Saved(t)]
        \/ \E err \in {"not_found", "internal"} :
              resp' = [user |-> t.userID, err |-> err, task |-> None]
    BY <1>2, <2>1, Zenon DEF Write, Respond
  <2>3. {"ok", "not_found", "internal"} \subseteq Errors
    BY DEF Errors
  <2> HIDE DEF t
  <2> QED BY <1>2, <2>2, <2>3 DEF Response
<1>11. /\ Saved(t) \in Task /\ Saved(t) # None /\ Saved(t).id = t.id
       /\ Saved(t).userID = t.userID /\ Saved(t).createdAt = Truncate(t.createdAt)
  BY <1>2, SavedTask
<1>12. \A q \in Requests : pc'[q] # "idle" =>
          q # r /\ pc'[q] = pc[q] /\ args'[q] = args[q] /\ task'[q] = task[q]
  BY <1>4, FinishedAlone DEF IndInv
<1>13. rows[t.id] # None =>
          /\ rows[t.id].userID = t.userID
          /\ rows[t.id].createdAt = t.createdAt
          /\ Truncate(t.createdAt) = t.createdAt
  <2>1. rows[t.id] # None => rows[t.id].userID = t.userID /\ rows[t.id].createdAt = t.createdAt
    BY <1>1, <1>2 DEF IndInv, LoadedInv
  <2>2. rows[t.id] # None => Truncate(rows[t.id].createdAt) = rows[t.id].createdAt
    BY <1>2 DEF IndInv, StampsInv
  <2> QED BY <2>1, <2>2
<1>14. /\ rows' \in [TaskIds -> Task \cup {None}]
       /\ \A i \in TaskIds :
             /\ rows'[i] = None <=> rows[i] = None
             /\ rows'[i] # None => /\ rows'[i].id = i
                                   /\ rows'[i].userID = rows[i].userID
                                   /\ rows'[i].createdAt = rows[i].createdAt
  <2>1. /\ rows \in [TaskIds -> Task \cup {None}]
        /\ \A i \in TaskIds : rows[i] # None => rows[i].id = i
    BY DEF IndInv, TypeOK
  <2> DEFINE i0  == t.id
             row == Saved(t)
  <2>2. /\ i0 \in TaskIds /\ row \in Task /\ row # None /\ row.id = i0
        /\ rows[i0] # None => row.userID = rows[i0].userID /\ row.createdAt = rows[i0].createdAt
    BY <1>2, <1>11, <1>13, Zenon
  <2>3. \/ rows' = rows
        \/ rows[i0] # None /\ rows' = [rows EXCEPT ![i0] = row]
    BY <1>3
  <2> HIDE DEF i0, row
  <2> QED BY <2>1, <2>2, <2>3
<1>6. TypeOK'
  <2>1. /\ pc' \in [Requests -> {"idle", "store", "read", "write"}]
        /\ args' \in [Requests -> Args \cup {None}]
        /\ task' \in [Requests -> Task \cup {None}]
    BY <1>4 DEF Finish, IndInv, TypeOK
  <2> QED BY <1>4, <1>5, <1>12, <1>14, <2>1 DEF IndInv, TypeOK
<1>15. \A q \in Requests : pc'[q] \in {"store", "write"} =>
          task'[q] \in Task /\ task'[q].id \in TaskIds
  BY <1>6 DEF TypeOK, Task
<1>7. IdsInv'
  BY <1>4, <1>12, <1>14, <1>15 DEF IndInv, TypeOK, IdsInv, DeletedStayDeleted
<1>8. LoadedInv'
  <2> SUFFICES ASSUME NEW q \in Requests, pc'[q] = "write"
               PROVE  LoadedInv!(q)!2'
    BY DEF LoadedInv
  <2>1. pc[q] = "write" /\ task'[q] = task[q] /\ args'[q] = args[q] /\ task[q].id \in TaskIds
    BY <1>12, <1>15
  <2>2. LoadedInv!(q)!2
    BY <2>1 DEF IndInv, LoadedInv
  <2>3. rows'[task[q].id] # None =>
            /\ rows'[task[q].id].userID = task[q].userID
            /\ rows'[task[q].id].createdAt = task[q].createdAt
    BY <1>14, <2>1, <2>2
  <2> QED BY <1>4, <1>12, <2>1, <2>2, <2>3, Zenon
<1>9. StampsInv'
  <2> DEFINE row == Saved(t)
  <2>1. rows[t.id] # None =>
            /\ rows[t.id].createdAt = t.createdAt
            /\ Truncate(t.createdAt) = t.createdAt
            /\ t.createdAt <= t.updatedAt
    <3>1. rows[args[r].id] # None => rows[args[r].id].createdAt <= args[r].now
      BY <1>1 DEF IndInv, StampsInv
    <3> QED BY <1>2, <1>13, <3>1
  <2>2. /\ row.createdAt = Truncate(t.createdAt) /\ row.updatedAt = Truncate(t.updatedAt)
        /\ row.createdAt \in Nat /\ row.updatedAt \in Nat
    BY <1>2, SavedTask
  <2>3. rows[t.id] # None =>
            /\ row.createdAt = rows[t.id].createdAt
            /\ row.createdAt <= row.updatedAt
            /\ Truncate(row.createdAt) = row.createdAt
            /\ Truncate(row.updatedAt) = row.updatedAt
    BY <1>2, <2>1, <2>2, TruncateMonotone, TruncateIdempotent, Zenon
  <2> HIDE DEF row
  <2>4. \/ rows' = rows
        \/ rows[t.id] # None /\ rows' = [rows EXCEPT ![t.id] = row]
    BY <1>3 DEF row
  <2>5. /\ StampsOrdered'
        /\ \A i \in TaskIds : rows'[i] # None =>
              /\ Truncate(rows'[i].createdAt) = rows'[i].createdAt
              /\ Truncate(rows'[i].updatedAt) = rows'[i].updatedAt
    <3>1. \A i \in TaskIds : rows'[i] = rows[i] \/ (rows[t.id] # None /\ rows'[i] = row)
      BY <1>2, <2>4 DEF IndInv, TypeOK
    <3> QED BY <2>3, <3>1 DEF IndInv, StampsInv, StampsOrdered
  <2>6. \A q \in Requests : pc'[q] \in {"read", "write"} =>
            args[q].id \in TaskIds /\ pc[q] = pc'[q] /\ args'[q] = args[q]
    BY <1>12, <1>6 DEF TypeOK, Args
  <2>7. \A i \in TaskIds : rows'[i] # None => rows'[i].createdAt <= clock'
    BY <1>4, <1>14 DEF IndInv, StampsInv
  <2>8. \A q \in Requests : pc'[q] = "store" =>
            pc[q] = "store" /\ task'[q] = task[q]
    BY <1>12
  <2>9. \A q \in Requests : pc'[q] \in {"read", "write"} =>
            /\ args[q].id \in issued
            /\ rows'[args[q].id] # None => rows'[args[q].id].createdAt <= args[q].now
            /\ \A p \in Requests : pc[p] = "store" /\ task[p].id = args[q].id =>
                  task[p].createdAt <= args[q].now
    BY <1>14, <2>6 DEF IndInv, StampsInv
  <2>10. \A q \in Requests : pc[q] = "store" =>
            task[q].createdAt <= clock /\ task[q].createdAt <= task[q].updatedAt
    BY DEF IndInv, StampsInv
  <2> QED BY <1>4, <2>5, <2>6, <2>7, <2>8, <2>9, <2>10 DEF StampsInv
<1>10. ResponseIsStored'
  BY <1>2, <1>5 DEF IndInv, TypeOK, ResponseIsStored
<1> QED BY <1>6, <1>7, <1>8, <1>9, <1>10 DEF IndInv
=============================================================================

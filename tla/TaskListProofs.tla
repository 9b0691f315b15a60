--------------------------- MODULE TaskListProofs ----------------------------
(***************************************************************************)
(* The safety of TaskList for any table, limits and offsets: undisturbed   *)
(* pages add up to the total, and with distinct times they show every task *)
(* once, newest first.                                                     *)
(***************************************************************************)
EXTENDS TaskList, FiniteSetTheorems, SequenceTheorems, WellFoundedInduction, NaturalsInduction,
        TLAPS

Walking == [at : {"count", "page", "done"}, user : Users, status : Statuses \union {AnyStatus},
            limit : Nat \ {0}, from : Nat, offset : Nat, total : 0..Cardinality(Ids),
            seen : Seq(Ids)]

\* No two of the tasks have the same created_at.
Distinct(found) == \A i, j \in found : table[i].createdAt = table[j].createdAt => i = j

\* How many of n rows lie between two offsets.
Between(n, from, offset) == Max({0, Min({n, offset}) - from})

\* What a walk of tasks that nobody disturbs has seen before its next page:
\* as many of them as lie between its first offset and the next one and, when
\* their order is determined, those.
Progress(w, found) ==
    /\ w.at # "count" => w.total = Cardinality(found)
    /\ w.at = "done" => w.offset >= w.total /\ Ordered(found) # {}
    /\ Len(w.seen) = Between(Cardinality(found), w.from, w.offset)
    /\ Distinct(found) => \A s \in Ordered(found) :
          w.seen = SubSeq(s, w.from + 1, Min({Len(s), w.offset}))

IndInv ==
    /\ table \in [Ids -> Row \union {None}]
    /\ {touched, lost} \subseteq BOOLEAN
    /\ walk # NoWalk => walk \in Walking /\ walk.from <= walk.offset
    /\ walk.at # "idle" /\ ~touched /\ ~lost => Progress(walk, Found)

-----------------------------------------------------------------------------
(* Numbers and sequences. *)

\* The smaller and the larger of two.
LEMMA MinMax ==
    ASSUME NEW a \in Int, NEW b \in Int
    PROVE  /\ Min({a, b}) = IF a <= b THEN a ELSE b
           /\ Max({a, b}) = IF a <= b THEN b ELSE a
<1>1. Min({a, b}) = IF a <= b THEN a ELSE b
  <2> DEFINE m == IF a <= b THEN a ELSE b
  <2>1. m \in {a, b} /\ \A y \in {a, b} : m =< y
    OBVIOUS
  <2>2. ASSUME NEW x \in {a, b}, \A y \in {a, b} : x =< y PROVE x = m
    BY <2>2
  <2> HIDE DEF m
  <2>3. Min({a, b}) = m
    BY <2>1, <2>2 DEF Min
  <2> QED BY <2>3 DEF m
<1>2. Max({a, b}) = IF a <= b THEN b ELSE a
  <2> DEFINE m == IF a <= b THEN b ELSE a
  <2>1. m \in {a, b} /\ \A y \in {a, b} : m >= y
    OBVIOUS
  <2>2. ASSUME NEW x \in {a, b}, \A y \in {a, b} : x >= y PROVE x = m
    BY <2>2
  <2> HIDE DEF m
  <2>3. Max({a, b}) = m
    BY <2>1, <2>2 DEF Max
  <2> QED BY <2>3 DEF m
<1> QED BY <1>1, <1>2

\* A set of natural numbers that is not empty has a least element.
LEMMA LeastNatural ==
    ASSUME NEW T \in SUBSET Nat, T # {}
    PROVE  \E x \in T : \A y \in T : x <= y
<1> DEFINE R == OpToRel(<, Nat)
<1>1. IsWellFoundedOn(R, Nat)
  BY NatLessThanWellFounded, Zenon
<1>2. \A x, y \in Nat : <<x, y>> \in R <=> x < y
  BY DEF OpToRel
<1> HIDE DEF R
<1>3. PICK x \in T : \A y \in T : ~(<<y, x>> \in R)
  BY <1>1, WFMin, Zenon
<1>4. \A y \in T : ~(y < x)
  BY <1>2, <1>3, Zenon
<1>5. \A y \in T : x <= y
  BY <1>4
<1> QED BY <1>5, Zenon

\* How many of n rows a page holds.
Rest(n, limit, offset) ==
    IF n <= offset THEN 0 ELSE IF n <= offset + limit THEN n - offset ELSE limit

\* LIMIT and OFFSET cut out the rows from the offset up to the limit, fewer
\* where there are fewer.
LEMMA PageIs ==
    ASSUME NEW S, NEW s \in Seq(S), NEW limit \in Nat \ {0}, NEW offset \in Nat
    PROVE  /\ Page(s, limit, offset) \in Seq(S)
           /\ Len(Page(s, limit, offset)) = Rest(Len(s), limit, offset)
<1> DEFINE m == Min({Len(s), offset + limit})
<1>1. Len(s) \in Nat
  OBVIOUS
<1>2. m = IF Len(s) <= offset + limit THEN Len(s) ELSE offset + limit
  BY <1>1, MinMax
<1>3. m \in Nat /\ m <= Len(s)
  BY <1>1, <1>2
<1>4. Page(s, limit, offset) = SubSeq(s, offset + 1, m)
  BY DEF Page
<1> HIDE DEF m
<1>5. /\ SubSeq(s, offset + 1, m) \in Seq(S)
      /\ Len(SubSeq(s, offset + 1, m)) = IF offset + 1 <= m THEN m - offset ELSE 0
  BY <1>1, <1>3
<1> QED BY <1>1, <1>2, <1>3, <1>4, <1>5 DEF Rest

\* A page goes on where the ones before it ended.
LEMMA PagesJoin ==
    ASSUME NEW S, NEW s \in Seq(S), NEW limit \in Nat \ {0}, NEW from \in Nat,
           NEW offset \in Nat, from <= offset
    PROVE  SubSeq(s, from + 1, Min({Len(s), offset})) \o Page(s, limit, offset)
              = SubSeq(s, from + 1, Min({Len(s), offset + limit}))
<1> DEFINE m == Min({Len(s), offset})
           n == Min({Len(s), offset + limit})
<1>1. Len(s) \in Nat
  OBVIOUS
<1>2. /\ m = IF Len(s) <= offset THEN Len(s) ELSE offset
      /\ n = IF Len(s) <= offset + limit THEN Len(s) ELSE offset + limit
  BY <1>1, MinMax
<1>3. Page(s, limit, offset) = SubSeq(s, offset + 1, n)
  BY DEF Page
<1> HIDE DEF m, n
<1>4. SubSeq(s, from + 1, m) \o SubSeq(s, offset + 1, n) = SubSeq(s, from + 1, n)
  <2>1. CASE Len(s) <= offset
    <3>1. n = m /\ n \in Nat /\ n <= Len(s) /\ n < offset + 1
      BY <1>1, <1>2, <2>1
    <3>2. SubSeq(s, offset + 1, n) = << >>
      BY <1>1, <3>1
    <3>3. SubSeq(s, from + 1, n) \in Seq(S)
      BY <1>1, <3>1
    <3>4. SubSeq(s, from + 1, n) \o << >> = SubSeq(s, from + 1, n)
      BY <3>3, ConcatEmptySeq, Zenon
    <3> QED BY <3>1, <3>2, <3>4, Zenon
  <2>2. CASE offset < Len(s)
    <3> DEFINE f == from + 1
    <3>1. m = offset /\ n \in offset..Len(s)
      BY <1>1, <1>2, <2>2
    <3>2. f \in 1..(Len(s) + 1) /\ offset \in (f - 1)..Len(s)
      BY <1>1, <2>2
    <3> HIDE DEF f
    <3>3. SubSeq(s, f, offset) \o SubSeq(s, offset + 1, n) = SubSeq(s, f, n)
      BY <3>1, <3>2, ConcatAdjacentSubSeq
    <3> QED BY <3>1, <3>3, Zenon DEF f
  <2>3. Len(s) <= offset \/ offset < Len(s)
    BY <1>1
  <2> QED BY <2>1, <2>2, <2>3, Zenon
<1> QED BY <1>3, <1>4, Zenon DEF m, n

-----------------------------------------------------------------------------
(* The statements. *)

\* The tasks that COUNT and SELECT look for are rows of the table.
LEMMA WhereFinite ==
    ASSUME table \in [Ids -> Row \union {None}], NEW user, NEW status
    PROVE  /\ IsFiniteSet(Where(user, status))
           /\ Cardinality(Where(user, status)) \in 0..Cardinality(Ids)
           /\ Where(user, status) \subseteq Ids
           /\ \A i \in Where(user, status) : table[i] \in Row /\ table[i].createdAt \in Nat
<1>1. Where(user, status) \subseteq Ids
  BY DEF Where
<1>2. IsFiniteSet(Where(user, status)) /\ Cardinality(Where(user, status)) <= Cardinality(Ids)
  BY <1>1, IdsAssumption, FS_Subset
<1>3. Cardinality(Where(user, status)) \in Nat /\ Cardinality(Ids) \in Nat
  BY <1>2, IdsAssumption, FS_CardinalityType
<1>4. ASSUME NEW i \in Where(user, status) PROVE table[i] \in Row /\ table[i].createdAt \in Nat
  <2>1. table[i] \in Row
    BY DEF Where
  <2> QED BY <2>1, MaxTimeAssumption DEF Row
<1> QED BY <1>1, <1>2, <1>3, <1>4

\* All the tasks found, each once, newest first.
Sorted(s, found) ==
    /\ \A i, j \in 1..Len(s) : s[i] = s[j] => i = j
    /\ \A t \in found : \E i \in 1..Len(s) : s[i] = t
    /\ \A i, j \in 1..Len(s) : i < j => table[s[i]].createdAt >= table[s[j]].createdAt

\* What the SELECT orders is a sequence of all the tasks found, each once.
LEMMA OrderedIs ==
    ASSUME NEW found, IsFiniteSet(found), NEW s \in Ordered(found)
    PROVE  s \in Seq(found) /\ Len(s) = Cardinality(found) /\ Sorted(s, found)
<1>1. Cardinality(found) \in Nat
  BY FS_CardinalityType
<1> DEFINE n == Cardinality(found)
<1> HIDE DEF n
<1>2. /\ s \in Injection(1..n, found) /\ s \in Surjection(1..n, found)
      /\ \A i, j \in 1..n : i < j => table[s[i]].createdAt >= table[s[j]].createdAt
  BY Zenon DEF Ordered, Bijection, n
<1>3. s \in [1..n -> found] /\ IsInjective(s)
  BY <1>2, Zenon DEF Injection
<1>4. \A t \in found : \E i \in 1..n : s[i] = t
  BY <1>2, Zenon DEF Surjection
<1>5. DOMAIN s = 1..n
  BY <1>3, Zenon
<1>6. \A i, j \in 1..n : s[i] = s[j] => i = j
  BY <1>3, <1>5, Zenon DEF IsInjective
<1>7. s \in Seq(found) /\ Len(s) = n
  BY <1>1, <1>3, <1>5 DEF n
<1> QED BY <1>2, <1>4, <1>6, <1>7, Zenon DEF n, Sorted

\* Tasks with distinct times have one order.
LEMMA OneOrder ==
    ASSUME NEW found, IsFiniteSet(found), Distinct(found),
           \A i \in found : table[i].createdAt \in Nat,
           NEW s \in Ordered(found), NEW t \in Ordered(found)
    PROVE  s = t
<1>1. s \in Seq(found) /\ t \in Seq(found) /\ Len(s) = Len(t) /\ Len(s) \in Nat
  <2>1. s \in Seq(found) /\ Len(s) = Cardinality(found)
    BY OrderedIs, Zenon
  <2>2. t \in Seq(found) /\ Len(t) = Cardinality(found)
    BY OrderedIs, Zenon
  <2> QED BY <2>1, <2>2
<1>4. /\ \A i, j \in 1..Len(s) : s[i] = s[j] => i = j
      /\ \A r \in found : \E i \in 1..Len(s) : s[i] = r
      /\ \A i, j \in 1..Len(s) : i < j => table[s[i]].createdAt >= table[s[j]].createdAt
  <2>1. Sorted(s, found)
    BY OrderedIs, Zenon
  <2> QED BY <2>1, Zenon DEF Sorted
<1>5. /\ \A i, j \in 1..Len(s) : t[i] = t[j] => i = j
      /\ \A r \in found : \E i \in 1..Len(s) : t[i] = r
      /\ \A i, j \in 1..Len(s) : i < j => table[t[i]].createdAt >= table[t[j]].createdAt
  <2>1. Sorted(t, found)
    BY OrderedIs, Zenon
  <2> QED BY <1>1, <2>1, Zenon DEF Sorted
<1> DEFINE Differ == {k \in 1..Len(s) : s[k] # t[k]}
<1>2. ASSUME Differ # {} PROVE FALSE
  <2>1. PICK k \in Differ : \A j \in Differ : k <= j
    <3>1. Differ \in SUBSET Nat
      BY <1>1
    <3> HIDE DEF Differ
    <3> QED BY <1>2, <3>1, LeastNatural, Zenon
  <2>2. k \in 1..Len(s) /\ s[k] # t[k] /\ s[k] \in found /\ t[k] \in found
    BY <1>1, <2>1
  <2>3. \A j \in 1..Len(s) : j < k => s[j] = t[j]
    BY <1>1, <2>1
  <2>4. PICK i \in 1..Len(s) : s[i] = t[k]
    BY <1>4, <2>2
  <2>5. PICK j \in 1..Len(s) : t[j] = s[k]
    BY <1>5, <2>2
  <2>6. i > k
    <3>1. ~(i < k)
      <4> SUFFICES ASSUME i < k PROVE FALSE
        OBVIOUS
      <4>1. t[i] = t[k]
        BY <2>3, <2>4
      <4>2. i = k
        BY <1>5, <2>2, <4>1
      <4> QED BY <4>2
    <3> QED BY <2>2, <2>4, <3>1
  <2>7. j > k
    <3>1. ~(j < k)
      <4> SUFFICES ASSUME j < k PROVE FALSE
        OBVIOUS
      <4>1. s[j] = s[k]
        BY <1>1, <2>3, <2>5
      <4>2. j = k
        BY <1>4, <2>2, <4>1
      <4> QED BY <4>2
    <3> QED BY <1>1, <2>2, <2>5, <3>1
  <2>8. table[s[k]].createdAt >= table[t[k]].createdAt
    BY <1>4, <2>2, <2>4, <2>6
  <2>9. table[t[k]].createdAt >= table[s[k]].createdAt
    BY <1>5, <2>2, <2>5, <2>7
  <2>10. table[s[k]].createdAt = table[t[k]].createdAt
    BY <2>2, <2>8, <2>9
  <2> QED BY <2>2, <2>10, Zenon DEF Distinct
<1>3. \A k \in 1..Len(s) : s[k] = t[k]
  BY <1>2
<1> QED BY <1>1, <1>3, SeqEqual

-----------------------------------------------------------------------------
(* Every step keeps the invariant. *)

\* An empty table and no walk satisfy it.
LEMMA InitInv == Init => IndInv
<1> SUFFICES ASSUME Init PROVE IndInv
  OBVIOUS
<1>1. table \in [Ids -> Row \union {None}]
  BY Zenon DEF Init
<1>2. walk.at = "idle" /\ walk = NoWalk
  BY Zenon DEF Init, NoWalk
<1>3. {touched, lost} \subseteq BOOLEAN
  BY Zenon DEF Init
<1> QED BY <1>1, <1>2, <1>3, Zenon DEF IndInv

\* A walk is in progress exactly when it is not idle.
LEMMA WalkIs ==
    ASSUME IndInv
    PROVE  walk.at # "idle" => walk \in Walking /\ walk.from <= walk.offset
<1>1. walk = NoWalk => walk.at = "idle"
  BY DEF NoWalk
<1> QED BY <1>1, Zenon DEF IndInv

\* A step that leaves the table alone finds what the new walk looks for.
LEMMA SameTable ==
    ASSUME UNCHANGED table
    PROVE  Progress(walk', Where(walk'.user, walk'.status)) => Progress(walk, Found)'
<1>1. Found' = Where(walk'.user, walk'.status)
  BY Zenon DEF Found, Where
<1> QED BY <1>1, Zenon DEF Progress, Distinct, Ordered

\* A write while a walk is in progress disturbs it.
LEMMA WriteInv ==
    ASSUME IndInv, NEW i \in Ids, Write(i)
    PROVE  IndInv'
<1>1. table' \in [Ids -> Row \union {None}]
  <2>1. CASE table[i] = None /\ \E r \in Row : table' = [table EXCEPT ![i] = r]
    BY <2>1, Zenon DEF IndInv
  <2>2. CASE table' = [table EXCEPT ![i] = None]
    BY <2>2 DEF IndInv
  <2>3. CASE table[i] # None /\ \E st \in Statuses : table' = [table EXCEPT ![i].status = st]
    <3>1. PICK st \in Statuses : table' = [table EXCEPT ![i].status = st]
      BY <2>3, Zenon
    <3>2. table[i] \in Row
      BY <2>3 DEF IndInv
    <3>3. [table[i] EXCEPT !.status = st] \in Row
      BY <3>2 DEF Row
    <3>4. table' = [table EXCEPT ![i] = [table[i] EXCEPT !.status = st]]
      BY <3>1
    <3> HIDE DEF Row
    <3> QED BY <3>3, <3>4 DEF IndInv
  <2> QED BY <2>1, <2>2, <2>3, Zenon DEF Write
<1>2. touched' = (walk.at # "idle") /\ walk' = walk /\ lost' = lost
  BY DEF Write
<1>3. {touched', lost'} \subseteq BOOLEAN
  BY <1>2, Zenon DEF IndInv
<1>4. walk'.at # "idle" => touched'
  BY <1>2, Zenon
<1> QED BY <1>1, <1>2, <1>3, <1>4, Zenon DEF IndInv

\* A walk begins with nothing seen, from its first offset.
LEMMA BeginInv ==
    ASSUME IndInv, Begin
    PROVE  IndInv'
<1>1. PICK u \in Users, st \in Statuses \union {AnyStatus}, l \in Limits, o \in Offsets :
         walk' = [at |-> "count", user |-> u, status |-> st, limit |-> Limit(l),
                  from |-> Offset(o), offset |-> Offset(o), total |-> 0, seen |-> <<>>]
  BY Zenon DEF Begin
<1>2. UNCHANGED table /\ touched' = FALSE /\ lost' = FALSE
  BY DEF Begin
<1>3. Limit(l) \in Nat \ {0} /\ Offset(o) \in Nat
  BY CallersAssumption DEF Limit, Offset
<1> DEFINE limit == Limit(l)
           from == Offset(o)
           found == Where(walk'.user, walk'.status)
           n == Cardinality(found)
<1> HIDE DEF limit, from, found
<1>4. walk' \in Walking /\ walk'.from <= walk'.offset
  <2>1. Cardinality(Ids) \in Nat
    BY IdsAssumption, FS_CardinalityType
  <2>2. walk' = [at |-> "count", user |-> u, status |-> st, limit |-> limit,
                 from |-> from, offset |-> from, total |-> 0, seen |-> <<>>]
    BY <1>1, Zenon DEF limit, from
  <2>3. limit \in Nat \ {0} /\ from \in Nat
    BY <1>3, Zenon DEF limit, from
  <2> QED BY <2>1, <2>2, <2>3 DEF Walking
<1>5. /\ walk'.at = "count" /\ walk'.seen = <<>> /\ walk'.from = from /\ walk'.offset = from
      /\ from \in Nat
  BY <1>1, <1>3 DEF from
<1>6. IsFiniteSet(found) /\ n \in Nat
  BY WhereFinite DEF IndInv, found
<1>9. from \in Int /\ n \in Int
  <2> HIDE DEF n
  <2> QED BY <1>5, <1>6
<1>7. Progress(walk', found)
  <2>1. 0 = Max({0, Min({n, from}) - from})
    <3>1. Min({n, from}) \in Int /\ Min({n, from}) - from <= 0
      <4>1. Min({n, from}) = IF n <= from THEN n ELSE from
        BY <1>9, MinMax, Zenon
      <4> HIDE DEF n
      <4> QED BY <1>5, <1>6, <4>1
    <3> DEFINE d == Min({n, from}) - from
    <3>2. d \in Int /\ d <= 0
      BY <1>5, <3>1
    <3> HIDE DEF d
    <3>3. Max({0, d}) = 0
      BY <3>2, MinMax
    <3> QED BY <3>3 DEF d
  <2>2. ASSUME NEW s \in Ordered(found)
        PROVE  <<>> = SubSeq(s, from + 1, Min({Len(s), from}))
    <3>1. s \in Seq(found)
      BY <1>6, OrderedIs, Zenon
    <3>2. Min({Len(s), from}) \in Int /\ Min({Len(s), from}) < from + 1
      <4>1. Len(s) \in Int
        BY <3>1
      <4>2. Min({Len(s), from}) = IF Len(s) <= from THEN Len(s) ELSE from
        BY <1>9, <4>1, MinMax, Zenon
      <4> QED BY <1>9, <4>1, <4>2
    <3> DEFINE m == Min({Len(s), from})
    <3>3. m \in Int /\ m < from + 1
      BY <3>2
    <3> HIDE DEF m
    <3>4. SubSeq(s, from + 1, m) = <<>>
      BY <1>5, <3>1, <3>3
    <3> QED BY <3>4, Zenon DEF m
  <2>3. Len(<<>>) = 0
    OBVIOUS
  <2>4. "count" # "done"
    OBVIOUS
  <2> QED BY <1>5, <2>1, <2>2, <2>3, <2>4, Zenon DEF Progress, Between
<1>8. Progress(walk, Found)'
  BY <1>2, <1>7, SameTable, Zenon DEF found
<1> QED BY <1>2, <1>4, <1>8, Zenon DEF IndInv

\* COUNT tells how many there are.
LEMMA ListCountInv ==
    ASSUME IndInv, ListCount
    PROVE  IndInv'
<1> DEFINE found == Where(walk.user, walk.status)
<1>1. /\ walk.at = "count" /\ walk' = [walk EXCEPT !.at = "page", !.total = Cardinality(found)]
      /\ UNCHANGED <<table, touched, lost>>
  BY DEF ListCount, Count
<1>2. walk \in Walking /\ walk.from <= walk.offset
  BY <1>1, WalkIs
<1>3. Cardinality(found) \in 0..Cardinality(Ids)
  BY WhereFinite DEF IndInv
<1> HIDE DEF found
<1>4. /\ walk' \in Walking /\ walk'.at = "page" /\ walk'.total = Cardinality(found)
      /\ walk'.from = walk.from /\ walk'.offset = walk.offset /\ walk'.seen = walk.seen
      /\ walk'.user = walk.user /\ walk'.status = walk.status
  BY <1>1, <1>2, <1>3, Zenon DEF Walking
<1>5. ASSUME ~touched, ~lost PROVE Progress(walk, Found)'
  <2>1. Progress(walk, found)
    BY <1>1, <1>5 DEF IndInv, Found, found
  <2>2. Progress(walk', found)
    BY <1>4, <2>1 DEF Progress
  <2> QED BY <1>1, <1>4, <2>2, SameTable, Zenon DEF found
<1> QED BY <1>1, <1>2, <1>4, <1>5, Zenon DEF IndInv

\* What a page that came adds to the walk.
LEMMA GotFields ==
    ASSUME walk \in Walking, walk.from <= walk.offset, NEW rows \in Seq(Ids), Got(rows)
    PROVE  /\ walk' \in Walking /\ walk'.from <= walk'.offset
           /\ walk'.user = walk.user /\ walk'.status = walk.status /\ walk'.from = walk.from
           /\ walk'.total = walk.total /\ walk'.offset = walk.offset + walk.limit
           /\ walk'.seen = walk.seen \o rows
           /\ walk'.at = IF walk.offset + walk.limit >= walk.total THEN "done" ELSE "count"
<1> DEFINE seen == walk.seen \o rows
           offset == walk.offset + walk.limit
           at == IF offset >= walk.total THEN "done" ELSE "count"
<1>1. /\ walk.limit \in Nat /\ walk.from \in Nat /\ walk.offset \in Nat
      /\ walk.seen \in Seq(Ids)
  BY DEF Walking
<1>2. offset \in Nat /\ walk.from <= offset
  BY <1>1
<1>3. seen \in Seq(Ids)
  BY <1>1, ConcatProperties, Zenon
<1>4. walk' = [walk EXCEPT !.seen = seen, !.offset = offset, !.at = at]
  BY DEF Got
<1>5. at \in {"count", "page", "done"}
  OBVIOUS
<1>6. /\ at = IF walk.offset + walk.limit >= walk.total THEN "done" ELSE "count"
      /\ offset = walk.offset + walk.limit /\ seen = walk.seen \o rows
  OBVIOUS
<1> HIDE DEF seen, offset, at
<1>7. /\ walk' \in Walking
      /\ walk'.user = walk.user /\ walk'.status = walk.status /\ walk'.from = walk.from
      /\ walk'.total = walk.total /\ walk'.offset = offset /\ walk'.seen = seen /\ walk'.at = at
  BY <1>2, <1>3, <1>4, <1>5, Zenon DEF Walking
<1> QED BY <1>2, <1>6, <1>7, Zenon

\* The lengths of the pages add up: what lies between the first offset and the
\* next one, of n tasks.
LEMMA LengthsAdd ==
    ASSUME NEW n \in Nat, NEW from \in Nat, NEW offset \in Nat, NEW limit \in Nat \ {0},
           from <= offset
    PROVE  Between(n, from, offset) + Rest(n, limit, offset) = Between(n, from, offset + limit)
<1>1. /\ Min({n, offset}) = IF n <= offset THEN n ELSE offset
      /\ Min({n, offset + limit}) = IF n <= offset + limit THEN n ELSE offset + limit
  BY MinMax
<1> DEFINE a == Min({n, offset}) - from
           b == Min({n, offset + limit}) - from
<1>2. a \in Int /\ b \in Int
  BY <1>1
<1>3. Max({0, a}) = (IF 0 <= a THEN a ELSE 0) /\ Max({0, b}) = (IF 0 <= b THEN b ELSE 0)
  <2> HIDE DEF a, b
  <2>1. 0 \in Int
    OBVIOUS
  <2> QED BY <1>2, <2>1, MinMax, Zenon
<1> QED BY <1>1, <1>3 DEF Rest, Between

\* A whole page takes an undisturbed walk on; a page cut short disturbs it.
LEMMA ListPageInv ==
    ASSUME IndInv, ListPage
    PROVE  IndInv'
<1> DEFINE found == Where(walk.user, walk.status)
<1>1. walk.at = "page" /\ UNCHANGED <<table, touched>>
  BY DEF ListPage
<1>2. PICK s \in Ordered(found) :
         \/ Got(Page(s, walk.limit, walk.offset)) /\ UNCHANGED lost
         \/ \E n \in 0..(Len(Page(s, walk.limit, walk.offset)) - 1) :
               Got(SubSeq(Page(s, walk.limit, walk.offset), 1, n)) /\ lost' = TRUE
  BY Zenon DEF ListPage
<1>3. walk \in Walking /\ walk.from <= walk.offset
  BY <1>1, WalkIs, Zenon
<1>4. /\ walk.limit \in Nat \ {0} /\ walk.from \in Nat /\ walk.offset \in Nat
      /\ walk.seen \in Seq(Ids)
  BY <1>3 DEF Walking
<1>5. /\ IsFiniteSet(found) /\ Cardinality(found) \in Nat /\ found \subseteq Ids
      /\ \A i \in found : table[i].createdAt \in Nat
  BY WhereFinite DEF IndInv
<1> DEFINE page == Page(s, walk.limit, walk.offset)
<1> HIDE DEF found
<1>6. s \in Seq(found) /\ s \in Seq(Ids) /\ Len(s) = Cardinality(found)
  <2>1. s \in Seq(found) /\ Len(s) = Cardinality(found)
    BY <1>5, OrderedIs, Zenon
  <2> QED BY <1>5, <2>1
<1>7. /\ page \in Seq(Ids)
      /\ Len(page) = Rest(Len(s), walk.limit, walk.offset)
  BY <1>4, <1>6, PageIs, Zenon
<1>8. CASE \E n \in 0..(Len(page) - 1) : Got(SubSeq(page, 1, n)) /\ lost' = TRUE
  <2>1. PICK n \in 0..(Len(page) - 1) : Got(SubSeq(page, 1, n))
    BY <1>8, Zenon
  <2>2. SubSeq(page, 1, n) \in Seq(Ids)
    <3> HIDE DEF page
    <3> QED BY <1>7
  <2>3. walk' \in Walking /\ walk'.from <= walk'.offset
    BY <1>3, <2>1, <2>2, GotFields, Zenon
  <2> QED BY <1>1, <1>8, <2>3, Zenon DEF IndInv
<1>9. CASE Got(page) /\ UNCHANGED lost
  <2> HIDE DEF page
  <2>1. /\ walk' \in Walking /\ walk'.from <= walk'.offset
        /\ walk'.user = walk.user /\ walk'.status = walk.status /\ walk'.from = walk.from
        /\ walk'.total = walk.total /\ walk'.offset = walk.offset + walk.limit
        /\ walk'.seen = walk.seen \o page
        /\ walk'.at = IF walk.offset + walk.limit >= walk.total THEN "done" ELSE "count"
    BY <1>3, <1>7, <1>9, GotFields, Zenon
  <2>2. ASSUME ~touched, ~lost PROVE Progress(walk', found)
    <3>1. Progress(walk, found)
      BY <1>1, <2>2 DEF IndInv, Found, found
    <3>2. /\ walk.total = Cardinality(found)
          /\ Len(walk.seen) = Between(Cardinality(found), walk.from, walk.offset)
          /\ Distinct(found) => \A t \in Ordered(found) :
                walk.seen = SubSeq(t, walk.from + 1, Min({Len(t), walk.offset}))
      BY <1>1, <3>1, Zenon DEF Progress
    <3>3. walk'.at = "done" => walk'.offset >= walk'.total /\ Ordered(found) # {}
      BY <1>2, <2>1
    <3>4. Len(walk'.seen) = Between(Cardinality(found), walk'.from, walk'.offset)
      <4>1. Len(walk'.seen) = Len(walk.seen) + Len(page)
        <5>1. Len(walk.seen \o page) = Len(walk.seen) + Len(page)
          BY <1>4, <1>7, ConcatProperties, Zenon
        <5> QED BY <2>1, <5>1, Zenon
      <4>2. Len(walk.seen) + Len(page)
               = Between(Cardinality(found), walk.from, walk.offset + walk.limit)
        <5>1. Len(page) = Rest(Cardinality(found), walk.limit, walk.offset)
          BY <1>6, <1>7, Zenon
        <5>2. Between(Cardinality(found), walk.from, walk.offset)
                 + Rest(Cardinality(found), walk.limit, walk.offset)
              = Between(Cardinality(found), walk.from, walk.offset + walk.limit)
          <6> DEFINE Add(n, from, offset, limit) ==
                       Between(n, from, offset) + Rest(n, limit, offset)
                          = Between(n, from, offset + limit)
          <6>1. ASSUME NEW n \in Nat, NEW from \in Nat, NEW offset \in Nat,
                       NEW limit \in Nat \ {0}, from <= offset
                PROVE  Add(n, from, offset, limit)
            BY <6>1, LengthsAdd
          <6> HIDE DEF Add
          <6>2. Add(Cardinality(found), walk.from, walk.offset, walk.limit)
            BY <1>3, <1>4, <1>5, <6>1, Zenon
          <6> QED BY <6>2, Zenon DEF Add
        <5> QED BY <3>2, <5>1, <5>2, Zenon
      <4> QED BY <2>1, <4>1, <4>2, Zenon
    <3>5. ASSUME Distinct(found), NEW t \in Ordered(found)
          PROVE  walk'.seen = SubSeq(t, walk'.from + 1, Min({Len(t), walk'.offset}))
      <4>1. t = s
        BY <1>5, <3>5, OneOrder, Zenon
      <4>2. walk.seen = SubSeq(s, walk.from + 1, Min({Len(s), walk.offset}))
        BY <3>2, <3>5, Zenon
      <4>3. SubSeq(s, walk.from + 1, Min({Len(s), walk.offset})) \o page
               = SubSeq(s, walk.from + 1, Min({Len(s), walk.offset + walk.limit}))
        BY <1>3, <1>4, <1>6, PagesJoin, Zenon DEF page
      <4> QED BY <2>1, <4>1, <4>2, <4>3, Zenon
    <3> QED BY <2>1, <3>2, <3>3, <3>4, <3>5, Zenon DEF Progress
  <2>3. ASSUME ~touched, ~lost PROVE Progress(walk, Found)'
    BY <1>1, <2>1, <2>2, <2>3, SameTable, Zenon DEF found
  <2> QED BY <1>1, <1>9, <2>1, <2>3, Zenon DEF IndInv
<1> QED BY <1>2, <1>8, <1>9, Zenon

\* A walk that ends leaves nothing behind.
LEMMA EndInv ==
    ASSUME IndInv, End
    PROVE  IndInv'
<1>1. walk' = NoWalk /\ touched' = FALSE /\ lost' = FALSE /\ UNCHANGED table
  BY DEF End
<1>2. walk'.at = "idle"
  BY <1>1 DEF NoWalk
<1> QED BY <1>1, <1>2, Zenon DEF IndInv

\* The inductive invariant holds in every reachable state.
THEOREM Invariance == Spec => []IndInv
<1>1. IndInv /\ [Next]_vars => IndInv'
  <2> SUFFICES ASSUME IndInv, [Next]_vars PROVE IndInv'
    OBVIOUS
  <2>1. CASE Next
    BY <2>1, WriteInv, BeginInv, ListCountInv, ListPageInv, EndInv, Zenon DEF Next
  <2>2. CASE UNCHANGED vars
    <3>1. UNCHANGED <<table, walk, touched, lost>>
      BY <2>2, Zenon DEF vars
    <3>2. Progress(walk, Found) => Progress(walk, Found)'
      BY <3>1, SameTable, Zenon DEF Found
    <3> QED BY <3>1, <3>2, Zenon DEF IndInv
  <2> QED BY <2>1, <2>2, Zenon
<1> QED BY <1>1, InitInv, PTL DEF Spec

-----------------------------------------------------------------------------
(* What List promises. *)

\* The table holds rows, and whatever the caller sent, a walk has a positive
\* limit, an offset that is not negative and a total of tasks that exist.
THEOREM TypeCorrect == Spec => []TypeOK
<1>1. ASSUME IndInv PROVE TypeOK
  <2>1. walk.at = "idle" \/ walk.at \in {"count", "page", "done"}
    BY <1>1, WalkIs DEF Walking
  <2>2. walk.at # "idle" =>
           walk.limit > 0 /\ walk.offset >= 0 /\ walk.total \in 0..Cardinality(Ids)
    BY <1>1, WalkIs DEF Walking
  <2>3. table \in [Ids -> Row \union {None}] /\ {touched, lost} \subseteq BOOLEAN
    BY <1>1, Zenon DEF IndInv
  <2>4. walk.at \in {"idle", "count", "page", "done"}
    BY <2>1
  <2> QED BY <2>2, <2>3, <2>4, Zenon DEF TypeOK
<1> QED BY <1>1, Invariance, PTL

\* Pages that no write and no lost connection disturbed hold together as many
\* tasks as COUNT promised beyond the first offset, for any limit.
THEOREM PagesAddUp == Spec => []PagesMatchTotal
<1>1. ASSUME IndInv, Done PROVE Len(walk.seen) = Max({0, walk.total - walk.from})
  <2>1. walk.at = "done" /\ ~touched /\ ~lost
    BY <1>1 DEF Done
  <2>2. walk \in Walking
    BY <1>1, <2>1, WalkIs
  <2>3. /\ walk.total = Cardinality(Found) /\ walk.offset >= walk.total
        /\ Len(walk.seen) = Max({0, Min({Cardinality(Found), walk.offset}) - walk.from})
    BY <1>1, <2>1 DEF IndInv, Progress, Between
  <2>4. walk.total \in Int /\ walk.offset \in Int
    BY <2>2 DEF Walking
  <2>5. Min({walk.total, walk.offset}) = walk.total
    BY <2>3, <2>4, MinMax
  <2> QED BY <2>3, <2>5, Zenon
<1>2. IndInv => PagesMatchTotal
  BY <1>1, Zenon DEF PagesMatchTotal
<1> QED BY <1>2, Invariance, PTL

\* If moreover no two of the tasks have the same created_at, a walk from the
\* first page shows every matching task of the user once, newest first.
THEOREM WalksAreComplete == Spec => []WalkComplete
<1>1. ASSUME IndInv, Done, walk.from = 0, Cardinality(Times) = Cardinality(Found)
      PROVE  /\ Len(walk.seen) = Cardinality(Found)
             /\ {walk.seen[k] : k \in DOMAIN walk.seen} = Found
             /\ \A j, k \in DOMAIN walk.seen :
                   j < k => table[walk.seen[j]].createdAt > table[walk.seen[k]].createdAt
  <2>1. walk.at = "done" /\ ~touched /\ ~lost
    BY <1>1 DEF Done
  <2>2. walk \in Walking
    BY <1>1, <2>1, WalkIs
  <2>3. walk.total = Cardinality(Found) /\ walk.offset >= walk.total
    BY <1>1, <2>1 DEF IndInv, Progress
  <2>4. PICK s \in Ordered(Found) : TRUE
    BY <1>1, <2>1 DEF IndInv, Progress
  <2>5. /\ IsFiniteSet(Found) /\ Cardinality(Found) \in Nat
        /\ \A i \in Found : table[i].createdAt \in Nat
    BY <1>1, WhereFinite DEF IndInv, Found
  <2>6. Distinct(Found)
    <3> DEFINE f == [i \in Found |-> table[i].createdAt]
    <3>1. f \in Surjection(Found, Times)
      BY Zenon DEF Surjection, Times
    <3>2. f \in Injection(Found, Times)
      BY <1>1, <2>5, <3>1, FS_Surjection, Zenon
    <3> QED BY <3>2, Zenon DEF Injection, IsInjective, Distinct
  <2>7. walk.seen = SubSeq(s, walk.from + 1, Min({Len(s), walk.offset}))
    BY <1>1, <2>1, <2>6, Zenon DEF IndInv, Progress
  <2>8. /\ s \in Seq(Found) /\ Len(s) = Cardinality(Found)
        /\ \A i, j \in 1..Len(s) : s[i] = s[j] => i = j
        /\ \A t \in Found : \E i \in 1..Len(s) : s[i] = t
        /\ \A i, j \in 1..Len(s) : i < j => table[s[i]].createdAt >= table[s[j]].createdAt
    <3>1. s \in Seq(Found) /\ Len(s) = Cardinality(Found) /\ Sorted(s, Found)
      BY <2>5, OrderedIs, Zenon
    <3> QED BY <3>1, Zenon DEF Sorted
  <2>9. walk.seen = s
    <3>1. walk.offset \in Int /\ Len(s) \in Int
      BY <2>2, <2>8 DEF Walking
    <3>2. Min({Len(s), walk.offset}) = Len(s)
      BY <2>3, <2>8, <3>1, MinMax
    <3>3. walk.seen = SubSeq(s, 1, Len(s))
      <4>1. walk.from + 1 = 1
        BY <1>1
      <4> QED BY <2>7, <3>2, <4>1, Zenon
    <3> QED BY <2>8, <3>3
  <2>10. DOMAIN s = 1..Len(s) /\ \A i \in 1..Len(s) : s[i] \in Found
    BY <2>8
  <2>11. {s[k] : k \in 1..Len(s)} = Found
    BY <2>8, <2>10
  <2>12. ASSUME NEW j \in 1..Len(s), NEW k \in 1..Len(s), j < k
         PROVE  table[s[j]].createdAt > table[s[k]].createdAt
    <3>1. table[s[j]].createdAt >= table[s[k]].createdAt
      BY <2>8, <2>12
    <3>2. s[j] # s[k]
      BY <2>8, <2>12
    <3>3. table[s[j]].createdAt # table[s[k]].createdAt
      BY <2>6, <2>10, <3>2, Zenon DEF Distinct
    <3>4. table[s[j]].createdAt \in Nat /\ table[s[k]].createdAt \in Nat
      BY <2>5, <2>10, Zenon
    <3> QED BY <3>1, <3>3, <3>4
  <2>13. /\ Len(s) = Cardinality(Found) /\ {s[k] : k \in DOMAIN s} = Found
         /\ \A j, k \in DOMAIN s : j < k => table[s[j]].createdAt > table[s[k]].createdAt
    BY <2>8, <2>10, <2>11, <2>12
  <2> QED BY <2>9, <2>13
<1>2. IndInv => WalkComplete
  BY <1>1, Zenon DEF WalkComplete
<1> QED BY <1>2, Invariance, PTL
=============================================================================

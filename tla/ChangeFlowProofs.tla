-------------------------- MODULE ChangeFlowProofs ---------------------------
(***************************************************************************)
(* The safety of the change scripts for any people and any bounds: no push *)
(* loses work, master only grows and a merge adds one commit to it, the    *)
(* review loop reports success only of fixes it has reviewed and pushed.   *)
(***************************************************************************)
EXTENDS ChangeFlow, SequenceTheorems, TLAPS

\* A history, in which each commit holds the work of those before it.
Subjects == {"initial", "commit", "review fixes", "meanwhile", Subject}
Record == [tree : SUBSET Nat, subject : Subjects]
History == {h \in Seq(Record) :
              \A i, j \in 1..Len(h) : i <= j => h[i].tree \subseteq h[j].tree}
Clone == [master : History, change : History, originMaster : History, originChange : History]
Places == {"idle", "implement", "pass", "review", "approved", "fix", "fetched", "squash",
           "update", "checkout", "pull", "merge", "push", "verify", "delete"}
Script == [at : Places, head : History, squash : History,
           reviewed : SUBSET Nat, fixed : SUBSET Nat, fixes : Nat]

TypeInv ==
    /\ master \in History /\ branch \in History
    /\ ref \in [Users -> Clone]
    /\ cur \in [Users -> {"master", "change"}]
    /\ edits \in [Users -> SUBSET Nat]
    /\ proc \in [Users -> Script]
    /\ work \in Nat /\ published \subseteq Nat

\* What the last fix left is in the tree when the next pass begins, in what the
\* pass has reviewed afterwards, and on the remote all the time.
ReviewInv(u) ==
    /\ proc[u].at \in {"pass", "review", "approved"} => proc[u].fixed \subseteq published
    /\ At(u, "pass") => proc[u].fixed \subseteq Tree(Tip(u))
    /\ proc[u].at \in {"review", "approved"} => proc[u].fixed \subseteq proc[u].reviewed

\* What a clone takes for master is or was master.  From the verification to
\* the push the squash commit stands on what was master then and holds the
\* verified tree; when the branch is deleted, it is on master.
MergeInv(u) ==
    /\ IsAncestor(ref[u].originMaster, master)
    /\ proc[u].at \in {"squash", "update", "checkout", "pull", "merge", "push"} =>
          /\ proc[u].squash # NoRef
          /\ IsAncestor(Parent(proc[u].squash), master)
          /\ Tree(proc[u].squash) = Tree(proc[u].head)
    /\ At(u, "delete") => IsAncestor(proc[u].squash, master)

UserInv(u) == ReviewInv(u) /\ MergeInv(u)

IndInv == TypeInv /\ NothingPushedIsLost /\ \A u \in Users : UserInv(u)

\* Action: master is never rewritten, only extended.
MasterGrows == [][IsAncestor(master, master')]_vars
-----------------------------------------------------------------------------
(* Histories. *)

\* An ancestor, commit by commit.
LEMMA AncestorElements ==
    ASSUME NEW h \in Seq(Record), NEW g \in Seq(Record)
    PROVE  IsAncestor(h, g) <=> Len(h) <= Len(g) /\ \A i \in 1..Len(h) : h[i] = g[i]
<1>1. Len(h) \in Nat /\ Len(g) \in Nat
  OBVIOUS
<1>2. ASSUME Len(h) <= Len(g)
      PROVE  SubSeq(g, 1, Len(h)) = h <=> \A i \in 1..Len(h) : h[i] = g[i]
  <2> DEFINE b == SubSeq(g, 1, Len(h))
  <2>1. b \in Seq(Record) /\ Len(b) = Len(h) /\ \A i \in 1..Len(h) : b[i] = g[i]
    BY <1>1, <1>2
  <2>2. (\A i \in 1..Len(h) : h[i] = g[i]) => b = h
    <3> HIDE DEF b
    <3> QED BY <1>1, <2>1, SeqEqual
  <2> QED BY <2>1, <2>2
<1> QED BY <1>1, <1>2 DEF IsAncestor

\* A commit is an ancestor of itself.
LEMMA AncestorReflexive ==
    ASSUME NEW h \in History
    PROVE  IsAncestor(h, h)
<1>1. h \in Seq(Record)
  BY DEF History
<1> QED BY <1>1, AncestorElements

\* An ancestor of an ancestor is one.
LEMMA AncestorTransitive ==
    ASSUME NEW h \in History, NEW g \in History, NEW k \in History,
           IsAncestor(h, g), IsAncestor(g, k)
    PROVE  IsAncestor(h, k)
<1>1. h \in Seq(Record) /\ g \in Seq(Record) /\ k \in Seq(Record)
  BY DEF History
<1>2. Len(h) \in Nat /\ Len(g) \in Nat /\ Len(k) \in Nat
  BY <1>1
<1>3. Len(h) <= Len(g) /\ \A i \in 1..Len(h) : h[i] = g[i]
  BY <1>1, AncestorElements
<1>4. Len(g) <= Len(k) /\ \A i \in 1..Len(g) : g[i] = k[i]
  BY <1>1, AncestorElements
<1>5. Len(h) <= Len(k) /\ \A i \in 1..Len(h) : h[i] = k[i]
  BY <1>2, <1>3, <1>4
<1> QED BY <1>1, <1>5, AncestorElements

\* The tree of a history is a set of work, and no history is smaller than the
\* histories it extends.
LEMMA TreeType ==
    ASSUME NEW h \in History
    PROVE  /\ Tree(h) \in SUBSET Nat
           /\ h # NoRef => Len(h) \in 1..Len(h) /\ Tree(h) = h[Len(h)].tree
           /\ NoRef \in History
<1>1. h \in Seq(Record) /\ NoRef \in History
  BY DEF History, NoRef
<1>2. h # NoRef => Len(h) \in 1..Len(h) /\ h[Len(h)] \in Record
  BY <1>1 DEF NoRef
<1> QED BY <1>1, <1>2 DEF Tree, Record

\* A later tree of a history holds the work of an earlier one.
LEMMA AncestorTree ==
    ASSUME NEW h \in History, NEW g \in History, IsAncestor(h, g)
    PROVE  Tree(h) \subseteq Tree(g)
<1>1. CASE h = NoRef
  BY <1>1 DEF Tree
<1>2. CASE h # NoRef
  <2>1. h \in Seq(Record) /\ g \in Seq(Record)
    BY DEF History
  <2>2. Len(h) <= Len(g) /\ Len(h) \in 1..Len(h) /\ h[Len(h)] = g[Len(h)]
    BY <1>2, <2>1, TreeType, AncestorElements
  <2>3. g # NoRef /\ Len(h) \in 1..Len(g) /\ Len(g) \in 1..Len(g)
    BY <2>1, <2>2 DEF NoRef
  <2>4. g[Len(h)].tree \subseteq g[Len(g)].tree
    BY <2>2, <2>3 DEF History
  <2> QED BY <1>2, <2>2, <2>3, <2>4, TreeType
<1> QED BY <1>1, <1>2

\* A commit with at least the work of its parent makes a history.
LEMMA CommitHistory ==
    ASSUME NEW h \in History, NEW tree \in SUBSET Nat, NEW subject \in Subjects,
           Tree(h) \subseteq tree
    PROVE  /\ Commit(h, tree, subject) \in History /\ Commit(h, tree, subject) # NoRef
           /\ Tree(Commit(h, tree, subject)) = tree
           /\ Parent(Commit(h, tree, subject)) = h
           /\ IsAncestor(h, Commit(h, tree, subject))
<1> DEFINE r == [tree |-> tree, subject |-> subject]
           c == Commit(h, tree, subject)
<1>1. h \in Seq(Record) /\ r \in Record
  BY DEF History, Record
<1>2. c = Append(h, r)
  BY DEF Commit
<1> HIDE DEF c, r
<1>3. /\ c \in Seq(Record) /\ Len(c) = Len(h) + 1 /\ Len(h) \in Nat
      /\ \A i \in 1..Len(h) : c[i] = h[i]
      /\ c[Len(h) + 1] = r
  BY <1>1, <1>2
<1>4. c # NoRef
  BY <1>3 DEF NoRef
<1>5. Tree(c) = tree
  BY <1>3, <1>4 DEF Tree, r
<1>6. \A i \in 1..Len(h) : h[i].tree \subseteq tree
  <2> SUFFICES ASSUME NEW i \in 1..Len(h) PROVE h[i].tree \subseteq tree
    OBVIOUS
  <2>1. h # NoRef /\ Len(h) \in 1..Len(h) /\ i <= Len(h)
    BY <1>3 DEF NoRef
  <2>2. h[i].tree \subseteq h[Len(h)].tree
    BY <2>1 DEF History
  <2> QED BY <2>1, <2>2, TreeType
<1>7. c \in History
  <2> SUFFICES ASSUME NEW i \in 1..Len(c), NEW j \in 1..Len(c), i <= j
               PROVE  c[i].tree \subseteq c[j].tree
    BY <1>3 DEF History
  <2>1. CASE j \in 1..Len(h)
    <3>1. i \in 1..Len(h)
      BY <1>3, <2>1
    <3> QED BY <1>3, <2>1, <3>1 DEF History
  <2>2. CASE j = Len(h) + 1
    <3>1. c[j].tree = tree
      BY <1>3, <2>2 DEF r
    <3>2. i \in 1..Len(h) \/ i = Len(h) + 1
      BY <1>3
    <3> QED BY <1>3, <1>6, <2>2, <3>1, <3>2
  <2> QED BY <1>3, <2>1, <2>2
<1>8. IsAncestor(h, c)
  BY <1>1, <1>3, AncestorElements
<1>9. Parent(c) = h
  <2>1. /\ Parent(c) \in Seq(Record) /\ Len(Parent(c)) = Len(h)
        /\ \A i \in 1..Len(h) : Parent(c)[i] = c[i]
    BY <1>3, SubSeqProperties DEF Parent
  <2> QED BY <1>1, <1>3, <2>1, SeqEqual
<1> QED BY <1>4, <1>5, <1>7, <1>8, <1>9, Zenon DEF c

\* Between the parent of a commit and the commit there is no third history.
LEMMA NothingBetween ==
    ASSUME NEW s \in History, s # NoRef, NEW m \in History,
           IsAncestor(Parent(s), m), IsAncestor(m, s)
    PROVE  m = s \/ m = Parent(s)
<1>1. s \in Seq(Record) /\ m \in Seq(Record) /\ Len(s) \in Nat \ {0} /\ Len(m) \in Nat
  BY DEF History, NoRef
<1>2. /\ Parent(s) \in Seq(Record) /\ Len(Parent(s)) = Len(s) - 1
      /\ \A i \in 1..(Len(s) - 1) : Parent(s)[i] = s[i]
  <2> DEFINE n == Len(s) - 1
  <2>1. n \in Nat /\ \A i \in 1..n : s[i] \in Record
    BY <1>1
  <2> HIDE DEF n
  <2>2. /\ SubSeq(s, 1, n) \in Seq(Record) /\ Len(SubSeq(s, 1, n)) = n
        /\ \A i \in 1..n : SubSeq(s, 1, n)[i] = s[i]
    BY <2>1, SubSeqProperties
  <2> QED BY <2>2 DEF Parent, n
<1>3. Len(Parent(s)) <= Len(m) /\ Len(m) <= Len(s) /\ \A i \in 1..Len(m) : m[i] = s[i]
  BY <1>1, <1>2, AncestorElements
<1>4. CASE Len(m) = Len(s)
  BY <1>1, <1>3, <1>4, SeqEqual
<1>5. CASE Len(m) = Len(s) - 1
  BY <1>1, <1>2, <1>3, <1>5, SeqEqual
<1> QED BY <1>1, <1>2, <1>3, <1>4, <1>5
\* What a commit stands on is a history.
LEMMA ParentHistory ==
    ASSUME NEW s \in History, s # NoRef
    PROVE  Parent(s) \in History
<1>1. s \in Seq(Record) /\ Len(s) \in Nat \ {0}
  BY DEF History, NoRef
<1> DEFINE n == Len(s) - 1
<1>2. n \in Nat /\ n <= Len(s) /\ \A i \in 1..n : s[i] \in Record /\ i \in 1..Len(s)
  BY <1>1
<1>3. Parent(s) = SubSeq(s, 1, n)
  BY DEF Parent
<1> HIDE DEF n
<1>4. /\ Parent(s) \in Seq(Record) /\ Len(Parent(s)) = n
      /\ \A i \in 1..n : Parent(s)[i] = s[i]
  BY <1>2, <1>3, SubSeqProperties
<1> QED BY <1>2, <1>4 DEF History

-----------------------------------------------------------------------------
(* Steps. *)

\* Init's clones all stand on the first commit.
LEMMA InitInv == Init => IndInv
<1> SUFFICES ASSUME Init PROVE IndInv
  OBVIOUS
<1> DEFINE first == Commit(NoRef, {}, "initial")
<1>1. NoRef \in History
  BY DEF NoRef, History
<1>2. first \in History
  <2>1. Tree(NoRef) \subseteq {}
    BY Zenon DEF Tree
  <2> QED BY <1>1, <2>1, CommitHistory, Zenon DEF Subjects
<1> HIDE DEF first
<1>3. /\ master = first /\ branch = NoRef
      /\ ref = [u \in Users |-> [master |-> first, change |-> NoRef,
                                 originMaster |-> first, originChange |-> NoRef]]
      /\ cur = [u \in Users |-> "master"]
      /\ edits = [u \in Users |-> {}]
      /\ proc = [u \in Users |-> Idle]
      /\ work = 0 /\ published = {}
  BY Zenon DEF Init, first
<1>4. Idle \in Script
  BY <1>1 DEF Idle, Script, Places
<1>5. TypeInv
  <2>1. ref \in [Users -> Clone]
    BY <1>1, <1>2, <1>3 DEF Clone
  <2> QED BY <1>1, <1>2, <1>3, <1>4, <2>1 DEF TypeInv
<1>6. NothingPushedIsLost
  BY <1>3 DEF NothingPushedIsLost
<1>7. ASSUME NEW u \in Users PROVE UserInv(u)
  <2>1. proc[u].at = "idle" /\ ref[u].originMaster = master
    BY <1>3 DEF Idle
  <2>2. IsAncestor(ref[u].originMaster, master)
    BY <1>2, <1>3, <2>1, AncestorReflexive
  <2> QED BY <2>1, <2>2 DEF UserInv, ReviewInv, MergeInv, At
<1> QED BY <1>5, <1>6, <1>7 DEF IndInv

\* While master and what is published only grow, nobody else's step disturbs
\* what holds of a clone.
LEMMA OthersKept ==
    ASSUME IndInv, TypeInv', NEW v \in Users,
           ref'[v] = ref[v], cur'[v] = cur[v], proc'[v] = proc[v],
           IsAncestor(master, master'), published \subseteq published'
    PROVE  UserInv(v)'
<1>1. /\ proc[v] \in Script /\ ref[v] \in Clone
      /\ master \in History /\ master' \in History
  BY DEF IndInv, TypeInv
<1>2. UserInv(v)
  BY DEF IndInv
<1>3. proc[v].squash \in History /\ ref[v].originMaster \in History
  BY <1>1 DEF Script, Clone
<1>5. ReviewInv(v)'
  BY <1>2 DEF UserInv, ReviewInv, At, Tip, Tree
<1>6. MergeInv(v)'
  <2>1. IsAncestor(ref[v].originMaster, master')
    BY <1>1, <1>2, <1>3, AncestorTransitive DEF UserInv, MergeInv
  <2>2. ASSUME proc[v].at \in {"squash", "update", "checkout", "pull", "merge", "push"}
        PROVE  IsAncestor(Parent(proc[v].squash), master')
    BY <1>1, <1>2, <1>3, <2>2, ParentHistory, AncestorTransitive DEF UserInv, MergeInv
  <2>3. ASSUME At(v, "delete")
        PROVE  IsAncestor(proc[v].squash, master')
    BY <1>1, <1>2, <1>3, <2>3, AncestorTransitive DEF UserInv, MergeInv
  <2> QED BY <1>2, <2>1, <2>2, <2>3 DEF UserInv, MergeInv, At
<1> QED BY <1>5, <1>6 DEF UserInv

\* A step in one clone has to care for that clone and for the remote.
LEMMA StepInv ==
    ASSUME IndInv, TypeInv', NothingPushedIsLost', NEW u \in Users, UserInv(u)',
           \A v \in Users \ {u} : ref'[v] = ref[v] /\ cur'[v] = cur[v] /\ proc'[v] = proc[v],
           IsAncestor(master, master'), published \subseteq published'
    PROVE  IndInv'
<1>1. \A v \in Users \ {u} : UserInv(v)'
  BY OthersKept
<1> QED BY <1>1 DEF IndInv

\* Someone edits a file, maybe while a script runs.
LEMMA EditInv == ASSUME IndInv, NEW u \in Users, Edit(u) PROVE IndInv'
<1>1. /\ UNCHANGED <<master, branch, ref, cur, proc, published>>
      /\ work' = work + 1
      /\ edits' = [edits EXCEPT ![u] = @ \union {work'}]
  BY DEF Edit
<1>2. work \in Nat /\ edits \in [Users -> SUBSET Nat] /\ master \in History
  BY DEF IndInv, TypeInv
<1>3. edits' \in [Users -> SUBSET Nat] /\ work' \in Nat
  BY <1>1, <1>2
<1>4. TypeInv'
  BY <1>1, <1>3, Zenon DEF IndInv, TypeInv
<1>5. NothingPushedIsLost'
  BY <1>1 DEF IndInv, NothingPushedIsLost
<1>6. UserInv(u)'
  BY <1>1 DEF IndInv, UserInv, ReviewInv, MergeInv, Tip, At, Tree
<1>7. IsAncestor(master, master')
  BY <1>1, <1>2, AncestorReflexive
<1> QED BY <1>1, <1>4, <1>5, <1>6, <1>7, StepInv

\* A script moves on, or ends, and nothing else changes.
LEMMA ScriptInv ==
    ASSUME IndInv, NEW u \in Users, UserInv(u)',
           proc' \in [Users -> Script], \A v \in Users \ {u} : proc'[v] = proc[v],
           UNCHANGED <<master, branch, ref, cur, edits, work, published>>
    PROVE  IndInv'
<1>1. master \in History
  BY DEF IndInv, TypeInv
<1>2. TypeInv'
  BY Zenon DEF IndInv, TypeInv
<1>3. NothingPushedIsLost'
  BY DEF IndInv, NothingPushedIsLost
<1>4. IsAncestor(master, master')
  BY <1>1, AncestorReflexive
<1> QED BY <1>2, <1>3, <1>4, StepInv

\* Goto changes the place of a script and nothing else of it.
LEMMA GotoScript ==
    ASSUME IndInv, NEW u \in Users, NEW place \in Places, Goto(u, place)
    PROVE  /\ proc' \in [Users -> Script]
           /\ \A v \in Users \ {u} : proc'[v] = proc[v]
           /\ proc'[u].at = place
           /\ proc'[u].head = proc[u].head /\ proc'[u].squash = proc[u].squash
           /\ proc'[u].reviewed = proc[u].reviewed /\ proc'[u].fixed = proc[u].fixed
<1>1. proc \in [Users -> Script] /\ proc[u] \in Script
  BY DEF IndInv, TypeInv
<1>2. proc' = [proc EXCEPT ![u] = [proc[u] EXCEPT !.at = place]]
  BY Zenon DEF Goto
<1>3. [proc[u] EXCEPT !.at = place] \in Script
  BY <1>1, Zenon DEF Script
<1>4. /\ proc' \in [Users -> Script] /\ \A v \in Users \ {u} : proc'[v] = proc[v]
      /\ proc'[u] = [proc[u] EXCEPT !.at = place]
  BY <1>1, <1>2, <1>3, Zenon
<1>5. /\ proc'[u].at = place
      /\ proc'[u].head = proc[u].head /\ proc'[u].squash = proc[u].squash
      /\ proc'[u].reviewed = proc[u].reviewed /\ proc'[u].fixed = proc[u].fixed
  BY <1>1, <1>4, Zenon DEF Script
<1> QED BY <1>4, <1>5

\* A script that starts or restarts has the given record.
LEMMA SetScript ==
    ASSUME IndInv, NEW u \in Users, NEW p \in Script, proc' = [proc EXCEPT ![u] = p]
    PROVE  /\ proc' \in [Users -> Script]
           /\ \A v \in Users \ {u} : proc'[v] = proc[v]
           /\ proc'[u] = p
BY Zenon DEF IndInv, TypeInv

\* The script that is not running.
LEMMA IdleType == Idle \in Script /\ Idle.at = "idle" /\ Idle.fixed = {}
<1>1. NoRef \in History
  BY DEF NoRef, History
<1> QED BY <1>1 DEF Idle, Script, Places

\* The tip of a clone's branch is a history.
LEMMA TipType ==
    ASSUME IndInv, NEW u \in Users
    PROVE  Tip(u) \in History /\ Tree(Tip(u)) \in SUBSET Nat
<1>1. ref[u] \in Clone /\ cur[u] \in {"master", "change"}
  BY DEF IndInv, TypeInv
<1>2. CASE cur[u] = "master"
  BY <1>1, <1>2, TreeType, Zenon DEF Clone, Tip
<1>3. CASE cur[u] = "change"
  BY <1>1, <1>3, TreeType, Zenon DEF Clone, Tip
<1> QED BY <1>1, <1>2, <1>3

\* A commit of the work in the tree on the tip.
LEMMA TipCommit ==
    ASSUME IndInv, NEW u \in Users, NEW subject \in Subjects
    PROVE  /\ Commit(Tip(u), Tree(Tip(u)) \union edits[u], subject) \in History
           /\ Tree(Commit(Tip(u), Tree(Tip(u)) \union edits[u], subject))
                = Tree(Tip(u)) \union edits[u]
<1>1. edits[u] \in SUBSET Nat /\ Tip(u) \in History /\ Tree(Tip(u)) \in SUBSET Nat
  BY TipType DEF IndInv, TypeInv
<1>2. /\ Tree(Tip(u)) \union edits[u] \in SUBSET Nat
      /\ Tree(Tip(u)) \subseteq Tree(Tip(u)) \union edits[u]
  BY <1>1
<1> QED BY <1>1, <1>2, CommitHistory, Zenon

\* Leave: a script fails, is interrupted or returns.
LEMMA LeaveInv == ASSUME IndInv, NEW u \in Users, Leave(u) PROVE IndInv'
<1>1. /\ proc' = [proc EXCEPT ![u] = Idle]
      /\ UNCHANGED <<master, branch, ref, cur, edits, work, published>>
  BY DEF Leave
<1>2. /\ proc' \in [Users -> Script] /\ \A v \in Users \ {u} : proc'[v] = proc[v]
      /\ proc'[u] = Idle
  BY <1>1, IdleType, SetScript, Zenon
<1>3. ReviewInv(u)' /\ MergeInv(u)'
  BY <1>1, <1>2, IdleType DEF IndInv, UserInv, ReviewInv, MergeInv, At
<1> QED BY <1>1, <1>2, <1>3, ScriptInv DEF UserInv

\* The review loop begins; nothing has been fixed yet.
LEMMA reviewLoopInv == ASSUME IndInv, NEW u \in Users, reviewLoop(u) PROVE IndInv'
<1> DEFINE p == [Idle EXCEPT !.at = "pass"]
<1>1. /\ proc' = [proc EXCEPT ![u] = p]
      /\ UNCHANGED <<master, branch, ref, cur, edits, work, published>>
  BY Zenon DEF reviewLoop
<1>2. p \in Script /\ p.at = "pass" /\ p.fixed = {}
  BY IdleType, Zenon DEF Script, Places
<1> HIDE DEF p
<1>3. /\ proc' \in [Users -> Script] /\ \A v \in Users \ {u} : proc'[v] = proc[v]
      /\ proc'[u] = p
  BY <1>1, <1>2, SetScript, Zenon
<1>4. ReviewInv(u)' /\ MergeInv(u)'
  BY <1>1, <1>2, <1>3 DEF IndInv, UserInv, ReviewInv, MergeInv, At
<1> QED BY <1>1, <1>3, <1>4, ScriptInv DEF UserInv

\* A pass reviews the tree of the tip, which holds the last fix.
LEMMA beginPassInv == ASSUME IndInv, NEW u \in Users, beginPass(u) PROVE IndInv'
<1> DEFINE q == [proc[u] EXCEPT !.at = "review"]
           p == [q EXCEPT !.reviewed = Tree(Tip(u))]
<1>1. /\ proc' = [proc EXCEPT ![u] = p] /\ At(u, "pass")
      /\ UNCHANGED <<master, branch, ref, cur, edits, work, published>>
  BY Zenon DEF beginPass
<1>2. proc[u] \in Script /\ Tree(Tip(u)) \in SUBSET Nat
  BY TipType DEF IndInv, TypeInv
<1>3. q \in Script /\ q.at = "review" /\ q.fixed = proc[u].fixed
  BY <1>2, Zenon DEF Script, Places
<1> HIDE DEF q
<1>4. /\ p \in Script /\ p.at = "review" /\ p.fixed = proc[u].fixed
      /\ p.reviewed = Tree(Tip(u))
  BY <1>2, <1>3, Zenon DEF Script
<1> HIDE DEF p
<1>5. /\ proc' \in [Users -> Script] /\ \A v \in Users \ {u} : proc'[v] = proc[v]
      /\ proc'[u] = p
  BY <1>1, <1>4, SetScript, Zenon
<1>6. proc[u].fixed \subseteq Tree(Tip(u)) /\ proc[u].fixed \subseteq published
  BY <1>1 DEF IndInv, UserInv, ReviewInv, At
<1>7. ReviewInv(u)' /\ MergeInv(u)'
  BY <1>1, <1>4, <1>5, <1>6 DEF IndInv, UserInv, ReviewInv, MergeInv, At
<1> QED BY <1>1, <1>5, <1>7, ScriptInv DEF UserInv

\* A pass finds nothing, or comments that lead to a fix.
LEMMA reviewPassInv == ASSUME IndInv, NEW u \in Users, reviewPass(u) PROVE IndInv'
<1>1. /\ UNCHANGED <<master, branch, ref, cur, edits, work, published>>
      /\ proc[u].at = "review"
  BY DEF reviewPass, At
<1>2. ASSUME Goto(u, "approved") PROVE IndInv'
  <2>1. /\ proc' \in [Users -> Script] /\ \A v \in Users \ {u} : proc'[v] = proc[v]
        /\ proc'[u].at = "approved" /\ proc'[u].fixed = proc[u].fixed
        /\ proc'[u].reviewed = proc[u].reviewed
    BY <1>2, GotoScript, Zenon DEF Places
  <2>2. ReviewInv(u)' /\ MergeInv(u)'
    BY <1>1, <2>1 DEF IndInv, UserInv, ReviewInv, MergeInv, At
  <2> QED BY <1>1, <2>1, <2>2, ScriptInv DEF UserInv
<1>3. ASSUME proc' = [proc EXCEPT ![u].at = "fix", ![u].head = Tip(u)] PROVE IndInv'
  <2> DEFINE q == [proc[u] EXCEPT !.at = "fix"]
             p == [q EXCEPT !.head = Tip(u)]
  <2>1. proc[u] \in Script /\ Tip(u) \in History
    BY TipType DEF IndInv, TypeInv
  <2>2. proc' = [proc EXCEPT ![u] = p]
    BY <1>3, Zenon
  <2>3. q \in Script /\ q.at = "fix"
    BY <2>1, Zenon DEF Script, Places
  <2> HIDE DEF q
  <2>4. p \in Script /\ p.at = "fix"
    BY <2>1, <2>3, Zenon DEF Script
  <2> HIDE DEF p
  <2>5. /\ proc' \in [Users -> Script] /\ \A v \in Users \ {u} : proc'[v] = proc[v]
        /\ proc'[u] = p
    BY <2>2, <2>4, SetScript, Zenon
  <2>6. ReviewInv(u)' /\ MergeInv(u)'
    BY <1>1, <2>4, <2>5 DEF IndInv, UserInv, ReviewInv, MergeInv, At
  <2> QED BY <1>1, <2>5, <2>6, ScriptInv DEF UserInv
<1> QED BY <1>2, <1>3, Zenon DEF reviewPass

\* A clone's references change to the given ones.
LEMMA SetClone ==
    ASSUME IndInv, NEW u \in Users, NEW r \in Clone, ref' = [ref EXCEPT ![u] = r]
    PROVE  /\ ref' \in [Users -> Clone]
           /\ \A v \in Users \ {u} : ref'[v] = ref[v]
           /\ ref'[u] = r
BY Zenon DEF IndInv, TypeInv

\* What a commit, with or without its push, does to the clone.
LEMMA CommitClone ==
    ASSUME IndInv, NEW u \in Users, NEW subject \in Subjects, NEW pushed \in BOOLEAN,
           NEW place, CommitAndPush(u, subject, pushed, place),
           NEW c \in History, c = Commit(Tip(u), Tree(Tip(u)) \union edits[u], subject)
    PROVE  /\ ref' \in [Users -> Clone]
           /\ \A v \in Users \ {u} : ref'[v] = ref[v]
           /\ ref'[u][cur[u]] = c
           /\ ref'[u].originMaster = IF pushed /\ cur[u] = "master" THEN c
                                     ELSE ref[u].originMaster
<1> DEFINE om == IF pushed /\ cur[u] = "master" THEN c ELSE ref[u].originMaster
           oc == IF pushed /\ cur[u] = "change" THEN c ELSE ref[u].originChange
           r == [[[ref[u] EXCEPT ![cur[u]] = c] EXCEPT !.originMaster = om]
                     EXCEPT !.originChange = oc]
<1>1. ref[u] \in Clone /\ cur[u] \in {"master", "change"} /\ ref \in [Users -> Clone]
  BY DEF IndInv, TypeInv
<1>2. om \in History /\ oc \in History
  BY <1>1, Zenon DEF Clone
<1>3. ref' = [ref EXCEPT ![u] = r]
  <2>1. ref' = [ref EXCEPT ![u][cur[u]] = c,
                   ![u].originMaster = IF pushed /\ cur[u] = "master" THEN c ELSE @,
                   ![u].originChange = IF pushed /\ cur[u] = "change" THEN c ELSE @]
    BY Zenon DEF CommitAndPush
  <2>2. CASE cur[u] = "master"
    BY <1>1, <2>1, <2>2, Zenon DEF Clone
  <2>3. CASE cur[u] = "change"
    BY <1>1, <2>1, <2>3, Zenon DEF Clone
  <2> QED BY <1>1, <2>2, <2>3, Zenon
<1> HIDE DEF om, oc
<1>4. r \in Clone /\ r[cur[u]] = c /\ r.originMaster = om
  <2>1. CASE cur[u] = "master"
    BY <1>1, <1>2, <2>1, Zenon DEF Clone
  <2>2. CASE cur[u] = "change"
    BY <1>1, <1>2, <2>2, Zenon DEF Clone
  <2> QED BY <1>1, <2>1, <2>2, Zenon
<1> HIDE DEF r
<1>5. /\ ref' \in [Users -> Clone] /\ \A v \in Users \ {u} : ref'[v] = ref[v]
      /\ ref'[u] = r
  BY <1>3, <1>4, SetClone, Zenon
<1>6. ref'[u][cur[u]] = c /\ ref'[u].originMaster = om
  BY <1>4, <1>5, Zenon
<1> QED BY <1>5, <1>6, Zenon DEF om

\* git commit and git push: a push is a fast-forward, so it loses nothing.
\* The script then stands at the given place, which for the review loop is
\* before the pass over the new commit.
LEMMA CommitAndPushInv ==
    ASSUME IndInv, NEW u \in Users, NEW subject \in Subjects, NEW pushed \in BOOLEAN,
           NEW place \in Script, CommitAndPush(u, subject, pushed, place),
           place.at \in {"idle", "pass"},
           place.at = "pass" => place.fixed = Tree(Tip(u)) \union edits[u]
    PROVE  IndInv'
<1> DEFINE c == Commit(Tip(u), Tree(Tip(u)) \union edits[u], subject)
           remote == IF cur[u] = "master" THEN master ELSE branch
<1>1. c \in History /\ Tree(c) = Tree(Tip(u)) \union edits[u] /\ Tree(c) \in SUBSET Nat
  <2>1. c \in History /\ Tree(c) = Tree(Tip(u)) \union edits[u]
    BY TipCommit, Zenon
  <2> QED BY <2>1, TreeType, Zenon
<1>2. /\ pushed => IsAncestor(remote, c)
      /\ edits' = [edits EXCEPT ![u] = {}]
      /\ master' = IF pushed /\ cur[u] = "master" THEN c ELSE master
      /\ branch' = IF pushed /\ cur[u] = "change" THEN c ELSE branch
      /\ published' = IF pushed THEN published \union Tree(c) ELSE published
      /\ proc' = [proc EXCEPT ![u] = IF pushed THEN place ELSE Idle]
      /\ UNCHANGED <<cur, work>>
  BY Zenon DEF CommitAndPush
<1> HIDE DEF c
<1>3. /\ ref' \in [Users -> Clone] /\ \A v \in Users \ {u} : ref'[v] = ref[v]
      /\ ref'[u][cur[u]] = c
      /\ ref'[u].originMaster = IF pushed /\ cur[u] = "master" THEN c
                                ELSE ref[u].originMaster
  <2>1. c = Commit(Tip(u), Tree(Tip(u)) \union edits[u], subject)
    BY DEF c
  <2> QED BY <1>1, <2>1, CommitClone
<1>4. /\ proc' \in [Users -> Script] /\ \A v \in Users \ {u} : proc'[v] = proc[v]
      /\ proc'[u] = IF pushed THEN place ELSE Idle
  <2>1. (IF pushed THEN place ELSE Idle) \in Script
    BY IdleType
  <2> QED BY <1>2, <2>1, SetScript, Zenon
<1>5. /\ master \in History /\ branch \in History /\ cur[u] \in {"master", "change"}
      /\ edits \in [Users -> SUBSET Nat] /\ published \subseteq Nat
      /\ NothingPushedIsLost /\ IsAncestor(ref[u].originMaster, master)
  BY DEF IndInv, TypeInv, UserInv, MergeInv
<1>6. edits' \in [Users -> SUBSET Nat]
  BY <1>2, <1>5, Zenon
<1>7. master' \in History /\ branch' \in History /\ published' \subseteq Nat
  BY <1>1, <1>2, <1>5, Zenon
<1>8. TypeInv'
  BY <1>2, <1>3, <1>4, <1>6, <1>7, Zenon DEF IndInv, TypeInv
<1>9. IsAncestor(master, master')
  BY <1>2, <1>5, AncestorReflexive, Zenon
<1>10. NothingPushedIsLost'
  <2>1. CASE ~pushed
    BY <1>2, <1>5, <2>1, Zenon DEF NothingPushedIsLost
  <2>2. CASE pushed /\ cur[u] = "master"
    <3>1. master' = c /\ branch' = branch /\ published' = published \union Tree(c)
      BY <1>2, <2>2, Zenon
    <3>2. Tree(master) \subseteq Tree(c)
      BY <1>1, <1>2, <1>5, <2>2, AncestorTree, Zenon
    <3> QED BY <1>5, <3>1, <3>2, Zenon DEF NothingPushedIsLost
  <2>3. CASE pushed /\ cur[u] = "change"
    <3>1. master' = master /\ branch' = c /\ published' = published \union Tree(c)
      BY <1>2, <2>3, Zenon
    <3>2. Tree(branch) \subseteq Tree(c)
      BY <1>1, <1>2, <1>5, <2>3, AncestorTree, Zenon
    <3> QED BY <1>5, <3>1, <3>2, Zenon DEF NothingPushedIsLost
  <2> QED BY <1>5, <2>1, <2>2, <2>3, Zenon
<1>11. UserInv(u)'
  <2>1. proc'[u].at \in {"idle", "pass"}
    BY <1>4, IdleType, Zenon
  <2>2. ReviewInv(u)'
    <3>1. ASSUME proc'[u].at = "pass"
          PROVE  proc'[u].fixed \subseteq Tree(Tip(u))' /\ proc'[u].fixed \subseteq published'
      <4>1. pushed /\ proc'[u] = place
        BY <1>4, <3>1, IdleType, Zenon
      <4>2. Tip(u)' = c
        BY <1>2, <1>3, Zenon DEF Tip
      <4>3. proc'[u].fixed = Tree(c) /\ published' = published \union Tree(c)
        BY <1>1, <1>2, <3>1, <4>1, Zenon
      <4>4. Tree(Tip(u))' = Tree(c)
        BY <4>2, Zenon DEF Tree, NoRef
      <4> QED BY <4>3, <4>4, Zenon
    <3> QED BY <2>1, <3>1, Zenon DEF ReviewInv, At
  <2>4. MergeInv(u)'
    <3>1. IsAncestor(ref'[u].originMaster, master')
      BY <1>1, <1>2, <1>3, <1>5, AncestorReflexive, Zenon
    <3> QED BY <2>1, <3>1, Zenon DEF MergeInv, At
  <2> QED BY <2>2, <2>4 DEF UserInv
<1>12. published \subseteq published'
  BY <1>2, Zenon
<1> QED BY <1>2, <1>3, <1>4, <1>8, <1>9, <1>10, <1>11, <1>12, StepInv, Zenon

\* commit-agent.pl and its kin.
LEMMA commitAgentInv == ASSUME IndInv, NEW u \in Users, commitAgent(u) PROVE IndInv'
<1>1. PICK pushed \in BOOLEAN : CommitAndPush(u, "commit", pushed, Idle)
  BY DEF commitAgent
<1>2. "commit" \in Subjects
  BY DEF Subjects
<1> QED BY <1>1, <1>2, IdleType, CommitAndPushInv

\* codex-code-spec.pl begins with a clean tree, and commits what the agent did.
LEMMA codeSpecInv == ASSUME IndInv, NEW u \in Users, codeSpec(u) PROVE IndInv'
<1>1. CASE /\ proc' = [proc EXCEPT ![u] = [Idle EXCEPT !.at = "implement", !.head = Tip(u)]]
           /\ UNCHANGED <<master, branch, ref, cur, edits, work, published>>
  <2> DEFINE q == [Idle EXCEPT !.at = "implement"]
             p == [q EXCEPT !.head = Tip(u)]
  <2>1. proc' = [proc EXCEPT ![u] = p]
    BY <1>1, Zenon
  <2>2. Tip(u) \in History
    BY TipType
  <2>3. q \in Script /\ q.at = "implement"
    BY IdleType, Zenon DEF Script, Places
  <2> HIDE DEF q
  <2>4. p \in Script /\ p.at = "implement"
    BY <2>2, <2>3, Zenon DEF Script
  <2> HIDE DEF p
  <2>5. /\ proc' \in [Users -> Script] /\ \A v \in Users \ {u} : proc'[v] = proc[v]
        /\ proc'[u] = p
    BY <2>1, <2>4, SetScript, Zenon
  <2>6. ReviewInv(u)' /\ MergeInv(u)'
    BY <1>1, <2>4, <2>5 DEF IndInv, UserInv, ReviewInv, MergeInv, At
  <2> QED BY <1>1, <2>5, <2>6, ScriptInv, Zenon DEF UserInv
<1>2. ASSUME NEW pushed \in BOOLEAN, CommitAndPush(u, Subject, pushed, Idle) PROVE IndInv'
  <2>1. Subject \in Subjects
    BY DEF Subjects
  <2> QED BY <1>2, <2>1, IdleType, CommitAndPushInv
<1> QED BY <1>1, <1>2, Zenon DEF codeSpec

\* The review loop commits and pushes the fix and goes on to the next pass.
LEMMA fixFindingsInv == ASSUME IndInv, NEW u \in Users, fixFindings(u) PROVE IndInv'
<1> DEFINE q == [proc[u] EXCEPT !.at = "pass"]
           r == [q EXCEPT !.fixes = @ + 1]
           s == [r EXCEPT !.head = NoRef]
           p == [s EXCEPT !.fixed = Tree(Tip(u)) \union edits[u]]
<1>1. PICK pushed \in BOOLEAN : CommitAndPush(u, "review fixes", pushed, p)
  BY Zenon DEF fixFindings
<1>2. /\ proc[u] \in Script /\ "review fixes" \in Subjects /\ NoRef \in History
      /\ Tree(Tip(u)) \union edits[u] \in SUBSET Nat
  BY TipType, TreeType DEF IndInv, TypeInv, Subjects
<1>3. q \in Script /\ q.at = "pass"
  BY <1>2, Zenon DEF Script, Places
<1> HIDE DEF q
<1>4. r \in Script /\ r.at = "pass"
  <2>1. q.fixes + 1 \in Nat
    BY <1>3 DEF Script
  <2> QED BY <1>3, <2>1, Zenon DEF Script
<1> HIDE DEF r
<1>5. s \in Script /\ s.at = "pass"
  BY <1>2, <1>4, Zenon DEF Script
<1> HIDE DEF s
<1>6. p \in Script /\ p.at = "pass" /\ p.fixed = Tree(Tip(u)) \union edits[u]
  BY <1>2, <1>5, Zenon DEF Script
<1> HIDE DEF p
<1> QED BY <1>1, <1>2, <1>6, CommitAndPushInv, Zenon

-----------------------------------------------------------------------------
(* Steps that touch the references of a clone. *)

\* What changes one reference leaves the others.
LEMMA FieldClone ==
    ASSUME NEW r \in Clone, NEW x \in History
    PROVE  /\ [r EXCEPT !.master = x] \in Clone
           /\ [r EXCEPT !.master = x].originMaster = r.originMaster
           /\ [r EXCEPT !.change = x] \in Clone
           /\ [r EXCEPT !.change = x].originMaster = r.originMaster
           /\ [r EXCEPT !.originChange = x] \in Clone
           /\ [r EXCEPT !.originChange = x].originMaster = r.originMaster
           /\ [r EXCEPT !.originMaster = x] \in Clone
           /\ [r EXCEPT !.originMaster = x].originMaster = x
<1>1. /\ [r EXCEPT !.master = x] \in Clone
      /\ [r EXCEPT !.master = x].originMaster = r.originMaster
  BY Zenon DEF Clone
<1>2. /\ [r EXCEPT !.change = x] \in Clone
      /\ [r EXCEPT !.change = x].originMaster = r.originMaster
  BY Zenon DEF Clone
<1>3. /\ [r EXCEPT !.originChange = x] \in Clone
      /\ [r EXCEPT !.originChange = x].originMaster = r.originMaster
  BY Zenon DEF Clone
<1>4. /\ [r EXCEPT !.originMaster = x] \in Clone
      /\ [r EXCEPT !.originMaster = x].originMaster = x
  BY Zenon DEF Clone
<1> QED BY <1>1, <1>2, <1>3, <1>4, Zenon

\* git fetch tracks the remote's master.
LEMMA FetchedType ==
    ASSUME IndInv, NEW u \in Users
    PROVE  Fetched(u) \in Clone /\ Fetched(u).originMaster = master
<1> DEFINE x == IF branch = NoRef THEN ref[u].originChange ELSE branch
           q == [ref[u] EXCEPT !.originMaster = master]
           r == [q EXCEPT !.originChange = x]
<1>1. ref[u] \in Clone /\ master \in History /\ branch \in History
  BY DEF IndInv, TypeInv
<1>2. x \in History
  BY <1>1, Zenon DEF Clone
<1>3. Fetched(u) = r
  BY <1>1, Zenon DEF Fetched, Clone
<1> HIDE DEF x
<1>4. q \in Clone /\ q.originMaster = master
  BY <1>1, FieldClone, Zenon
<1> HIDE DEF q
<1>5. r \in Clone /\ r.originMaster = q.originMaster
  BY <1>2, <1>4, FieldClone, Zenon
<1> QED BY <1>3, <1>4, <1>5, Zenon

\* A step that leaves the work alone and ends outside the review loop has
\* to care for the remote, for originMaster and for the squash commit.
LEMMA CloneInv ==
    ASSUME IndInv, NEW u \in Users,
           ref' \in [Users -> Clone], \A v \in Users \ {u} : ref'[v] = ref[v],
           cur' \in [Users -> {"master", "change"}], \A v \in Users \ {u} : cur'[v] = cur[v],
           proc' \in [Users -> Script], \A v \in Users \ {u} : proc'[v] = proc[v],
           proc'[u].at \notin {"pass", "review", "approved"},
           UNCHANGED <<edits, work>>,
           master' \in History, branch' \in History, IsAncestor(master, master'),
           published' \subseteq Nat, published \subseteq published', NothingPushedIsLost',
           MergeInv(u)'
    PROVE  IndInv'
<1>1. TypeInv'
  BY Zenon DEF IndInv, TypeInv
<1>2. ReviewInv(u)'
  BY Zenon DEF ReviewInv, At
<1>3. UserInv(u)'
  BY <1>2 DEF UserInv
<1> QED BY <1>1, <1>3, StepInv, Zenon

\* create-change-branch.sh fetches and checks the branch out, or fails on
\* master.
LEMMA createChangeBranchInv ==
    ASSUME IndInv, NEW u \in Users, createChangeBranch(u)
    PROVE  IndInv'
<1>1. UNCHANGED <<master, branch, edits, proc, work, published>> /\ proc[u].at = "idle"
  BY Zenon DEF createChangeBranch, At
<1>2. /\ master \in History /\ branch \in History /\ published \subseteq Nat
      /\ ref[u] \in Clone /\ proc \in [Users -> Script] /\ ref \in [Users -> Clone]
      /\ cur \in [Users -> {"master", "change"}] /\ NothingPushedIsLost
      /\ IsAncestor(ref[u].originMaster, master) /\ IsAncestor(master, master)
  BY AncestorReflexive DEF IndInv, TypeInv, UserInv, MergeInv
<1>3. /\ cur' \in [Users -> {"master", "change"}]
      /\ \A v \in Users \ {u} : cur'[v] = cur[v]
  <2>1. PICK b \in {"master", "change"} : cur' = [cur EXCEPT ![u] = b]
    BY Zenon DEF createChangeBranch
  <2> QED BY <1>2, <2>1
<1>4. /\ ref' \in [Users -> Clone] /\ \A v \in Users \ {u} : ref'[v] = ref[v]
      /\ ref'[u].originMaster \in {ref[u].originMaster, master}
  <2> DEFINE f == Fetched(u)
             x == checkoutChange(f.change, f.originChange, f.master)
             r == [f EXCEPT !.change = x]
  <2>1. f \in Clone /\ f.originMaster = master
    BY FetchedType, Zenon
  <2>2. CASE ref' = [ref EXCEPT ![u] = r]
    <3>1. x \in History
      BY <2>1, Zenon DEF checkoutChange, Clone
    <3>2. r \in Clone /\ r.originMaster = master
      BY <2>1, <3>1, FieldClone, Zenon
    <3> HIDE DEF r
    <3> QED BY <2>2, <3>2, SetClone, Zenon
  <2>3. CASE ref' = [ref EXCEPT ![u] = f]
    BY <2>1, <2>3, SetClone, Zenon
  <2>4. CASE ref' = ref
    BY <1>2, <2>4, Zenon
  <2> QED BY <2>2, <2>3, <2>4, Zenon DEF createChangeBranch
<1>5. MergeInv(u)'
  BY <1>1, <1>2, <1>4, Zenon DEF MergeInv, At
<1>6. NothingPushedIsLost'
  BY <1>1, <1>2, Zenon DEF NothingPushedIsLost, Tree
<1> QED BY <1>1, <1>2, <1>3, <1>4, <1>5, <1>6, CloneInv, Zenon

\* Someone commits while a script runs; nothing is pushed, and HEAD still holds
\* the last fix.
LEMMA commitMeanwhileInv == ASSUME IndInv, NEW u \in Users, commitMeanwhile(u) PROVE IndInv'
<1> DEFINE c == Commit(Tip(u), Tree(Tip(u)) \union edits[u], "meanwhile")
           r == [ref[u] EXCEPT ![cur[u]] = c]
<1>1. /\ UNCHANGED <<master, branch, cur, proc, work, published>>
      /\ edits' = [edits EXCEPT ![u] = {}]
  BY Zenon DEF commitMeanwhile
<1>2. /\ master \in History /\ edits \in [Users -> SUBSET Nat] /\ ref[u] \in Clone
      /\ cur[u] \in {"master", "change"} /\ ref \in [Users -> Clone]
  BY DEF IndInv, TypeInv
<1>3. ref' = [ref EXCEPT ![u] = r]
  BY Zenon DEF commitMeanwhile, Tip
<1>4. c \in History /\ Tree(c) = Tree(Tip(u)) \union edits[u]
  BY TipCommit, Zenon DEF Subjects
<1> HIDE DEF c
<1>5. r \in Clone /\ r.originMaster = ref[u].originMaster /\ r[cur[u]] = c
  <2>1. CASE cur[u] = "master"
    BY <1>2, <1>4, <2>1, Zenon DEF Clone
  <2>2. CASE cur[u] = "change"
    BY <1>2, <1>4, <2>2, Zenon DEF Clone
  <2> QED BY <1>2, <2>1, <2>2
<1> HIDE DEF r
<1>6. /\ ref' \in [Users -> Clone] /\ \A v \in Users \ {u} : ref'[v] = ref[v]
      /\ ref'[u].originMaster = ref[u].originMaster /\ ref'[u][cur[u]] = c
  BY <1>3, <1>5, SetClone, Zenon
<1>7. edits' \in [Users -> SUBSET Nat]
  BY <1>1, <1>2, Zenon
<1>8. TypeInv'
  BY <1>1, <1>6, <1>7, Zenon DEF IndInv, TypeInv
<1>9. NothingPushedIsLost'
  BY <1>1, Zenon DEF IndInv, NothingPushedIsLost, Tree
<1>10. UserInv(u)'
  <2>1. ReviewInv(u)'
    <3>1. Tip(u)' = c
      BY <1>1, <1>6, Zenon DEF Tip
    <3>2. Tree(Tip(u))' = Tree(Tip(u)) \union edits[u]
      BY <1>4, <3>1, Zenon DEF Tree, NoRef
    <3>3. Tree(Tip(u)) \subseteq Tree(Tip(u))'
      BY <3>2, Zenon
    <3>4. ReviewInv(u)
      BY DEF IndInv, UserInv
    <3> QED BY <1>1, <3>3, <3>4, Zenon DEF ReviewInv, At
  <2>2. MergeInv(u)'
    BY <1>1, <1>6, Zenon DEF IndInv, UserInv, MergeInv, At
  <2> QED BY <2>1, <2>2 DEF UserInv
<1>11. IsAncestor(master, master')
  BY <1>1, <1>2, AncestorReflexive
<1> QED BY <1>1, <1>6, <1>8, <1>9, <1>10, <1>11, StepInv, Zenon

-----------------------------------------------------------------------------
(* change-merge.pl and change-merge-direct.pl. *)

\* What a merge step may rely on.
LEMMA MergeFacts ==
    ASSUME IndInv, NEW u \in Users
    PROVE  /\ master \in History /\ branch \in History /\ published \subseteq Nat
           /\ ref \in [Users -> Clone] /\ ref[u] \in Clone
           /\ proc \in [Users -> Script] /\ proc[u] \in Script
           /\ proc[u].head \in History /\ proc[u].squash \in History
           /\ cur \in [Users -> {"master", "change"}] /\ NothingPushedIsLost
           /\ MergeInv(u) /\ IsAncestor(ref[u].originMaster, master)
           /\ IsAncestor(master, master)
<1>1. /\ master \in History /\ branch \in History /\ published \subseteq Nat
      /\ ref \in [Users -> Clone] /\ proc \in [Users -> Script]
      /\ cur \in [Users -> {"master", "change"}] /\ NothingPushedIsLost /\ MergeInv(u)
  BY DEF IndInv, TypeInv, UserInv
<1>2. proc[u].head \in History /\ proc[u].squash \in History
  BY <1>1 DEF Script
<1> QED BY <1>1, <1>2, AncestorReflexive DEF MergeInv

\* The fetch at the beginning.
LEMMA mergeBeginInv == ASSUME IndInv, NEW u \in Users, mergeBegin(u) PROVE IndInv'
<1>1. /\ Goto(u, "fetched") /\ ref' = [ref EXCEPT ![u] = Fetched(u)]
      /\ UNCHANGED <<master, branch, cur, edits, work, published>>
  BY Zenon DEF mergeBegin
<1>2. /\ proc' \in [Users -> Script] /\ \A v \in Users \ {u} : proc'[v] = proc[v]
      /\ proc'[u].at = "fetched"
      /\ proc'[u].squash = proc[u].squash /\ proc'[u].head = proc[u].head
  BY <1>1, GotoScript, Zenon DEF Places
<1>3. /\ ref' \in [Users -> Clone] /\ \A v \in Users \ {u} : ref'[v] = ref[v]
      /\ ref'[u].originMaster = master
  BY <1>1, FetchedType, SetClone, Zenon
<1>4. MergeInv(u)'
  BY <1>1, <1>2, <1>3, MergeFacts, Zenon DEF MergeInv, At
<1>5. NothingPushedIsLost'
  BY <1>1, MergeFacts, Zenon DEF NothingPushedIsLost, Tree
<1> QED BY <1>1, <1>2, <1>3, <1>4, <1>5, MergeFacts, CloneInv, Zenon

\* The branch is verified and the squash commit made on what the clone takes
\* for master, unless the branch already is one.
LEMMA mergeVerifyInv == ASSUME IndInv, NEW u \in Users, mergeVerify(u) PROVE IndInv'
<1> DEFINE sq == create_squash_commit(u)
           a == [[[proc[u] EXCEPT !.at = "checkout"] EXCEPT !.head = Tip(u)]
                    EXCEPT !.squash = Tip(u)]
           b == [[[proc[u] EXCEPT !.at = "squash"] EXCEPT !.head = Tip(u)]
                    EXCEPT !.squash = sq]
           p == IF is_squashed_change_commit(u) THEN a ELSE b
<1>1. /\ proc' = [proc EXCEPT ![u] = p] /\ IsAncestor(ref[u].originMaster, Tip(u))
      /\ UNCHANGED <<master, branch, ref, cur, edits, work, published>>
  BY Zenon DEF mergeVerify, ensure_base_is_ancestor
<1>2. /\ proc[u] \in Script /\ Tip(u) \in History /\ ref[u].originMaster \in History
      /\ Tree(Tip(u)) \in SUBSET Nat
  BY MergeFacts, TipType DEF Clone
<1>3. sq \in History /\ sq # NoRef /\ Tree(sq) = Tree(Tip(u)) /\ Parent(sq) = ref[u].originMaster
  <2>1. Tree(ref[u].originMaster) \subseteq Tree(Tip(u))
    BY <1>1, <1>2, AncestorTree
  <2> QED BY <1>2, <2>1, CommitHistory, Zenon DEF create_squash_commit, Subjects
<1> HIDE DEF sq
<1>4. /\ a \in Script /\ a.at = "checkout" /\ a.squash = Tip(u) /\ a.head = Tip(u)
  BY <1>2, Zenon DEF Script, Places
<1>5. /\ b \in Script /\ b.at = "squash" /\ b.squash = sq /\ b.head = Tip(u)
  BY <1>2, <1>3, Zenon DEF Script, Places
<1> HIDE DEF a, b
<1>6. is_squashed_change_commit(u) => Tip(u) # NoRef /\ Parent(Tip(u)) = ref[u].originMaster
  BY <1>2 DEF is_squashed_change_commit, NoRef
<1>7. /\ p \in Script /\ p.at \in {"checkout", "squash"}
      /\ p.squash # NoRef /\ Parent(p.squash) = ref[u].originMaster
      /\ Tree(p.squash) = Tree(p.head)
  BY <1>3, <1>4, <1>5, <1>6, Zenon
<1> HIDE DEF p
<1>8. /\ proc' \in [Users -> Script] /\ \A v \in Users \ {u} : proc'[v] = proc[v]
      /\ proc'[u] = p
  BY <1>1, <1>7, SetScript, Zenon
<1>9. MergeInv(u)'
  <2>1. Tree(proc'[u].squash) = Tree(proc'[u].head) /\ IsAncestor(Parent(proc'[u].squash), master)
    BY <1>7, <1>8, MergeFacts, Zenon
  <2> QED BY <1>1, <1>7, <1>8, <2>1, MergeFacts, Zenon DEF MergeInv, At
<1>10. NothingPushedIsLost'
  BY <1>1, MergeFacts, Zenon DEF NothingPushedIsLost, Tree
<1> QED BY <1>1, <1>7, <1>8, <1>9, <1>10, MergeFacts, CloneInv, Zenon

\* The force push replaces the verified branch by the squash commit, which
\* holds the same tree.
LEMMA pushSquashInv == ASSUME IndInv, NEW u \in Users, pushSquash(u) PROVE IndInv'
<1> DEFINE r == [ref[u] EXCEPT !.originChange = proc[u].squash]
<1>1. /\ Goto(u, "update") /\ ref' = [ref EXCEPT ![u] = r]
      /\ proc[u].at = "squash" /\ branch = proc[u].head /\ branch' = proc[u].squash
      /\ UNCHANGED <<master, cur, edits, work, published>>
  BY Zenon DEF pushSquash, At, Leased
<1>2. /\ proc' \in [Users -> Script] /\ \A v \in Users \ {u} : proc'[v] = proc[v]
      /\ proc'[u].at = "update"
      /\ proc'[u].squash = proc[u].squash /\ proc'[u].head = proc[u].head
  BY <1>1, GotoScript, Zenon DEF Places
<1>3. r \in Clone /\ r.originMaster = ref[u].originMaster
  BY MergeFacts, FieldClone, Zenon
<1> HIDE DEF r
<1>4. /\ ref' \in [Users -> Clone] /\ \A v \in Users \ {u} : ref'[v] = ref[v]
      /\ ref'[u].originMaster = ref[u].originMaster
  BY <1>1, <1>3, SetClone, Zenon
<1>5. MergeInv(u)'
  <2>1. /\ proc[u].squash # NoRef /\ IsAncestor(Parent(proc[u].squash), master)
        /\ Tree(proc'[u].squash) = Tree(proc'[u].head)
    BY <1>1, <1>2, MergeFacts, Zenon DEF MergeInv
  <2> QED BY <1>1, <1>2, <1>4, <2>1, MergeFacts, Zenon DEF MergeInv, At
<1>6. NothingPushedIsLost'
  <2>1. Tree(branch') = Tree(branch) /\ Tree(master') = Tree(master)
    BY <1>1, MergeFacts, Zenon DEF MergeInv, Tree
  <2> QED BY <1>1, <2>1, MergeFacts, Zenon DEF NothingPushedIsLost, Tree
<1> QED BY <1>1, <1>2, <1>4, <1>5, <1>6, MergeFacts, CloneInv, Zenon

\* The clone's branch is moved to the squash commit.
LEMMA updateRefInv == ASSUME IndInv, NEW u \in Users, updateRef(u) PROVE IndInv'
<1> DEFINE r == [ref[u] EXCEPT !.change = proc[u].squash]
<1>1. /\ Goto(u, "checkout") /\ ref' = [ref EXCEPT ![u] = r] /\ proc[u].at = "update"
      /\ UNCHANGED <<master, branch, cur, edits, work, published>>
  BY Zenon DEF updateRef, At
<1>2. /\ proc' \in [Users -> Script] /\ \A v \in Users \ {u} : proc'[v] = proc[v]
      /\ proc'[u].at = "checkout"
      /\ proc'[u].squash = proc[u].squash /\ proc'[u].head = proc[u].head
  BY <1>1, GotoScript, Zenon DEF Places
<1>3. r \in Clone /\ r.originMaster = ref[u].originMaster
  BY MergeFacts, FieldClone, Zenon
<1> HIDE DEF r
<1>4. /\ ref' \in [Users -> Clone] /\ \A v \in Users \ {u} : ref'[v] = ref[v]
      /\ ref'[u].originMaster = ref[u].originMaster
  BY <1>1, <1>3, SetClone, Zenon
<1>5. MergeInv(u)'
  <2>1. /\ proc[u].squash # NoRef /\ IsAncestor(Parent(proc[u].squash), master)
        /\ Tree(proc'[u].squash) = Tree(proc'[u].head)
    BY <1>1, <1>2, MergeFacts, Zenon DEF MergeInv
  <2> QED BY <1>1, <1>2, <1>4, <2>1, MergeFacts, Zenon DEF MergeInv, At
<1>6. NothingPushedIsLost'
  BY <1>1, MergeFacts, Zenon DEF NothingPushedIsLost, Tree
<1> QED BY <1>1, <1>2, <1>4, <1>5, <1>6, MergeFacts, CloneInv, Zenon

\* master is checked out.
LEMMA checkoutBaseInv == ASSUME IndInv, NEW u \in Users, checkoutBase(u) PROVE IndInv'
<1>1. /\ Goto(u, "pull") /\ cur' = [cur EXCEPT ![u] = "master"] /\ proc[u].at = "checkout"
      /\ UNCHANGED <<master, branch, ref, edits, work, published>>
  BY Zenon DEF checkoutBase, At
<1>2. /\ proc' \in [Users -> Script] /\ \A v \in Users \ {u} : proc'[v] = proc[v]
      /\ proc'[u].at = "pull"
      /\ proc'[u].squash = proc[u].squash /\ proc'[u].head = proc[u].head
  BY <1>1, GotoScript, Zenon DEF Places
<1>3. /\ cur' \in [Users -> {"master", "change"}]
      /\ \A v \in Users \ {u} : cur'[v] = cur[v]
  BY <1>1, MergeFacts, Zenon
<1>4. MergeInv(u)'
  BY <1>1, <1>2, MergeFacts, Zenon DEF MergeInv, At, Tree
<1>5. NothingPushedIsLost'
  BY <1>1, MergeFacts, Zenon DEF NothingPushedIsLost, Tree
<1> QED BY <1>1, <1>2, <1>3, <1>4, <1>5, MergeFacts, CloneInv, Zenon

\* Pull with fast-forward only: what the clone takes for master is master.
LEMMA pullBaseInv == ASSUME IndInv, NEW u \in Users, pullBase(u) PROVE IndInv'
<1> DEFINE q == [ref[u] EXCEPT !.master = FastForward(ref[u].master, master)]
           r == [q EXCEPT !.originMaster = master]
<1>1. /\ Goto(u, "merge") /\ ref' = [ref EXCEPT ![u] = r] /\ proc[u].at = "pull"
      /\ UNCHANGED <<master, branch, cur, edits, work, published>>
  BY Zenon DEF pullBase, At
<1>2. /\ proc' \in [Users -> Script] /\ \A v \in Users \ {u} : proc'[v] = proc[v]
      /\ proc'[u].at = "merge"
      /\ proc'[u].squash = proc[u].squash /\ proc'[u].head = proc[u].head
  BY <1>1, GotoScript, Zenon DEF Places
<1>3. r \in Clone /\ r.originMaster = master
  <2>1. FastForward(ref[u].master, master) \in History
    BY MergeFacts DEF FastForward, Clone
  <2>2. q \in Clone
    BY <2>1, MergeFacts, FieldClone, Zenon
  <2> HIDE DEF q
  <2> QED BY <2>2, MergeFacts, FieldClone, Zenon
<1> HIDE DEF r
<1>4. /\ ref' \in [Users -> Clone] /\ \A v \in Users \ {u} : ref'[v] = ref[v]
      /\ ref'[u].originMaster = master
  BY <1>1, <1>3, SetClone, Zenon
<1>5. MergeInv(u)'
  BY <1>1, <1>2, <1>4, MergeFacts, Zenon DEF MergeInv, At, Tree
<1>6. NothingPushedIsLost'
  BY <1>1, MergeFacts, Zenon DEF NothingPushedIsLost, Tree
<1> QED BY <1>1, <1>2, <1>4, <1>5, <1>6, MergeFacts, CloneInv, Zenon

\* The clone's master is moved to the squash commit.
LEMMA mergeFastForwardInv == ASSUME IndInv, NEW u \in Users, mergeFastForward(u) PROVE IndInv'
<1> DEFINE r == [ref[u] EXCEPT !.master = FastForward(ref[u].master, ref[u].change)]
<1>1. /\ Goto(u, "push") /\ ref' = [ref EXCEPT ![u] = r] /\ proc[u].at = "merge"
      /\ UNCHANGED <<master, branch, cur, edits, work, published>>
  BY Zenon DEF mergeFastForward, At
<1>2. /\ proc' \in [Users -> Script] /\ \A v \in Users \ {u} : proc'[v] = proc[v]
      /\ proc'[u].at = "push"
      /\ proc'[u].squash = proc[u].squash /\ proc'[u].head = proc[u].head
  BY <1>1, GotoScript, Zenon DEF Places
<1>3. r \in Clone /\ r.originMaster = ref[u].originMaster
  <2>1. FastForward(ref[u].master, ref[u].change) \in History
    BY MergeFacts DEF FastForward, Clone
  <2> QED BY <2>1, MergeFacts, FieldClone, Zenon
<1> HIDE DEF r
<1>4. /\ ref' \in [Users -> Clone] /\ \A v \in Users \ {u} : ref'[v] = ref[v]
      /\ ref'[u].originMaster = ref[u].originMaster
  BY <1>1, <1>3, SetClone, Zenon
<1>5. MergeInv(u)'
  <2>1. /\ proc[u].squash # NoRef /\ IsAncestor(Parent(proc[u].squash), master)
        /\ Tree(proc'[u].squash) = Tree(proc'[u].head)
    BY <1>1, <1>2, MergeFacts, Zenon DEF MergeInv
  <2> QED BY <1>1, <1>2, <1>4, <2>1, MergeFacts, Zenon DEF MergeInv, At
<1>6. NothingPushedIsLost'
  BY <1>1, MergeFacts, Zenon DEF NothingPushedIsLost, Tree
<1> QED BY <1>1, <1>2, <1>4, <1>5, <1>6, MergeFacts, CloneInv, Zenon

\* The push of master is no force push: it only extends master, so nothing
\* that was on it is lost.
LEMMA pushBaseInv == ASSUME IndInv, NEW u \in Users, pushBase(u) PROVE IndInv'
<1> DEFINE r == [ref[u] EXCEPT !.originMaster = ref[u].master]
<1>1. /\ Goto(u, "verify") /\ ref' = [ref EXCEPT ![u] = r] /\ proc[u].at = "push"
      /\ master' = ref[u].master /\ IsAncestor(master, master')
      /\ published' = published \union Tree(master')
      /\ UNCHANGED <<branch, cur, edits, work>>
  BY Zenon DEF pushBase, At
<1>2. /\ proc' \in [Users -> Script] /\ \A v \in Users \ {u} : proc'[v] = proc[v]
      /\ proc'[u].at = "verify"
      /\ proc'[u].squash = proc[u].squash /\ proc'[u].head = proc[u].head
  BY <1>1, GotoScript, Zenon DEF Places
<1>3. ref[u].master \in History /\ r \in Clone /\ r.originMaster = ref[u].master
  <2>1. ref[u].master \in History
    BY MergeFacts DEF Clone
  <2> QED BY <2>1, MergeFacts, FieldClone, Zenon
<1> HIDE DEF r
<1>4. /\ ref' \in [Users -> Clone] /\ \A v \in Users \ {u} : ref'[v] = ref[v]
      /\ ref'[u].originMaster = ref[u].master
  BY <1>1, <1>3, SetClone, Zenon
<1>5. MergeInv(u)'
  BY <1>1, <1>2, <1>3, <1>4, AncestorReflexive, Zenon DEF MergeInv, At
<1>6. /\ master' \in History /\ branch' \in History /\ Tree(master) \subseteq Tree(master')
      /\ Tree(master') \in SUBSET Nat /\ Tree(branch') = Tree(branch)
  BY <1>1, <1>3, MergeFacts, AncestorTree, TreeType
<1>7. /\ NothingPushedIsLost' /\ published' \subseteq Nat /\ published \subseteq published'
  BY <1>1, <1>6, MergeFacts DEF NothingPushedIsLost
<1> QED BY <1>1, <1>2, <1>4, <1>5, <1>6, <1>7, MergeFacts, CloneInv, Zenon

\* The remote's master is compared with the squash commit.
LEMMA verifyBaseInv == ASSUME IndInv, NEW u \in Users, verifyBase(u) PROVE IndInv'
<1>1. /\ Goto(u, "delete") /\ proc[u].at = "verify" /\ master = proc[u].squash
      /\ UNCHANGED <<master, branch, ref, cur, edits, work, published>>
  BY Zenon DEF verifyBase, At
<1>2. /\ proc' \in [Users -> Script] /\ \A v \in Users \ {u} : proc'[v] = proc[v]
      /\ proc'[u].at = "delete"
      /\ proc'[u].squash = proc[u].squash /\ proc'[u].head = proc[u].head
  BY <1>1, GotoScript, Zenon DEF Places
<1>3. /\ ref' \in [Users -> Clone] /\ \A v \in Users \ {u} : ref'[v] = ref[v]
      /\ cur' \in [Users -> {"master", "change"}] /\ \A v \in Users \ {u} : cur'[v] = cur[v]
  BY <1>1, MergeFacts, Zenon
<1>4. MergeInv(u)'
  BY <1>1, <1>2, MergeFacts, Zenon DEF MergeInv, At
<1>5. NothingPushedIsLost'
  BY <1>1, MergeFacts, Zenon DEF NothingPushedIsLost, Tree
<1> QED BY <1>1, <1>2, <1>3, <1>4, <1>5, MergeFacts, CloneInv, Zenon

\* The branch is deleted under a lease on the squash commit: what it holds is
\* on master.
LEMMA deleteBranchInv == ASSUME IndInv, NEW u \in Users, deleteBranch(u) PROVE IndInv'
<1> DEFINE r == [ref[u] EXCEPT !.originChange = NoRef]
<1>1. /\ proc' = [proc EXCEPT ![u] = Idle] /\ ref' = [ref EXCEPT ![u] = r]
      /\ At(u, "delete") /\ branch = proc[u].squash /\ branch' = NoRef
      /\ UNCHANGED <<master, cur, edits, work, published>>
  BY Zenon DEF deleteBranch, Leased
<1>2. /\ proc' \in [Users -> Script] /\ \A v \in Users \ {u} : proc'[v] = proc[v]
      /\ proc'[u] = Idle
  BY <1>1, IdleType, SetScript, Zenon
<1>3. NoRef \in History /\ r \in Clone /\ r.originMaster = ref[u].originMaster
  <2>1. NoRef \in History
    BY MergeFacts, TreeType
  <2> QED BY <2>1, MergeFacts, FieldClone, Zenon
<1> HIDE DEF r
<1>4. /\ ref' \in [Users -> Clone] /\ \A v \in Users \ {u} : ref'[v] = ref[v]
      /\ ref'[u].originMaster = ref[u].originMaster
  BY <1>1, <1>3, SetClone, Zenon
<1>5. TypeInv'
  BY <1>1, <1>2, <1>3, <1>4, Zenon DEF IndInv, TypeInv
<1>7. UserInv(u)'
  BY <1>1, <1>2, <1>4, IdleType, MergeFacts, Zenon DEF UserInv, ReviewInv, MergeInv, At
<1>8. NothingPushedIsLost'
  <2>1. Tree(branch) \subseteq Tree(master)
    BY <1>1, MergeFacts, AncestorTree, Zenon DEF MergeInv
  <2> QED BY <1>1, <2>1, MergeFacts DEF NothingPushedIsLost, Tree
<1>9. IsAncestor(master, master') /\ published \subseteq published'
  BY <1>1, MergeFacts
<1> QED BY <1>1, <1>2, <1>4, <1>5, <1>7, <1>8, <1>9, StepInv, Zenon

-----------------------------------------------------------------------------
(* The specification. *)

\* Every step, and every step of something else, preserves the invariant.
LEMMA NextInv == IndInv /\ [Next]_vars => IndInv'
<1> SUFFICES ASSUME IndInv, [Next]_vars PROVE IndInv'
  OBVIOUS
<1>1. ASSUME NEW u \in Users, changeMerge(u) PROVE IndInv'
  BY <1>1, mergeBeginInv, mergeVerifyInv, pushSquashInv, updateRefInv, checkoutBaseInv,
     pullBaseInv, mergeFastForwardInv, pushBaseInv, verifyBaseInv, deleteBranchInv,
     Zenon DEF changeMerge
<1>2. ASSUME Next PROVE IndInv'
  BY <1>1, <1>2, EditInv, createChangeBranchInv, commitAgentInv, codeSpecInv, reviewLoopInv,
     beginPassInv, reviewPassInv, fixFindingsInv, commitMeanwhileInv, LeaveInv, Zenon DEF Next
<1>3. CASE UNCHANGED vars
  <2>1. UNCHANGED <<master, branch, ref, cur, edits, proc, work, published>>
    BY <1>3 DEF vars
  <2>2. TypeInv' /\ NothingPushedIsLost'
    BY <2>1, Zenon DEF IndInv, TypeInv, NothingPushedIsLost, Tree
  <2>3. ASSUME NEW u \in Users PROVE UserInv(u)'
    <3>1. UserInv(u)
      BY DEF IndInv
    <3> QED BY <2>1, <3>1, Zenon
               DEF UserInv, ReviewInv, MergeInv, At, Tip, Tree
  <2> QED BY <2>2, <2>3, Zenon DEF IndInv
<1> QED BY <1>2, <1>3

\* The inductive invariant holds of every behaviour.
THEOREM Invariance == Spec => []IndInv
BY InitInv, NextInv, PTL DEF Spec

\* Work that was once pushed is on the remote for good, although merges
\* rewrite and delete the branch that others push to.
THEOREM NothingLost == Spec => []NothingPushedIsLost
<1>1. IndInv => NothingPushedIsLost
  BY DEF IndInv
<1> QED BY <1>1, Invariance, PTL

\* The review loop reports no comments only when a pass has looked at all that
\* its fixes committed and the remote has it, whatever is committed meanwhile.
THEOREM FixesAreReviewed == Spec => []FixesReviewed
<1>1. IndInv => FixesReviewed
  BY Zenon DEF IndInv, UserInv, ReviewInv, FixesReviewed, At
<1> QED BY <1>1, Invariance, PTL

\* A merge puts one commit on master, on top of what master is when it is
\* pushed, with the tree of the branch as it was verified.
THEOREM OneCommit == Spec => OneCommitPerMerge
<1>1. ASSUME IndInv, NEW u \in Users, pushBase(u)
      PROVE  \/ UNCHANGED master
             \/ Parent(master') = master /\ Tree(master') = Tree(proc[u].head)
  <2>1. /\ proc[u].at = "push" /\ master' = proc[u].squash /\ IsAncestor(master, proc[u].squash)
    BY <1>1, Zenon DEF pushBase, At
  <2>2. /\ proc[u].squash # NoRef /\ IsAncestor(Parent(proc[u].squash), master)
        /\ Tree(proc[u].squash) = Tree(proc[u].head)
    BY <1>1, <2>1, MergeFacts, Zenon DEF MergeInv
  <2>3. master = proc[u].squash \/ master = Parent(proc[u].squash)
    BY <1>1, <2>1, <2>2, MergeFacts, NothingBetween, Zenon
  <2> QED BY <2>1, <2>2, <2>3, Zenon DEF Tree, NoRef
<1>2. IndInv /\ [Next]_vars =>
          [\A u \in Users : pushBase(u) =>
               \/ UNCHANGED master
               \/ Parent(master') = master /\ Tree(master') = Tree(proc[u].head)]_vars
  BY <1>1, Zenon
<1> QED BY <1>2, Invariance, PTL DEF Spec, OneCommitPerMerge

\* No step of any script rewrites master: a push extends it or leaves it.
THEOREM MasterOnlyGrows == Spec => MasterGrows
<1>1. ASSUME IndInv PROVE master \in History /\ IsAncestor(master, master)
  BY <1>1, AncestorReflexive DEF IndInv, TypeInv
<1>2. ASSUME NEW u, NEW subject, NEW pushed \in BOOLEAN, NEW place,
             CommitAndPush(u, subject, pushed, place)
      PROVE  UNCHANGED master \/ IsAncestor(master, master')
  BY <1>2, Zenon DEF CommitAndPush
<1>3. ASSUME NEW u \in Users, commitAgent(u) \/ codeSpec(u) \/ fixFindings(u)
      PROVE  UNCHANGED master \/ IsAncestor(master, master')
  BY <1>2, <1>3, Zenon DEF commitAgent, codeSpec, fixFindings
<1>4. ASSUME NEW u \in Users, changeMerge(u)
      PROVE  UNCHANGED master \/ IsAncestor(master, master')
  BY <1>4, Zenon DEF changeMerge, mergeBegin, mergeVerify, pushSquash, updateRef, checkoutBase,
     pullBase, mergeFastForward, pushBase, verifyBase, deleteBranch
<1>5. Next => UNCHANGED master \/ IsAncestor(master, master')
  BY <1>3, <1>4, Zenon DEF Next, Edit, createChangeBranch, reviewLoop, beginPass,
     reviewPass, commitMeanwhile, Leave
<1>6. IndInv /\ [Next]_vars => [IsAncestor(master, master')]_vars
  <2> SUFFICES ASSUME IndInv, Next PROVE IsAncestor(master, master')
    BY Zenon
  <2> QED BY <1>1, <1>5, Zenon
<1> QED BY <1>6, Invariance, PTL DEF Spec, MasterGrows
=============================================================================

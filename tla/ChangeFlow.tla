----------------------------- MODULE ChangeFlow -----------------------------
(***************************************************************************)
(* The scripts that take a change from its branch to master, run by        *)
(* several people, each in a clone of their own, on one change: branch     *)
(* creation, commits, the implementation and review loops around the       *)
(* coding agent, and the squash merge.  Git and the remote are external:   *)
(* what they do is taken from the commands that the scripts run.  Any      *)
(* command may fail and any script may be interrupted between two steps.   *)
(*                                                                         *)
(* Histories are linear, so a commit is the sequence of its ancestors and  *)
(* itself, each with the work its tree holds and its subject; commits that *)
(* agree in both and in their parent are one commit.                       *)
(***************************************************************************)
EXTENDS Naturals, Sequences

CONSTANTS Users,
          MaxWork,      \* bound: pieces of work (edits) over a behaviour
          MaxFixes,     \* bound: fix commits of one review loop
          MaxHistory    \* bound: commits on master for a merge to begin

VARIABLES
    master, branch,   \* the remote's master and change/<slug>, NoRef when deleted
    ref,              \* per clone: its branches and its remote-tracking branches
    cur,              \* per clone: the branch checked out
    edits,            \* per clone: uncommitted work in the tree
    proc,             \* per clone: the script that runs there, and where it is
    work,             \* pieces of work made so far
    published         \* work that some push has put on the remote

vars == <<master, branch, ref, cur, edits, proc, work, published>>

NoRef == <<>>
Tree(c) == IF c = NoRef THEN {} ELSE c[Len(c)].tree
Subject == "Implement change"
\* A commit is an ancestor of itself.
IsAncestor(c, d) == Len(c) <= Len(d) /\ SubSeq(d, 1, Len(c)) = c
Parent(c) == SubSeq(c, 1, Len(c) - 1)
Commit(c, tree, subject) == Append(c, [tree |-> tree, subject |-> subject])
Tip(u) == ref[u][cur[u]]
Idle == [at |-> "idle", head |-> NoRef, squash |-> NoRef,
         reviewed |-> {}, fixed |-> {}, fixes |-> 0]
At(u, place) == proc[u].at = place
Goto(u, place) == proc' = [proc EXCEPT ![u].at = place]

Init ==
    LET first == Commit(NoRef, {}, "initial") IN
    /\ master = first /\ branch = NoRef
    /\ ref = [u \in Users |-> [master |-> first, change |-> NoRef,
                               originMaster |-> first, originChange |-> NoRef]]
    /\ cur = [u \in Users |-> "master"]
    /\ edits = [u \in Users |-> {}]
    /\ proc = [u \in Users |-> Idle]
    /\ work = 0 /\ published = {}

\* git fetch without --prune: a branch the remote has lost stays tracked.
Fetched(u) == [ref[u] EXCEPT !.originMaster = master,
                             !.originChange = IF branch = NoRef THEN @ ELSE branch]

-----------------------------------------------------------------------------
(* Someone, or the agent, changes a file; a script may be running. *)
Edit(u) ==
    /\ work < MaxWork
    /\ work' = work + 1
    /\ edits' = [edits EXCEPT ![u] = @ \union {work'}]
    /\ UNCHANGED <<master, branch, ref, cur, proc, published>>

\* ensure_clean_worktree of every script but the commit helpers.
ensure_clean_worktree(u) == edits[u] = {}

\* create-change-branch.sh: the branch of the clone, else the tracked one, else
\* a new one from the clone's master, which the script does not pull.
checkoutChange(c, tracked, base) ==
    IF c # NoRef THEN c ELSE IF tracked # NoRef THEN tracked ELSE base
createChangeBranch(u) ==
    /\ At(u, "idle") /\ ensure_clean_worktree(u)
    /\ LET f == Fetched(u) IN
       \/ /\ ref' = [ref EXCEPT ![u] =
                        [f EXCEPT !.change = checkoutChange(@, f.originChange, f.master)]]
          /\ cur' = [cur EXCEPT ![u] = "change"]
       \/ /\ ref' \in {ref, [ref EXCEPT ![u] = f]}      \* fails after git checkout master
          /\ cur' = [cur EXCEPT ![u] = "master"]
    /\ UNCHANGED <<master, branch, edits, proc, work, published>>

\* git add -A; git commit; git push: the push is a fast-forward of the remote
\* branch, or it fails and leaves the commit in the clone.
CommitAndPush(u, subject, pushed, place) ==
    LET c == Commit(Tip(u), Tree(Tip(u)) \union edits[u], subject)
        remote == IF cur[u] = "master" THEN master ELSE branch
    IN /\ edits[u] # {}
       /\ pushed => IsAncestor(remote, c)
       /\ edits' = [edits EXCEPT ![u] = {}]
       /\ ref' = [ref EXCEPT ![u][cur[u]] = c,
                             ![u].originMaster = IF pushed /\ cur[u] = "master" THEN c ELSE @,
                             ![u].originChange = IF pushed /\ cur[u] = "change" THEN c ELSE @]
       /\ master' = IF pushed /\ cur[u] = "master" THEN c ELSE master
       /\ branch' = IF pushed /\ cur[u] = "change" THEN c ELSE branch
       /\ published' = IF pushed THEN published \union Tree(c) ELSE published
       /\ proc' = [proc EXCEPT ![u] = IF pushed THEN place ELSE Idle]
       /\ UNCHANGED <<cur, work>>

commitAgent(u) ==
    /\ At(u, "idle")
    /\ \E pushed \in BOOLEAN : CommitAndPush(u, "commit", pushed, Idle)

-----------------------------------------------------------------------------
(* codex-code-spec.pl and codex-review-loop.pl: the script looks at the tree *)
(* and at HEAD, lets the agent work, looks again, and commits what is there. *)
codeSpec(u) ==
    \/ /\ At(u, "idle") /\ ensure_clean_worktree(u) /\ cur[u] = "change"
       /\ proc' = [proc EXCEPT ![u] = [Idle EXCEPT !.at = "implement", !.head = Tip(u)]]
       /\ UNCHANGED <<master, branch, ref, cur, edits, work, published>>
    \/ /\ At(u, "implement") /\ Tip(u) = proc[u].head
       /\ \E pushed \in BOOLEAN : CommitAndPush(u, Subject, pushed, Idle)

\* A pass reviews what HEAD is when it begins.  No comments end the loop, which
\* does not look at HEAD again; comments lead to a fix, for which HEAD is read
\* after the review, and which the loop commits and pushes before the next pass.
reviewLoop(u) ==
    /\ At(u, "idle") /\ ensure_clean_worktree(u)
    /\ proc' = [proc EXCEPT ![u] = [Idle EXCEPT !.at = "pass"]]
    /\ UNCHANGED <<master, branch, ref, cur, edits, work, published>>
beginPassPinned(u) ==      \* the range to review is resolved once, for all passes
    /\ At(u, "pass")
    /\ proc' = [proc EXCEPT ![u].at = "review",
                            ![u].reviewed = IF proc[u].fixes = 0 THEN Tree(Tip(u)) ELSE @]
    /\ UNCHANGED <<master, branch, ref, cur, edits, work, published>>
beginPass(u) ==
    /\ At(u, "pass")
    /\ proc' = [proc EXCEPT ![u].at = "review", ![u].reviewed = Tree(Tip(u))]
    /\ UNCHANGED <<master, branch, ref, cur, edits, work, published>>
reviewPass(u) ==
    /\ At(u, "review")
    /\ \/ Goto(u, "approved")
       \/ /\ proc[u].fixes < MaxFixes
          /\ proc' = [proc EXCEPT ![u].at = "fix", ![u].head = Tip(u)]
    /\ UNCHANGED <<master, branch, ref, cur, edits, work, published>>
fixFindings(u) ==
    /\ At(u, "fix") /\ Tip(u) = proc[u].head
    /\ \E pushed \in BOOLEAN :
           CommitAndPush(u, "review fixes", pushed,
               [proc[u] EXCEPT !.at = "pass", !.fixes = @ + 1, !.head = NoRef,
                               !.fixed = Tree(Tip(u)) \union edits[u]])

\* While a script runs, the agent commits although it is told not to, or the
\* clone's owner does.  The scripts notice it only between the two readings of
\* HEAD around an implementation or a fix, and then fail.
commitMeanwhile(u) ==
    /\ ~At(u, "idle") /\ edits[u] # {}
    /\ ref' = [ref EXCEPT ![u][cur[u]] = Commit(@, Tree(@) \union edits[u], "meanwhile")]
    /\ edits' = [edits EXCEPT ![u] = {}]
    /\ UNCHANGED <<master, branch, cur, proc, work, published>>

\* A command fails, the script is interrupted, or the review loop returns.
Leave(u) ==
    /\ ~At(u, "idle")
    /\ proc' = [proc EXCEPT ![u] = Idle]
    /\ UNCHANGED <<master, branch, ref, cur, edits, work, published>>
-----------------------------------------------------------------------------
(* change-merge.pl and change-merge-direct.pl, which differ in the subject    *)
(* they are given and in the questions change-merge.pl asks about the pull    *)
(* request, whose answers can only end the script; the base is master.        *)
mergeBegin(u) ==
    /\ At(u, "idle") /\ cur[u] = "change" /\ ensure_clean_worktree(u)
    /\ Len(master) <= MaxHistory
    /\ ref' = [ref EXCEPT ![u] = Fetched(u)]
    /\ Goto(u, "fetched")
    /\ UNCHANGED <<master, branch, cur, edits, work, published>>

AnyBase(u) == TRUE
ensure_base_is_ancestor(u) == IsAncestor(ref[u].originMaster, Tip(u))
is_squashed_change_commit(u) ==
    LET c == Tip(u) IN Len(c) > 1 /\ Parent(c) = ref[u].originMaster /\ c[Len(c)].subject = Subject
create_commit_on_head(u) == Commit(Tip(u), Tree(Tip(u)), Subject)
create_squash_commit(u) == Commit(ref[u].originMaster, Tree(Tip(u)), Subject)
mergeVerify(u) ==
    /\ At(u, "fetched")
    /\ branch = Tip(u)
    /\ ensure_base_is_ancestor(u)
    /\ proc' = [proc EXCEPT ![u] =
                  IF is_squashed_change_commit(u)
                  THEN [@ EXCEPT !.at = "checkout", !.head = Tip(u), !.squash = Tip(u)]
                  ELSE [@ EXCEPT !.at = "squash", !.head = Tip(u),
                                 !.squash = create_squash_commit(u)]]
    /\ UNCHANGED <<master, branch, ref, cur, edits, work, published>>

\* push --force-with-lease: only while the remote branch is what was verified.
Leased(u, expected) == branch = expected
pushSquash(u) ==
    /\ At(u, "squash") /\ Leased(u, proc[u].head)
    /\ branch' = proc[u].squash
    /\ ref' = [ref EXCEPT ![u].originChange = proc[u].squash]
    /\ Goto(u, "update")
    /\ UNCHANGED <<master, cur, edits, work, published>>
updateRef(u) ==
    /\ At(u, "update") /\ ref[u].change = proc[u].head
    /\ ref' = [ref EXCEPT ![u].change = proc[u].squash]
    /\ Goto(u, "checkout")
    /\ UNCHANGED <<master, branch, cur, edits, work, published>>
checkoutBase(u) ==
    /\ At(u, "checkout")
    /\ cur' = [cur EXCEPT ![u] = "master"]
    /\ Goto(u, "pull")
    /\ UNCHANGED <<master, branch, ref, edits, work, published>>
\* pull --ff-only and merge --ff-only: what is behind moves forward, what is
\* ahead is left alone (a run that failed before its push), the rest fails.
FastForwards(from, to) == IsAncestor(from, to) \/ IsAncestor(to, from)
FastForward(from, to) == IF IsAncestor(from, to) THEN to ELSE from
pullBase(u) ==
    /\ At(u, "pull") /\ FastForwards(ref[u].master, master)
    /\ ref' = [ref EXCEPT ![u].master = FastForward(@, master), ![u].originMaster = master]
    /\ Goto(u, "merge")
    /\ UNCHANGED <<master, branch, cur, edits, work, published>>
mergeFastForward(u) ==
    /\ At(u, "merge") /\ FastForwards(ref[u].master, ref[u].change)
    /\ ref' = [ref EXCEPT ![u].master = FastForward(@, ref[u].change)]
    /\ Goto(u, "push")
    /\ UNCHANGED <<master, branch, cur, edits, work, published>>
\* HEAD is compared with the squash commit before the push.
pushBase(u) ==
    /\ At(u, "push") /\ ref[u].master = proc[u].squash /\ IsAncestor(master, ref[u].master)
    /\ master' = ref[u].master
    /\ ref' = [ref EXCEPT ![u].originMaster = master']
    /\ published' = published \union Tree(master')
    /\ Goto(u, "verify")
    /\ UNCHANGED <<branch, cur, edits, work>>
verifyBase(u) ==
    /\ At(u, "verify") /\ master = proc[u].squash
    /\ Goto(u, "delete")
    /\ UNCHANGED <<master, branch, ref, cur, edits, work, published>>
deleteBranch(u) ==
    /\ At(u, "delete") /\ Leased(u, proc[u].squash)
    /\ branch' = NoRef
    /\ ref' = [ref EXCEPT ![u].originChange = NoRef]
    /\ proc' = [proc EXCEPT ![u] = Idle]
    /\ UNCHANGED <<master, cur, edits, work, published>>

changeMerge(u) ==
    \/ mergeBegin(u) \/ mergeVerify(u) \/ pushSquash(u) \/ updateRef(u) \/ checkoutBase(u)
    \/ pullBase(u) \/ mergeFastForward(u) \/ pushBase(u) \/ verifyBase(u) \/ deleteBranch(u)

Next ==
    \E u \in Users :
        \/ Edit(u) \/ createChangeBranch(u) \/ commitAgent(u)
        \/ codeSpec(u) \/ reviewLoop(u) \/ beginPass(u) \/ reviewPass(u) \/ fixFindings(u)
        \/ commitMeanwhile(u) \/ changeMerge(u) \/ Leave(u)

Spec == Init /\ [][Next]_vars

-----------------------------------------------------------------------------
\* Safety: work that was once pushed is on the remote for good, on the change
\* branch or on master, although merges rewrite the branch with a force push
\* and delete it while others push to it and to master.
NothingPushedIsLost == published \subseteq Tree(master) \union Tree(branch)

\* Action: a merge puts exactly one commit on master, on top of what master is
\* at that moment, and it holds the tree of the branch as it was verified.
OneCommitPerMerge ==
    [][\A u \in Users : pushBase(u) =>
           \/ UNCHANGED master
           \/ Parent(master') = master /\ Tree(master') = Tree(proc[u].head)]_vars

\* Safety: when the review loop reports no comments, its last pass has looked at
\* all that its fixes committed, and the remote has it: whatever is committed in
\* the clone between a review, the fix it asks for and the next pass, no fix is
\* trusted unseen and none stays behind in the clone.
FixesReviewed ==
    \A u \in Users : At(u, "approved") =>
        proc[u].fixed \subseteq proc[u].reviewed \intersect published
=============================================================================

------------------------------- MODULE Purge -------------------------------
(***************************************************************************)
(* The removal of finished work (scripts/portfolio_purge.py, with the      *)
(* classification of scripts/branch_inventory.py) in one repository, while *)
(* people go on working in it.  A change is a commit; main and branches    *)
(* are the sets of changes they contain, and a squash brings main the      *)
(* content of a branch without its history.  Reports, detached worktrees   *)
(* and orphans, which are never removed, and images are left out.          *)
(***************************************************************************)
EXTENDS Integers, FiniteSets

CONSTANTS
  Topics,          \* names of branches
  Backups,         \* those under a backup prefix
  Changes,         \* bound: the commits there can be
  MaxPurgeEvents   \* bound: what people do, fetches that fail

ASSUME PurgeAssumption ==
  Backups \subseteq Topics /\ "main" \notin Topics /\ MaxPurgeEvents \in Nat

VARIABLES
  main,      \* main on GitHub: its history and its content
  fetched,   \* origin/main, as fetched last
  local,     \* [Topics -> the local branch]
  remote,    \* [Topics -> the branch on GitHub]
  tracking,  \* [Topics -> the branch on GitHub, as fetched last]
  prs,       \* [Topics -> states of the pull requests of that name]
  trees,     \* [Topics -> the linked worktree on the branch]
  head,      \* the branch of the main checkout
  purge,     \* the run
  purgeEvents,
  moved      \* history: branches committed to since the run has classified them

purgeVars == <<main, fetched, local, remote, tracking, prs, trees, head, purge,
               purgeEvents, moved>>
refs == <<fetched, tracking>>
hub == <<main, remote, prs>>

Line == [there : BOOLEAN, work : SUBSET Changes]
NoLine == [there |-> FALSE, work |-> {}]
Trunk == [hist : SUBSET Changes, content : SUBSET Changes]
Trees == {"none", "new", "old", "dirty", "locked", "gone"}
Asleep == [at |-> "off"]

PurgeInit ==
  /\ main = [hist |-> {}, content |-> {}] /\ fetched = main
  /\ local = [n \in Topics |-> NoLine] /\ remote = local /\ tracking = local
  /\ prs = [n \in Topics |-> {}] /\ trees = [n \in Topics |-> "none"]
  /\ head = "main" /\ purge = Asleep /\ purgeEvents = 0 /\ moved = {}

-----------------------------------------------------------------------------
(* People at work.                                                         *)

Act == purgeEvents < MaxPurgeEvents /\ purgeEvents' = purgeEvents + 1
Made == main.content \cup UNION {local[n].work \cup remote[n].work : n \in Topics}

\* git refuses to delete or to check out twice a branch that is checked out.
CheckedOut(n) == head = n \/ trees[n] \notin {"none"}

Branch(n) ==
  /\ Act /\ ~local[n].there /\ local' = [local EXCEPT ![n] = [there |-> TRUE, work |-> {}]]
  /\ \/ head' = n /\ UNCHANGED trees
     \/ trees' = [trees EXCEPT ![n] = "new"] /\ UNCHANGED head
  /\ UNCHANGED <<hub, refs, purge, moved>>

SwitchTo(n) ==
  /\ Act /\ \/ n \in Topics /\ local[n].there /\ ~CheckedOut(n)
            \/ n = "main" /\ head # "main"
  /\ head' = n /\ UNCHANGED <<hub, refs, local, trees, purge, moved>>

\* The worktree ages, is edited, is locked, or its directory is deleted.
TreeChanges(n, s) ==
  /\ Act /\ trees[n] \notin {"none", "gone", s} /\ (s = "old" => trees[n] = "new")
  /\ trees' = [trees EXCEPT ![n] = s]
  /\ UNCHANGED <<hub, refs, local, head, purge, moved>>

Commit(n, c) ==
  /\ Act /\ c \notin Made /\ (head = n \/ trees[n] \in {"new", "old", "dirty"})
  /\ local' = [local EXCEPT ![n].work = @ \cup {c}] /\ moved' = moved \cup {n}
  /\ trees' = IF head = n THEN trees ELSE [trees EXCEPT ![n] = "new"]
  /\ UNCHANGED <<hub, refs, head, purge>>

PushTopic(n) ==
  /\ Act /\ local[n].there /\ remote[n].work \subseteq local[n].work
  /\ remote' = [remote EXCEPT ![n] = local[n]]
  /\ tracking' = [tracking EXCEPT ![n] = local[n]]
  /\ UNCHANGED <<main, fetched, local, prs, trees, head, purge, moved>>

\* Somebody else pushes to the branch.
OtherPush(n, c) ==
  /\ Act /\ remote[n].there /\ c \notin Made
  /\ remote' = [remote EXCEPT ![n].work = @ \cup {c}]
  /\ UNCHANGED <<main, prs, refs, local, trees, head, purge, moved>>

OpenRequest(n) ==
  /\ Act /\ remote[n].there /\ "open" \notin prs[n]
  /\ prs' = [prs EXCEPT ![n] = @ \cup {"open"}]
  /\ UNCHANGED <<main, remote, refs, local, trees, head, purge, moved>>

EndRequest(n, how) ==
  /\ Act /\ "open" \in prs[n] /\ remote[n].there
  /\ prs' = [prs EXCEPT ![n] = (@ \ {"open"})
                               \cup {IF how = "closed" THEN "closed" ELSE "merged"}]
  /\ main' = IF how = "closed" THEN main
             ELSE [hist |-> IF how = "merge" THEN main.hist \cup remote[n].work ELSE main.hist,
                   content |-> main.content \cup remote[n].work]
  /\ UNCHANGED <<remote, refs, local, trees, head, purge, moved>>

-----------------------------------------------------------------------------
(* The run.                                                                *)

Doing(label) == purge.at = label
To(label) == purge' = [purge EXCEPT !.at = label]

\* GitHub's answer about pull requests, or none: gh is not used, or has failed.
Answers(n) == {prs[n], {}}

Redundant(n) == local[n].work \subseteq fetched.content

\* classify, with pr_state's order: a merged request counts before an open one.
Category(n, answer) ==
  CASE local[n].work \subseteq fetched.hist -> "merged"
    [] ~(local[n].work \subseteq fetched.hist) /\ "merged" \in answer -> "merged"
    [] ~(local[n].work \subseteq fetched.hist) /\ "merged" \notin answer
       /\ "open" \in answer -> "open-pr"
    [] ~(local[n].work \subseteq fetched.hist) /\ {"merged", "open"} \cap answer = {} ->
       IF Redundant(n) THEN "redundant" ELSE "undecided"

Removable == {"merged", "redundant"}

PurgeStart ==
  /\ Doing("off")
  /\ \E e \in SUBSET Backups, r \in BOOLEAN :
       purge' = [at |-> "fetch", todo |-> Topics, topic |-> "main", inUse |-> {},
                 cleared |-> {}, expired |-> e, remotes |-> r, head |-> head, answer |-> {},
                 seen |-> {}]
  /\ UNCHANGED <<hub, refs, local, trees, head, purgeEvents, moved>>

\* fetch --prune; one that fails is survived.
Fetched ==
  /\ Doing("fetch") /\ To("trees")
  /\ \/ fetched' = main /\ tracking' = remote /\ UNCHANGED purgeEvents
     \/ Act /\ UNCHANGED refs
  /\ UNCHANGED <<hub, local, trees, head, moved>>

\* What purge_worktrees finds of a worktree: kept, its branch in use; a record
\* whose directory is gone; or one to remove.
TreeLook(n) == \E a \in Answers(n) :
  /\ Doing("trees") /\ n \in purge.todo
  /\ CASE trees[n] \in {"none", "gone"} -> purge' = [purge EXCEPT !.todo = @ \ {n}]
       [] trees[n] \in {"locked", "dirty", "new"}
          \/ (trees[n] = "old" /\ Category(n, a) \notin Removable) ->
          purge' = [purge EXCEPT !.todo = @ \ {n}, !.inUse = @ \cup {n}]
       [] trees[n] = "old" /\ Category(n, a) \in Removable ->
          purge' = [purge EXCEPT !.at = "remove", !.topic = n]
  /\ UNCHANGED <<hub, refs, local, trees, head, purgeEvents, moved>>

\* git worktree remove refuses what is locked or not clean.
Refused(n) == trees[n] \in {"locked", "dirty"}

RemoveTree == LET n == purge.topic IN
  /\ Doing("remove")
  /\ IF Refused(n)
     THEN /\ purge' = [purge EXCEPT !.at = "trees", !.todo = @ \ {n}, !.inUse = @ \cup {n}]
          /\ UNCHANGED trees
     ELSE /\ purge' = [purge EXCEPT !.at = "trees", !.todo = @ \ {n}, !.cleared = @ \cup {n}]
          /\ trees' = [trees EXCEPT ![n] = "none"]
  /\ UNCHANGED <<hub, refs, local, head, purgeEvents, moved>>

\* git worktree prune; then purge_branches looks at the main checkout once.
Prune ==
  /\ Doing("trees") /\ purge.todo = {}
  /\ trees' = [n \in Topics |-> IF trees[n] = "gone" THEN "none" ELSE trees[n]]
  /\ purge' = [purge EXCEPT !.at = "branches", !.head = head,
                            !.todo = {n \in Topics : local[n].there}]
  /\ UNCHANGED <<hub, refs, local, head, purgeEvents, moved>>

\* Mutant: a branch whose worktree was just removed is not classified again.
ClassifiedBefore(n, a) == IF n \in purge.cleared THEN "merged" ELSE Category(n, a)

Again(n, a) == Category(n, a)

BranchLook(n) == \E a \in Answers(n) :
  /\ Doing("branches") /\ n \in purge.todo
  /\ IF \/ n = purge.head \/ n \in purge.inUse
        \/ Again(n, a) \notin Removable /\ n \notin purge.expired
     THEN purge' = [purge EXCEPT !.todo = @ \ {n}] /\ UNCHANGED moved
     ELSE purge' = [purge EXCEPT !.at = "delete", !.topic = n] /\ moved' = moved \ {n}
  /\ UNCHANGED <<hub, refs, local, trees, head, purgeEvents>>

\* Mutant: the reference is deleted, not the branch.
Whatever(n) == TRUE

\* git branch -D refuses only a branch that is checked out.
Deletable(n) == ~CheckedOut(n)

DeleteBranch == LET n == purge.topic IN
  /\ Doing("delete") /\ purge' = [purge EXCEPT !.at = "branches", !.todo = @ \ {n}]
  /\ local' = IF Deletable(n) THEN [local EXCEPT ![n] = NoLine] ELSE local
  /\ UNCHANGED <<hub, refs, trees, head, purgeEvents, moved>>

BranchesDone ==
  /\ Doing("branches") /\ purge.todo = {}
  /\ purge' = IF purge.remotes
              THEN [purge EXCEPT !.at = "remotes", !.todo = {n \in Topics : tracking[n].there}]
              ELSE Asleep
  /\ UNCHANGED <<hub, refs, local, trees, head, purgeEvents, moved>>

\* purge_remote_branches, with remote_pr_state: an open request keeps the branch.
KeepRemote(n, answer) ==
  \/ "open" \in answer
  \/ "merged" \notin answer /\ ~(tracking[n].work \subseteq fetched.hist)

RemoteLook(n) == \E a \in Answers(n) :
  /\ Doing("remotes") /\ n \in purge.todo
  /\ purge' = IF KeepRemote(n, a) THEN [purge EXCEPT !.todo = @ \ {n}]
              ELSE [purge EXCEPT !.at = "push", !.topic = n, !.answer = a,
                                       !.seen = tracking[n].work]
  /\ UNCHANGED <<hub, refs, local, trees, head, purgeEvents, moved>>

\* git push origin --delete, whatever the branch is by now.
DeleteRemote == LET n == purge.topic IN
  /\ Doing("push") /\ purge' = [purge EXCEPT !.at = "remotes", !.todo = @ \ {n}]
  /\ remote' = [remote EXCEPT ![n] = NoLine]
  /\ tracking' = IF remote[n].there THEN [tracking EXCEPT ![n] = NoLine] ELSE tracking
  /\ UNCHANGED <<main, prs, fetched, local, trees, head, purgeEvents, moved>>

RemotesDone ==
  /\ Doing("remotes") /\ purge.todo = {} /\ purge' = Asleep
  /\ UNCHANGED <<hub, refs, local, trees, head, purgeEvents, moved>>

PurgeNext ==
  \/ PurgeStart \/ Fetched \/ RemoveTree \/ Prune \/ DeleteBranch \/ BranchesDone
  \/ DeleteRemote \/ RemotesDone
  \/ \E n \in Topics :
       \/ TreeLook(n) \/ BranchLook(n) \/ RemoteLook(n)
       \/ Branch(n) \/ PushTopic(n) \/ OpenRequest(n)
       \/ \E s \in {"old", "dirty", "locked", "gone"} : TreeChanges(n, s)
       \/ \E c \in Changes : Commit(n, c) \/ OtherPush(n, c)
       \/ \E how \in {"merge", "squash", "closed"} : EndRequest(n, how)
  \/ \E n \in Topics \cup {"main"} : SwitchTo(n)

PurgeSpec == PurgeInit /\ [][PurgeNext]_purgeVars

-----------------------------------------------------------------------------
(* Properties.                                                             *)

\* Branches and worktrees are what they should be: a branch that is checked out
\* exists, in one place, and what was fetched has been on GitHub.
PurgeTypeOK ==
  /\ main \in Trunk /\ fetched \in Trunk /\ main.hist \subseteq main.content
  /\ {local[n] : n \in Topics} \cup {remote[n] : n \in Topics}
     \cup {tracking[n] : n \in Topics} \subseteq Line
  /\ trees \in [Topics -> Trees] /\ head \in Topics \cup {"main"}
  /\ fetched.content \subseteq main.content /\ fetched.hist \subseteq main.hist
  /\ \A n \in Topics : CheckedOut(n) => local[n].there /\ (head # n \/ trees[n] = "none")

\* Only what is finished goes, whatever people did since it was looked at.
\* A worktree is clean and not locked.  Of a local branch main has the content, or
\* a request of its name was merged, or it is a backup that expired, or it was
\* committed to at the last moment; that it was committed to before, while its
\* worktree went, is noticed.  A branch on GitHub is another one than was looked at,
\* or main has its content, or a request was merged; and none is open, as GitHub said.
OnlyFinishedGoes ==
  [][\A n \in Topics :
       /\ RemoveTree /\ trees'[n] # trees[n] => trees[n] \notin {"locked", "dirty"}
       /\ DeleteBranch /\ local'[n] # local[n] =>
            \/ local[n].work \subseteq main.content
            \/ "merged" \in prs[n] \/ n \in purge.expired \/ n \in moved
       /\ DeleteRemote /\ remote'[n] # remote[n] =>
            /\ \/ purge.seen # remote[n].work \/ remote[n].work \subseteq main.content
               \/ "merged" \in prs[n]
            /\ purge.answer = prs[n] => "open" \notin prs[n]]_purgeVars

\* portfolio_purge.py: it only ever removes things that can be shown to hold
\* nothing.  Unless it was committed to after it was classified, a local branch that
\* is deleted has left no change that is nowhere else.
NothingHeld ==
  [][DeleteBranch => \A n \in Topics \ (purge.expired \cup moved) : local'[n] # local[n] =>
       local[n].work \subseteq main.content \cup remote[n].work]_purgeVars
=============================================================================

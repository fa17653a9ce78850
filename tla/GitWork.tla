------------------------------ MODULE GitWork -------------------------------
(***************************************************************************)
(* cli/commands/git_cmds.py over app/core/git_helper.py: what /git, /diff, *)
(* /branch and the agent's commits do to a repository that the user's      *)
(* editor and shell, and other people, change at any time.  Every call of  *)
(* git is a process of its own with a time limit; one that is killed may   *)
(* leave index.lock behind.  A text is the number of the edit that wrote   *)
(* it, negative if that edit removed the file, 0 if it never was there.    *)
(* Conflicts are left out: git refuses where there would be one.           *)
(***************************************************************************)
EXTENDS Integers, Sequences

CONSTANTS
  GitFiles,    \* the files
  MaxEdits,    \* bound: the edits of the user
  MaxCommits,  \* bound: the commits, everybody's
  MaxStashes   \* bound: the entries of the stash

ASSUME GitAssumption == MaxEdits \in Nat /\ MaxCommits \in Nat /\ MaxStashes \in Nat

VARIABLES
  worktree,  \* worktree[f]: the text of file f
  staged,     \* staged[f]: its text in the index
  commits,   \* commits[i]: the tree of commit i, and the commits it comes after
  head,      \* HEAD
  upstream,  \* upstream.there, .known: the remote's commit, and origin's as fetched
  onBranch,  \* /branch has left the branch that follows the remote's
  stashes,   \* the entries, the newest first
  indexLock, \* a killed git has left index.lock
  edits,     \* the edits so far
  gitCommand \* the command that waits for the model or the user

repo == <<worktree, staged, commits, head, upstream, onBranch, stashes, indexLock>>
gitVars == <<repo, edits, gitCommand>>

Age(text) == IF text < 0 THEN -text ELSE text
Same(text, other) == text = other \/ (text <= 0 /\ other <= 0)
Tree == commits[head].tree
Before(i) == commits[i].before

\* No command waits; saw has the texts a command has shown to the user or the model.
Nobody == [name |-> "none", at |-> "ready", saw |-> [f \in {} |-> 0]]

GitInit ==
  /\ worktree = [f \in GitFiles |-> 0] /\ staged = worktree
  /\ commits = <<[tree |-> worktree, before |-> {1}]>>
  /\ head = 1
  /\ upstream = [there |-> 1, known |-> 1]
  /\ onBranch = FALSE
  /\ stashes = <<>>
  /\ indexLock = FALSE
  /\ edits = 0
  /\ gitCommand = Nobody

-----------------------------------------------------------------------------
(* git itself.                                                             *)

StagedFiles == {f \in GitFiles : ~Same(staged[f], Tree[f])}
Unstaged == {f \in GitFiles : staged[f] > 0 /\ ~Same(worktree[f], staged[f])}
Tracked(g) == g \in GitFiles /\ (staged[g] > 0 \/ Tree[g] > 0)
Clean(f) == Same(worktree[f], staged[f]) /\ Same(staged[f], Tree[f])

Reached(tree, after) ==
  /\ Len(commits) < MaxCommits
  /\ commits' = Append(commits, [tree |-> tree, before |-> after \cup {Len(commits) + 1}])

\* The files that differ take the texts of another tree, if they have none of their own.
Moved(tree) ==
  LET new == {f \in GitFiles : ~Same(tree[f], Tree[f])}
  IN /\ \A f \in new : Clean(f)
     /\ worktree' = [f \in GitFiles |-> IF f \in new THEN tree[f] ELSE worktree[f]]
     /\ staged' = [f \in GitFiles |-> IF f \in new THEN tree[f] ELSE staged[f]]

\* A call that writes: it is done, and git may be killed after that; or nothing is
\* done, because git refuses or is killed at work.
Called(change, nothing) ==
  \/ ~indexLock /\ change /\ UNCHANGED indexLock
  \/ nothing /\ indexLock' \in {indexLock, TRUE}

-----------------------------------------------------------------------------
(* The user's editor and shell, and other people.                          *)

Edit ==
  /\ edits < MaxEdits
  /\ \E f \in GitFiles :
       \/ worktree' = [worktree EXCEPT ![f] = edits + 1]
       \/ worktree[f] > 0 /\ worktree' = [worktree EXCEPT ![f] = -(edits + 1)]
  /\ edits' = edits + 1
  /\ UNCHANGED <<staged, commits, head, upstream, onBranch, stashes, indexLock, gitCommand>>

StageFile ==
  /\ ~indexLock
  /\ \E f \in GitFiles :
       staged' = [staged EXCEPT ![f] = worktree[f]]
  /\ UNCHANGED <<worktree, commits, head, upstream, onBranch, stashes, indexLock, edits, gitCommand>>

RemoveLock ==
  /\ indexLock /\ indexLock' = FALSE
  /\ UNCHANGED <<worktree, staged, commits, head, upstream, onBranch, stashes, edits, gitCommand>>

OthersPush ==
  /\ edits < MaxEdits /\ edits' = edits + 1
  /\ \E f \in GitFiles :
       Reached([commits[upstream.there].tree EXCEPT ![f] = edits + 1], Before(upstream.there))
  /\ upstream' = [upstream EXCEPT !.there = Len(commits')]
  /\ UNCHANGED <<worktree, staged, head, onBranch, stashes, indexLock, gitCommand>>

-----------------------------------------------------------------------------
(* Commits.                                                                *)

Ready == gitCommand = Nobody
Waits(name, place, seen) ==
  gitCommand' = [name |-> name, at |-> place, saw |-> [f \in seen |-> worktree[f]]]

\* /git commit: a message on the line, or the files and the question for one.
GitCommit ==
  /\ Ready
  /\ \/ Waits("commit", "confirm", {})
     \/ /\ StagedFiles \cup Unstaged # {}
        /\ Waits("commit", "confirm", StagedFiles \cup Unstaged)
  /\ UNCHANGED <<repo, edits>>

\* ai-commit: the staged difference goes to the model, or else the unstaged one;
\* then it waits for the message, and shows it.
AiCommit ==
  /\ Ready
  /\ IF StagedFiles # {}
     THEN gitCommand' = [name |-> "ai-commit", at |-> "model",
                         saw |-> [f \in StagedFiles |-> staged[f]]]
     ELSE Unstaged # {} /\ Waits("ai-commit", "model", Unstaged)
  /\ UNCHANGED <<repo, edits>>

ModelAnswers ==
  /\ gitCommand.at = "model"
  /\ \/ gitCommand' = [gitCommand EXCEPT !.at = "confirm"]
     \/ gitCommand' = Nobody
  /\ UNCHANGED <<repo, edits>>

\* The message is empty, or the user says no.
CancelCommit ==
  /\ gitCommand.at = "confirm" /\ gitCommand' = Nobody
  /\ UNCHANGED <<repo, edits>>

\* git add -A, if the user says yes.
AddAll ==
  /\ gitCommand.name \in {"commit", "ai-commit"} /\ gitCommand.at = "confirm"
  /\ Called(/\ staged' = worktree
            /\ gitCommand' \in {Nobody, [gitCommand EXCEPT !.at = "commit"]},
            gitCommand' = Nobody /\ UNCHANGED staged)
  /\ UNCHANGED <<worktree, commits, head, upstream, onBranch, stashes, edits>>

\* git commit -m
Committed ==
  Called(/\ StagedFiles # {}
         /\ Reached(staged, Before(head))
         /\ head' = Len(commits'),
         UNCHANGED <<commits, head>>)

Commit ==
  /\ gitCommand.at = "commit" /\ gitCommand' = Nobody
  /\ Committed
  /\ UNCHANGED <<worktree, staged, upstream, onBranch, stashes, edits>>

\* The agent's commit takes what the user has staged and nothing else.
MaybeCommit ==
  /\ Ready
  /\ Committed
  /\ UNCHANGED <<worktree, staged, upstream, onBranch, stashes, edits, gitCommand>>

-----------------------------------------------------------------------------
(* The remote.                                                             *)

\* What both sides have changed since base is a conflict.
Merged(base, there) ==
  LET theirs == {f \in GitFiles : ~Same(there[f], base[f])}
  IN [conflict |-> \E f \in theirs : ~Same(Tree[f], base[f]) /\ ~Same(Tree[f], there[f]),
      tree |-> [f \in GitFiles |-> IF f \in theirs THEN there[f] ELSE Tree[f]]]

\* git pull: origin is known from then on, whatever becomes of the merge, which git
\* makes if it is set up to.
Pull ==
  /\ Ready
  /\ upstream' = [upstream EXCEPT !.known = upstream.there]
  /\ LET there == upstream.there
         shared == CHOOSE i \in Before(head) \cap Before(there) :
                     \A j \in Before(head) \cap Before(there) : j <= i
         merged == Merged(commits[shared].tree, commits[there].tree)
     IN Called(/\ ~onBranch /\ shared # there /\ ~merged.conflict
               /\ Moved(merged.tree)
               /\ IF shared = head
                  THEN head' = there /\ UNCHANGED commits
                  ELSE /\ Reached(merged.tree, Before(head) \cup Before(there))
                       /\ head' = Len(commits'),
               UNCHANGED <<worktree, staged, commits, head>>)
  /\ UNCHANGED <<onBranch, stashes, edits, gitCommand>>

\* Mutant of the next: git push --force.
ForcedPush(force) == force \/ upstream.there \in Before(head)
\* git push [--force-with-lease]
PushAllowed(force) ==
  (force /\ upstream.there = upstream.known) \/ upstream.there \in Before(head)

\* A forced one only after the user has typed yes.  A git that is killed may have
\* pushed and not noted it.
Push ==
  /\ Ready /\ ~onBranch
  /\ \E force \in BOOLEAN : PushAllowed(force)
  /\ \E known \in {head, upstream.known} : upstream' = [there |-> head, known |-> known]
  /\ UNCHANGED <<worktree, staged, commits, head, onBranch, stashes, indexLock, edits, gitCommand>>

-----------------------------------------------------------------------------
(* Stash, revert, reset, branch.                                           *)

\* The files git knows go back to HEAD.
Stash ==
  /\ Ready /\ Len(stashes) < MaxStashes
  /\ LET taken == {f \in GitFiles : Tracked(f) /\ ~Clean(f)}
     IN Called(/\ taken # {}
               /\ stashes' = <<[text |-> [f \in taken |-> worktree[f]], base |-> Tree]>> \o stashes
               /\ worktree' = [f \in GitFiles |-> IF f \in taken THEN Tree[f] ELSE worktree[f]]
               /\ staged' = Tree,
               UNCHANGED <<stashes, worktree, staged>>)
  /\ UNCHANGED <<commits, head, upstream, onBranch, edits, gitCommand>>

\* An entry is dropped only when it could be applied.
StashPop ==
  /\ Ready /\ stashes # <<>>
  /\ LET entry == Head(stashes)
         mine == DOMAIN entry.text
     IN Called(/\ \A f \in mine : Clean(f) /\ Same(Tree[f], entry.base[f])
               /\ worktree' = [f \in GitFiles |-> IF f \in mine THEN entry.text[f] ELSE worktree[f]]
               /\ staged' = [f \in GitFiles |-> IF f \in mine /\ Tree[f] <= 0 THEN entry.text[f]
                                               ELSE staged[f]]
               /\ stashes' = Tail(stashes),
               UNCHANGED <<worktree, staged, stashes>>)
  /\ UNCHANGED <<commits, head, upstream, onBranch, edits, gitCommand>>

\* /git revert shows the commit and asks; git revert undoes it if nothing has come
\* after it in its files, and the index is clean.
Revert ==
  /\ Ready
  /\ Called(\E i \in Before(head) \ {1} :
              LET parent == CHOOSE j \in Before(i) \ {i} :
                              \A k \in Before(i) \ {i} : k <= j
                  undone == {f \in GitFiles : ~Same(commits[i].tree[f], commits[parent].tree[f])}
                  tree == [f \in GitFiles |-> IF f \in undone THEN commits[parent].tree[f] ELSE Tree[f]]
              IN /\ \A f \in undone : Same(Tree[f], commits[i].tree[f])
                 /\ StagedFiles = {}
                 /\ Moved(tree)
                 /\ Reached(tree, Before(head))
                 /\ head' = Len(commits'),
            UNCHANGED <<worktree, staged, commits, head>>)
  /\ UNCHANGED <<upstream, onBranch, stashes, edits, gitCommand>>

\* Mutant of the next: git checkout HEAD -- file.
CheckedOut(f) ==
  /\ staged' = [staged EXCEPT ![f] = Tree[f]]
  /\ worktree' = [worktree EXCEPT ![f] = Tree[f]]
\* git reset HEAD -- file; --hard is refused.
ResetFile(f) ==
  /\ staged' = [staged EXCEPT ![f] = Tree[f]]
  /\ UNCHANGED worktree

GitReset ==
  /\ Ready
  /\ Called(\E f \in GitFiles : ResetFile(f), UNCHANGED <<staged, worktree>>)
  /\ UNCHANGED <<commits, head, upstream, onBranch, stashes, edits, gitCommand>>

\* git checkout -b, under a name of its own; nothing follows the remote's then.
NewBranch ==
  /\ Ready
  /\ ~onBranch /\ onBranch' = TRUE
  /\ UNCHANGED <<worktree, staged, commits, head, upstream, stashes, indexLock, edits, gitCommand>>

GitNext ==
  \/ Edit \/ StageFile \/ RemoveLock \/ OthersPush
  \/ GitCommit \/ AiCommit \/ ModelAnswers \/ MaybeCommit \/ CancelCommit \/ AddAll \/ Commit
  \/ Pull \/ Push
  \/ Stash \/ StashPop \/ Revert \/ GitReset \/ NewBranch

GitSpec == GitInit /\ [][GitNext]_gitVars

-----------------------------------------------------------------------------
\* The texts of f that the user has not committed: in the tree or put aside.
Uncommitted(f) == {worktree[f]} \cup
  {stashes[i].text[f] : i \in {j \in DOMAIN stashes : f \in DOMAIN stashes[j].text}}

\* No command loses work: a text the user has in the tree or the stash stays in one
\* of them or is in a commit (_git_commit and its siblings; "Blocked: /git reset
\* --hard", _git_reset).
KeepsWork ==
  edits' = edits =>
    \A f \in GitFiles : \A text \in Uncommitted(f) :
      \/ text <= 0 \/ text \in Uncommitted(f)'
      \/ \E i \in DOMAIN commits' : commits'[i].tree[f] = text

\* A commit of the remote that was not fetched stays the remote's
\* (--force-with-lease, push).
KeepsUnfetched ==
  Before(upstream.there) \ Before(upstream.known) \subseteq Before(upstream.there)'

\* A commit has of every file that was shown for it the text that was shown or a
\* later one (_git_commit, _git_ai_commit).
CommitsShown ==
  gitCommand.at = "commit" /\ head' # head =>
    \A f \in DOMAIN gitCommand.saw :
      Age(commits'[head'].tree[f]) >= Age(gitCommand.saw[f])

\* Whatever the commands, the user and the others do, no work is lost: neither what
\* the user has not committed nor what others have pushed, and what is committed is
\* what was shown (git_cmds.py over git_helper.py).
NoWorkLost == [][KeepsWork /\ KeepsUnfetched /\ CommitsShown]_gitVars
=============================================================================

----------------------------- MODULE Workspace ------------------------------
(* The git worktree in which providers work, as the scripts see it. A file of *)
(* the task's scope may differ from HEAD in several ways; a file outside the  *)
(* scope ("stray") is as the chain found it, or changed. `git status          *)
(* --porcelain` names the files that differ from HEAD, not what is in them.   *)
EXTENDS Integers

CONSTANTS
  MaxCommits,   \* bound on the commits of a behaviour
  NChanges      \* the ways in which the scope's file can differ from HEAD

VARIABLE ws

\* What is in the scope's file: 0 as in HEAD, else one of the changes to it.
Contents == 0 .. NChanges

Worktrees == [head : 0 .. MaxCommits, headStray : BOOLEAN,
              stray : BOOLEAN, scope : Contents]

Fresh == [head |-> 0, headStray |-> FALSE, stray |-> FALSE, scope |-> 0]

\* git_status_without_harness_state
Porcelain(w) == <<w.scope # 0, w.stray # w.headStray>>

Clean(w) == Porcelain(w) = <<FALSE, FALSE>>

\* Mutant of LooksUnchanged: a commit leaves no trace in the status text.
LooksUnchangedByStatus(v, w) == Porcelain(v) = Porcelain(w)

\* The test for a mutation: same status text and same HEAD.
LooksUnchanged(v, w) == Porcelain(v) = Porcelain(w) /\ v.head = w.head

\* Files outside the scope in the diff of the worktree, or of base..HEAD.
ChangesStray(base, w) == w.stray # w.headStray \/ w.headStray # base.headStray

\* Some files are written; a change may also be taken back.
WriteFiles(strays) ==
  \E c \in Contents, s \in strays \cup {ws.stray} :
    ws' = [ws EXCEPT !.scope = c, !.stray = s]

\* Some of the changed files are committed.
CommitFiles ==
  \E c \in {0, ws.scope}, s \in {ws.headStray, ws.stray} :
    /\ <<c, s>> # <<ws.scope, ws.headStray>>
    /\ ws.head < MaxCommits
    /\ ws' = [ws EXCEPT !.head = @ + 1, !.headStray = s, !.scope = c]
=============================================================================

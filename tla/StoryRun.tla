------------------------------ MODULE StoryRun ------------------------------
(* The state file of a chain of tasks, harness/story_runner.py: the status    *)
(* of every task and the stories that are sealed. Tasks are numbered in path  *)
(* order. Every command reads the file, decides, and replaces it; one session *)
(* and the chain it started are its only users, and they take turns.          *)
EXTENDS Integers, FiniteSets

CONSTANTS NTasks,   \* the number of impl tasks of the chain
          Story     \* the story of each task

Tasks == 1 .. NTasks
Statuses == {"pending", "running", "completed", "error", "blocked"}

ASSUME StoryRunConstants == NTasks \in Nat \ {0}

\* build_state refuses a chain in which the tasks of a story are not one block.
ASSUME StoriesContiguous ==
  \A t, v \in Tasks : \A u \in t .. v :
    Story[t] = Story[v] => Story[u] = Story[t]

VARIABLES status,   \* status of each task
          sealed    \* the stories of sealed_stories

storyVars == <<status, sealed>>

StoryInit ==
  /\ status = [t \in Tasks |-> "pending"]
  /\ sealed = {}

----------------------------------------------------------------------------
(* next-action                                                              *)

WithStatus(s) == {t \in Tasks : status[t] = s}

Completed == WithStatus("completed")

IsFirst(t, S) == t \in S /\ \A u \in S : t <= u

StoryTasks(s) == {t \in Tasks : Story[t] = s}

\* A finished story that is not sealed lies before task t.
BoundaryBefore(t) ==
  /\ t > 1
  /\ Story[t - 1] # Story[t]
  /\ Story[t - 1] \notin sealed
  /\ StoryTasks(Story[t - 1]) \subseteq Completed

NothingStopped == WithStatus("error") \cup WithStatus("blocked") = {}

\* Mutant of NextIsTask: a finished story need not be sealed.
NextIsTaskUnsealed(t) ==
  /\ NothingStopped
  /\ IF WithStatus("running") # {} THEN IsFirst(t, WithStatus("running"))
     ELSE IsFirst(t, WithStatus("pending"))

\* next-action answers with task t.
NextIsTask(t) ==
  /\ NothingStopped
  /\ \/ IsFirst(t, WithStatus("running"))
     \/ /\ WithStatus("running") = {}
        /\ IsFirst(t, WithStatus("pending"))
        /\ ~BoundaryBefore(t)

\* next-action answers with story-pr, task t waits behind the boundary.
NextIsBoundary(t) ==
  /\ NothingStopped
  /\ WithStatus("running") = {}
  /\ IsFirst(t, WithStatus("pending"))
  /\ BoundaryBefore(t)

----------------------------------------------------------------------------
(* Commands                                                                 *)

\* mark: any status, for any task; who calls it decides which.
Mark(t, s) ==
  /\ status' = [status EXCEPT ![t] = s]
  /\ UNCHANGED sealed

\* seal-story. The work of a chain is one line of commits, so the last commit
\* of the story is always in HEAD.
Seal ==
  \E t \in Tasks :
    /\ NextIsBoundary(t)
    /\ sealed' = sealed \cup {Story[t - 1]}
    /\ UNCHANGED status

StoryTypeOK ==
  /\ status \in [Tasks -> Statuses]
  /\ sealed \subseteq {Story[t] : t \in Tasks}
=============================================================================

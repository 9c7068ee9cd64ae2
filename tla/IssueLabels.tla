------------------------------ MODULE IssueLabels -----------------------------
(***************************************************************************)
(* The life of an issue by its labels                                      *)
(* (scripts/github_project_lifecycle.mjs and its workflow): start-work     *)
(* marks it in-progress, the job of a merged pull request takes the label  *)
(* off the issues it completes, each opening, edit and change of label     *)
(* asks for a validate-issue run, and next-work offers what is open.  The  *)
(* four read an issue and act on it in separate calls to GitHub, next to   *)
(* each other and to people.                                               *)
(***************************************************************************)
EXTENDS Integers, SequencesExt

CONSTANTS
  None,
  Issues,      \* issues, by number
  Kinds,       \* what an issue may be, see KindType
  Bodies       \* the completion references of each pull request that may be merged

VARIABLES
  issue,       \* None before it is opened, then its kind, its in-progress label, and its
               \* state: open, merged (closed by the merge) or closed (by hand)
  start,       \* the start-work under way, or None
  job,         \* the pr-merged job of each pull request: what it has left to do
  asked,       \* issues with a validate-issue run to come
  flagged      \* issues about which the last run or job failed or warned

vars == <<issue, start, job, asked, flagged>>

PRs == DOMAIN Bodies

\* The types that its labels name and the one named first, whether its priority is
\* urgent, and the issue that its body makes it a part of.
Types == {"epic", "story", "subTask", "feature", "task", "bug"}
KindType ==
  [types : SUBSET Types, first : Types \cup {None}, urgent : BOOLEAN, parent : Issues \cup {None}]
IssueType ==
  [kind : Kinds, state : {"open", "merged", "closed"}, running : BOOLEAN]
StartType == [issue : Issues, has : BOOLEAN]

LabelsConstants ==
  /\ \A pr \in PRs : Bodies[pr] \in Seq(Issues)
  /\ Kinds \subseteq KindType
  /\ \A k \in Kinds : IF k.types = {} THEN k.first = None ELSE k.first \in k.types
  /\ None \notin Types /\ None \notin IssueType /\ None \notin StartType

Opened == {i \in Issues : issue[i] # None}
Open == {i \in Opened : issue[i].state = "open"}
Running == {i \in Opened : issue[i].running}

Waiting == [todo |-> <<>>, has |-> FALSE, step |-> "unmerged"]
Done == [todo |-> <<>>, has |-> FALSE, step |-> "done"]

Init ==
  /\ issue = [i \in Issues |-> None] /\ start = None
  /\ job = [pr \in PRs |-> Waiting] /\ asked = {} /\ flagged = {}

-----------------------------------------------------------------------------
(* start-work --apply.  The status on the board is best effort and decides    *)
(* nothing.                                                                  *)

BeginStart(i) ==
  /\ start = None /\ i \in Opened
  /\ start' = [issue |-> i, has |-> issue[i].running]
  /\ UNCHANGED <<issue, job, asked, flagged>>

AddLabel ==
  /\ start # None /\ ~start.has
  /\ issue' = [issue EXCEPT ![start.issue].running = TRUE]
  /\ asked' = asked \cup {start.issue} /\ start' = None
  /\ UNCHANGED <<job, flagged>>

\* The label was there, or GitHub fails.
EndStart == start # None /\ start' = None /\ UNCHANGED <<issue, job, asked, flagged>>

-----------------------------------------------------------------------------
(* A merged pull request and its job, pr-merged --apply.                     *)

\* A merge into the default branch closes what the body completes.
Merge(pr, closes) ==
  /\ job[pr].step = "unmerged"
  /\ issue' = [i \in Issues |-> IF closes /\ i \in Open \cap Range(Bodies[pr])
                                THEN [issue[i] EXCEPT !.state = "merged"] ELSE issue[i]]
  /\ job' = [job EXCEPT ![pr] = IF Bodies[pr] = <<>> THEN Done
                                ELSE [todo |-> Bodies[pr], has |-> FALSE, step |-> "view"]]
  /\ UNCHANGED <<start, asked, flagged>>

Ref(pr) == Head(job[pr].todo)

ViewIssue(pr) ==
  /\ job[pr].step = "view" /\ Ref(pr) \in Opened
  /\ job' = [job EXCEPT ![pr].step = "edit", ![pr].has = issue[Ref(pr)].running]
  /\ UNCHANGED <<issue, start, asked, flagged>>

\* What a workflow's own token changes asks for no run, what a person's does.
RemoveLabel(pr, token) ==
  /\ job[pr].step = "edit"
  /\ IF job[pr].has
     THEN /\ issue' = [issue EXCEPT ![Ref(pr)].running = FALSE]
          /\ asked' = IF token THEN asked ELSE asked \cup {Ref(pr)}
     ELSE UNCHANGED <<issue, asked>>
  /\ job' = [job EXCEPT ![pr] = IF Len(@.todo) = 1 THEN Done
                                ELSE [todo |-> Tail(@.todo), has |-> FALSE, step |-> "view"]]
  /\ UNCHANGED <<start, flagged>>

\* Mutant: a failed call is passed over without a word.
JobPassesOver(pr) ==
  /\ job[pr].step \in {"view", "edit"} /\ job' = [job EXCEPT ![pr] = Done]
  /\ UNCHANGED <<issue, start, asked, flagged>>

\* A call is refused, and what is left is not done: the job fails, or, when its
\* credentials were rejected, says so and ends well.
JobFails(pr) ==
  /\ job[pr].step \in {"view", "edit"} /\ job' = [job EXCEPT ![pr] = Done]
  /\ flagged' = flagged \cup Range(job[pr].todo)
  /\ UNCHANGED <<issue, start, asked>>

-----------------------------------------------------------------------------
(* validate-issue, asked for by the workflow.                                *)

\* validateLifecycleIssueLabels.
LabelsOk(i) ==
  /\ Cardinality(issue[i].kind.types) = 1
  /\ issue[i].state # "open" => ~issue[i].running

ValidateIssue(i) ==
  /\ i \in asked /\ asked' = asked \ {i}
  /\ flagged' = IF LabelsOk(i) THEN flagged \ {i} ELSE flagged \cup {i}
  /\ UNCHANGED <<issue, start, job>>

\* GitHub fails it, or rejects its credentials: a warning.
ValidationFails(i) ==
  /\ i \in asked /\ asked' = asked \ {i} /\ flagged' = flagged \cup {i}
  /\ UNCHANGED <<issue, start, job>>

-----------------------------------------------------------------------------
(* People.  Closing or reopening an issue asks for no run.                   *)

OpenIssue(i, kind) ==
  /\ i \notin Opened /\ kind.parent # i
  /\ issue' = [issue EXCEPT ![i] = [kind |-> kind, state |-> "open", running |-> FALSE]]
  /\ asked' = asked \cup {i} /\ UNCHANGED <<start, job, flagged>>

EditIssue(i, kind) ==
  /\ i \in Opened /\ kind.parent # i
  /\ issue' = [issue EXCEPT ![i].kind = kind]
  /\ asked' = asked \cup {i} /\ UNCHANGED <<start, job, flagged>>

CloseIssue(i) ==
  /\ i \in Open /\ issue' = [issue EXCEPT ![i].state = "closed"]
  /\ UNCHANGED <<start, job, asked, flagged>>

ReopenIssue(i) ==
  /\ i \in Opened \ Open /\ issue' = [issue EXCEPT ![i].state = "open"]
  /\ UNCHANGED <<start, job, asked, flagged>>

Next ==
  \/ \E i \in Issues :
       \/ BeginStart(i) \/ ValidateIssue(i) \/ ValidationFails(i)
       \/ CloseIssue(i) \/ ReopenIssue(i)
       \/ \E kind \in Kinds : OpenIssue(i, kind) \/ EditIssue(i, kind)
  \/ AddLabel \/ EndStart
  \/ \E pr \in PRs :
       \/ \E closes \in BOOLEAN : Merge(pr, closes)
       \/ ViewIssue(pr) \/ JobFails(pr) \/ \E token \in BOOLEAN : RemoveLabel(pr, token)

Spec == Init /\ [][Next]_vars

-----------------------------------------------------------------------------
(* next-work: three levels of what is open.                                  *)

\* The label that comes first decides.
Is(i, type) == issue[i].kind.first = type

L1 == Open \cap Running
SubTasks == {i \in Open \ L1 : Is(i, "subTask")}
Attached == {i \in SubTasks : issue[i].kind.parent \in L1}
WorkItems == {i \in Open \ L1 : issue[i].kind.first \notin {None, "epic", "subTask"}}

\* Mutant: an urgent issue is never in a group.
L2Urgent == {i \in WorkItems : issue[i].kind.urgent}

\* A story waits in the group of its epic, whose design decides what comes next.
L2 == {i \in WorkItems : ~Is(i, "story") /\ issue[i].kind.urgent}
L3 == WorkItems \ L2

-----------------------------------------------------------------------------
(* Properties.                                                              *)

Busy(i) == i \in asked \/ \E pr \in PRs : i \in Range(job[pr].todo)

\* An issue that a merge closed and that still carries in-progress, whichever
\* start-work, failed call or second job it owes that to, has been flagged once the
\* jobs and runs about it are over.
RetainedLabelSeen ==
  \A i \in Opened :
    issue[i].state = "merged" /\ issue[i].running /\ ~Busy(i) => i \in flagged

\* next-work offers every open issue in one place: what it leaves out is an epic, a
\* part of something that nobody works on, or has no type.  No story that waits for
\* its design is offered as urgent.  An issue that has no type or is offered by one
\* of several has been flagged, or is about to be.
EveryIssueOffered ==
  /\ L1 \cap (Attached \cup L2 \cup L3) = {} /\ Attached \cap (L2 \cup L3) = {}
  /\ \A i \in L2 : ~Is(i, "story")
  /\ \A i \in Open \ (L1 \cup Attached \cup L2 \cup L3) :
       \/ Is(i, "epic")
       \/ Is(i, "subTask") /\ issue[i].kind.parent \notin L1
       \/ issue[i].kind.types = {}
  /\ \A i \in Open : Cardinality(issue[i].kind.types) # 1 => i \in asked \cup flagged
=============================================================================

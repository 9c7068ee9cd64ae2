------------------------------ MODULE IssueBoard ------------------------------
(***************************************************************************)
(* The issues of an epic (scripts/create_epic_story_issues.sh) and their   *)
(* items on the project board (register-issue of                           *)
(* scripts/github_project_lifecycle.mjs).  The script creates the issues   *)
(* one by one, writes each number to stories.md, and then registers each   *)
(* on the board; it can fail or be killed anywhere and is run again.       *)
(* Meanwhile people triage the items of the board.                         *)
(***************************************************************************)
EXTENDS Integers, Sequences, FiniteSets

CONSTANTS
  None,
  NumStories,   \* stories of the epic; the epic itself is 0
  MaxIssues,    \* bound: issues ever created
  Triaged       \* issues whose item people change

VARIABLES
  stories,      \* stories.md: the issue number of the epic and of each story, or 0
  issues,       \* GitHub: what each issue, by number, is for
  board,        \* the item of an issue on the project board, or None
  script,       \* the run of the script under way, or None
  reg,          \* its register-issue call under way, or None
  reported      \* issues whose last call reported this item as registered

vars == <<stories, issues, board, script, reg, reported>>

Parts == 0..NumStories
TypeOf(part) == IF part = 0 THEN "epic" ELSE "story"

Fields == {"Status", "IssueType", "Priority"}
\* The order in which a plan sets them.
Turn == [Status |-> 1, IssueType |-> 2, Priority |-> 3]
Blank == [f \in Fields |-> None]
Field(item, f) == IF item = None THEN None ELSE item[f]

Expected(part) == [Status |-> "Todo", IssueType |-> TypeOf(part), Priority |-> "major"]

Choices == {"Todo", "In progress", "Done", "epic", "story", "major", "critical"}
Values == Choices \cup {None}
ScriptType ==
  [step : {"create", "write", "register"}, fresh : BOOLEAN, part : Parts, todo : SUBSET Nat]
CallType ==
  [issue : Nat, step : {"add", "set"}, held : BOOLEAN, preserve : BOOLEAN,
   before : {None} \cup [Fields -> Values], sets : SUBSET Fields]

BoardConstants ==
  /\ NumStories \in Nat /\ MaxIssues \in Nat \ {0}
  /\ None \notin Choices /\ None \notin [Fields -> Values]
  /\ None \notin ScriptType /\ None \notin CallType

Init ==
  /\ stories = [p \in Parts |-> 0] /\ issues = <<>>
  /\ board = [n \in 1..MaxIssues |-> None] /\ script = None /\ reg = None
  /\ reported = {}

-----------------------------------------------------------------------------
(* create_epic_story_issues.sh.                                             *)

Numbers == {stories[p] : p \in Parts} \ {0}

\* Mutant: the epic's number is written when its stories are there.
BeginScriptByStories ==
  /\ script = None
  /\ script' = IF stories[NumStories] # 0
               THEN [step |-> "register", fresh |-> FALSE, part |-> 0, todo |-> Numbers]
               ELSE [step |-> "create", fresh |-> TRUE, part |-> 0, todo |-> {}]
  /\ UNCHANGED <<stories, issues, board, reg, reported>>

\* The epic's number in stories.md leaves only the board to do.
BeginScript ==
  /\ script = None
  /\ script' = IF stories[0] # 0
               THEN [step |-> "register", fresh |-> FALSE, part |-> 0, todo |-> Numbers]
               ELSE [step |-> "create", fresh |-> TRUE, part |-> 0, todo |-> {}]
  /\ UNCHANGED <<stories, issues, board, reg, reported>>

At(step) == script # None /\ script.step = step

CreateIssue ==
  /\ At("create") /\ Len(issues) < MaxIssues
  /\ issues' = Append(issues, script.part)
  /\ script' = [script EXCEPT !.step = "write", !.todo = @ \cup {Len(issues) + 1}]
  /\ UNCHANGED <<stories, board, reg, reported>>

\* After the last story its sub-issue links are made, which nothing depends on.
WriteNumber ==
  /\ At("write")
  /\ stories' = [stories EXCEPT ![script.part] = Len(issues)]
  /\ script' = IF script.part = NumStories THEN [script EXCEPT !.step = "register"]
               ELSE [script EXCEPT !.step = "create", !.part = @ + 1]
  /\ UNCHANGED <<issues, board, reg, reported>>

\* The script ends when all are registered, or none is because no project is
\* configured; before that it fails or is killed.  A helper dies with it.
EndScript ==
  /\ script # None /\ script' = None /\ reg' = None
  /\ UNCHANGED <<stories, issues, board, reported>>

-----------------------------------------------------------------------------
(* register-issue --apply.                                                  *)

\* Mutant: a backfill sets what differs.
NeedsSetByValue(item, f, value, preserve) == Field(item, f) # value

\* Of planRegistration: a backfill fills the empty fields of triage.
NeedsSet(item, f, value, preserve) ==
  IF preserve /\ f # "IssueType" THEN Field(item, f) = None ELSE Field(item, f) # value

SetsIn(item, part, preserve) ==
  {f \in Fields : NeedsSet(item, f, Expected(part)[f], preserve)}

\* The issues are registered in the order of stories.md, that of their numbers.
\* The item is looked up once, and the plan made from it.
BeginRegister ==
  /\ At("register") /\ reg = None
  /\ \E n \in script.todo :
       /\ \A k \in script.todo : n <= k
       /\ reg' = [issue |-> n, step |-> IF board[n] = None THEN "add" ELSE "set",
                  held |-> board[n] # None, before |-> board[n], preserve |-> ~script.fresh,
                  sets |-> SetsIn(board[n], issues[n], ~script.fresh)]
  /\ UNCHANGED <<stories, issues, board, script, reported>>

Doing(step) == reg # None /\ reg.step = step

\* An item that was added since is returned as it is; the board may give new
\* ones a Status of its own.
AddItem ==
  /\ Doing("add")
  /\ \E s \in {None, "Todo"} :
       board' = [board EXCEPT ![reg.issue] =
                   IF @ = None THEN [Blank EXCEPT !.Status = s] ELSE @]
  /\ reg' = [reg EXCEPT !.step = "set", !.held = TRUE]
  /\ UNCHANGED <<stories, issues, script, reported>>

\* By the id of the item that the look or the addition gave.
SetField ==
  /\ Doing("set") /\ reg.held
  /\ \E f \in reg.sets :
       /\ \A g \in reg.sets : Turn[f] <= Turn[g]
       /\ board' = [board EXCEPT ![reg.issue][f] = Expected(issues[reg.issue])[f]]
       /\ reg' = [reg EXCEPT !.sets = @ \ {f}]
  /\ UNCHANGED <<stories, issues, script, reported>>

\* resolveValidationExpectations: any value is right where one was kept.
ExpectedAny(f) == f # "IssueType" /\ reg.preserve /\ Field(reg.before, f) # None

\* Mutant: the plan having been carried out is enough.
PlanDone == reg.sets = {}

\* validateIssueProjectRegistration of the item read again, or of the first look
\* at it when it is not found.
Validated ==
  LET item == IF board[reg.issue] # None THEN board[reg.issue] ELSE reg.before
  IN \A f \in Fields : ExpectedAny(f) \/ Field(item, f) = Expected(issues[reg.issue])[f]

\* The call ends by what validation says of the item.
EndRegister ==
  /\ Doing("set") /\ reg.sets = {}
  /\ reported' = IF Validated THEN reported \cup {reg.issue} ELSE reported \ {reg.issue}
  /\ reg' = None /\ script' = [script EXCEPT !.todo = @ \ {reg.issue}]
  /\ UNCHANGED <<stories, issues, board>>

\* Any call to GitHub may be refused; the script goes on with the next issue.
RegisterFails ==
  /\ reg # None
  /\ reported' = reported \ {reg.issue}
  /\ reg' = None /\ script' = [script EXCEPT !.todo = @ \ {reg.issue}]
  /\ UNCHANGED <<stories, issues, board>>

-----------------------------------------------------------------------------
\* People triage an item, or start-work and pr-merged mirror its status.
Triage(n) ==
  /\ n <= Len(issues) /\ board[n] # None
  /\ \/ \E s \in {"In progress", "Done"} : board' = [board EXCEPT ![n].Status = s]
     \/ board' = [board EXCEPT ![n].Priority = "critical"]
  /\ UNCHANGED <<stories, issues, script, reg, reported>>

\* An issue is put on the board by hand, or taken off it: its next item is another.
Place(n) ==
  /\ n <= Len(issues)
  /\ IF board[n] = None
     THEN board' = [board EXCEPT ![n] = Blank] /\ UNCHANGED reg
     ELSE /\ board' = [board EXCEPT ![n] = None]
          /\ reg' = IF reg # None /\ reg.issue = n THEN [reg EXCEPT !.held = FALSE] ELSE reg
  /\ reported' = reported \ {n} /\ UNCHANGED <<stories, issues, script>>

Next ==
  \/ BeginScript \/ CreateIssue \/ WriteNumber \/ EndScript
  \/ BeginRegister \/ AddItem \/ SetField \/ EndRegister \/ RegisterFails
  \/ \E n \in Triaged : Triage(n) \/ Place(n)

Spec == Init /\ [][Next]_vars

-----------------------------------------------------------------------------
(* Properties.                                                              *)

\* However often the script fails or is killed and runs again, no story gets a
\* second issue, and stories.md never names the issue of another part.
StoryOnce ==
  /\ \A n, k \in DOMAIN issues : issues[n] = issues[k] /\ issues[n] # 0 => n = k
  /\ \A p \in Parts : stories[p] # 0 => issues[stories[p]] = p

\* A re-run that finds the issues made (it is still at the epic) leaves each status
\* and priority that its look at the item showed, and a registration writes to no
\* other item than its own.
TriageKept ==
  [][\A n \in 1..MaxIssues :
       reg # None /\ reg' # reg /\ board'[n] \notin {None, board[n]} =>
         /\ n = reg.issue
         /\ script.part # NumStories =>
              \A f \in {"Status", "Priority"} :
                Field(reg.before, f) # None => Field(board'[n], f) = Field(board[n], f)]_vars

\* A call that reports an issue as registered, first or after failures and next to
\* people's edits, leaves no field of its item empty and the type right, unless the
\* item was removed meanwhile.
RegisteredFully ==
  [][\A n \in reported' :
       reg # None /\ reg' = None /\ script' # None /\ reg.issue = n /\ board[n] # None =>
         /\ \A f \in Fields : board[n][f] # None
         /\ board[n].IssueType = TypeOf(issues[n])]_vars
=============================================================================

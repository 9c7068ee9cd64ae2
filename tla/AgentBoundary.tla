---------------------------- MODULE AgentBoundary ---------------------------
(***************************************************************************)
(* The file guard (hooks/file-guard.sh, handle_pretooluse_file_op,         *)
(* harness/agent_boundary.py): before a tool of a sub-agent runs, the hook *)
(* judges the paths it would write by the role of the agent, and refuses   *)
(* pushes and commands that are the leader's.                              *)
(*                                                                         *)
(* A path is the area of the project it normalises to.  A Bash command is  *)
(* a sequence of segments that use one shell variable; the hook reads it   *)
(* before the shell runs it, so what a segment does is known only from the *)
(* text.  A segment is [kind, value, op]: op is the operator after it, and *)
(* value the area it is about, or Unknown.                                 *)
(***************************************************************************)
EXTENDS Integers, FiniteSets, SequencesExt

CONSTANTS
  Main,           \* the caller without an agent type
  Unknown,        \* what the text of a command does not tell
  Callers,        \* the sub-agents of the instance
  OverrideFiles,  \* contents of .dcness/boundary.json
  Scopes,         \* areas that the plan of the run's task opens
  Commands        \* the Bash commands of the instance

VARIABLES
  off,            \* .no-dcness-guard or a self-repository mark is there
  overrides,      \* the boundary.json that the search up to the top level finds
  last            \* the tool call that has just ended: who, how it was judged, what
                  \* it left; Nothing when the next may begin

vars == <<off, overrides, last>>

Agents == {"build-worker", "architect", "designer", "ux-architect", "tech-reviewer",
           "validator", "unlisted"}

\* Inside the working directory, or "outside" or in a "temp" directory; "phase"
\* and "verdict" are prose files of the run, the files of Control guard the guard.
Control == {"no-guard", "self-mark", "boundary"}
Area == Control \cup
  {"hooks", "phase", "verdict", "source", "tests", "deps", "docs", "retired", "drafts",
   "flow", "review", "readme", "outside", "temp"}

\* A boundary.json: areas added to and removed from the roles, or a key that
\* is no longer an agent.
OverrideFile ==
  [retired : BOOLEAN, add : [Agents -> SUBSET Area], remove : [Agents -> SUBSET Area]]

Ops == {";", "&&", "||", "|", "&"}
Kinds == {"assign",     \* T=value, alone
          "rebind",     \* read T, printf -v T: a command that sets T
          "dynamic",    \* eval, a control word or a subshell, which may set T
          "write",      \* a redirection, cp, mv, rm, tee, sed -i, ... to value
          "writeT",     \* the same, to "$T"
          "quotedT",    \* the same, to a file that is called $T
          "python",     \* -c or here-document script that opens value to write
          "run",        \* any other command
          "push"}       \* git push, a gh mutation, a helper or script of the leader

Segments == [kind : Kinds, value : Area \cup {Unknown}, op : Ops]

Before(c, i) == IF i = 1 THEN ";" ELSE c[i - 1].op

\* What is put in the background is one command: the assignments of a list of
\* several would stay in the child that runs it.
BoundaryConstants ==
  /\ Main \notin Agents /\ Unknown \notin Area /\ Callers \subseteq Agents
  /\ Scopes \subseteq SUBSET Area /\ OverrideFiles \subseteq OverrideFile
  /\ Commands \subseteq Seq(Segments)
  /\ \A c \in Commands : \A i \in DOMAIN c : c[i].op = "&" => Before(c, i) \notin {"&&", "||"}

-----------------------------------------------------------------------------
(* What each role may write.                                                *)

Infra == Control \cup {"hooks", "phase", "verdict"}

\* An agent without a row is not held by this table.
Allow == [agent \in Agents |->
  CASE agent = "build-worker"  -> {"source", "tests", "deps"}
    [] agent = "architect"     -> {"docs", "retired", "drafts", "flow", "review"}
    [] agent = "designer"      -> {"drafts"}
    [] agent = "ux-architect"  -> {"flow"}
    [] agent = "tech-reviewer" -> {"review"}
    [] agent = "validator"     -> {}
    [] agent = "unlisted"      -> Area]

\* Asked before what is allowed: the trees of the other roles and of tools.
CodeExclusive == {"docs", "retired", "drafts", "flow", "review", "deps"}
Exclusive(agent) ==
  CASE agent = "build-worker" -> CodeExclusive
    [] agent = "architect" -> {"retired", "drafts"}
    [] OTHER -> {}

RunProse(agent) == IF agent = "build-worker" THEN {"phase"} ELSE {}

\* Mutant: what the project adds is looked at first.
AddedFirst(agent, at, scope) ==
  \/ off \/ at \in overrides.add[agent] \/ at \in RunProse(agent) \cup {"temp"}

WriteAllowed(agent, at, scope) ==
  \/ off
  \/ at \in RunProse(agent) \cup {"temp"}
  \/ /\ at \notin {Unknown, "outside"} \cup Infra \cup Exclusive(agent)
     /\ ~overrides.retired
     /\ at \notin overrides.remove[agent]
     /\ Allow[agent] # {}
     /\ \/ agent = "build-worker" /\ at \in scope
        \/ at \in Allow[agent] \cup overrides.add[agent]

\* The designer reads no source; guidance under the plugin is judged by its path there.
ReadAllowed(agent, at) == off \/ agent # "designer" \/ at # "source"

-----------------------------------------------------------------------------
(* What a command says it writes.                                           *)

Are(c, kinds) == {i \in DOMAIN c : c[i].kind \in kinds}

Resolvable(c) == Are(c, {"dynamic"}) = {}
Rebound(c) == Are(c, {"rebind", "quotedT"}) # {}

\* Mutant: the operators around an assignment do not count.
CertainByValue(c, i) == c[i].value # Unknown

\* The assignment is a literal word and certainly runs in this shell.
Certain(c, i) ==
  /\ c[i].value # Unknown
  /\ Before(c, i) \notin {"&&", "||", "|", "&"}
  /\ c[i].op \notin {"|", "||", "&"}

\* The value of T in segment i: its own assignments come after its expansions.
Known(c, i) ==
  LET earlier == {j \in Are(c, {"assign"}) : j < i}
  IN IF earlier = {} \/ ~Resolvable(c) \/ Rebound(c) THEN Unknown
     ELSE LET j == Max(earlier)
          IN IF Certain(c, j) THEN c[j].value ELSE Unknown

\* What the redirections and the commands that write name.
CommandTargets(c) ==
  {c[i].value : i \in Are(c, {"write"})} \cup {Known(c, i) : i \in Are(c, {"writeT", "quotedT"})}

\* What its python scripts open to write, where their text tells.
PythonTargets(c) == {c[i].value : i \in Are(c, {"python"})} \ {Unknown}

BashPaths(c) == CommandTargets(c) \cup PythonTargets(c)

UnresolvedWrites(c) == {i \in Are(c, {"python"}) : c[i].value = Unknown} # {}

\* What a segment is, under its wrappers and in a nested shell.
Mutates(segment) == segment.kind = "push"
BashMutation(c) == \E i \in DOMAIN c : Mutates(c[i])

BashAllowed(agent, c, scope) ==
  /\ off \/ ~BashMutation(c)
  /\ \A at \in BashPaths(c) : WriteAllowed(agent, at, scope)

-----------------------------------------------------------------------------
(* What the shell makes of it (external): s.t is the value of T, s.ok the     *)
(* exit of the command before.                                               *)

InChild(c, i) == Before(c, i) = "|" \/ c[i].op = "|" \/ c[i].op = "&"

Segment(c, i, s) ==
  LET value == IF c[i].value = Unknown THEN Area ELSE {c[i].value}
      skipped == \/ Before(c, i) = "&&" /\ ~s.ok
                 \/ Before(c, i) = "||" /\ s.ok
      \* Some shells run the last command of a pipe in their own process.
      sets == (IF InChild(c, i) THEN {s.t} ELSE {})
                \cup (IF c[i].op \in {"|", "&"} THEN {} ELSE value)
  IN IF skipped THEN {s}
     ELSE CASE c[i].kind = "assign" -> [t : sets, ok : {TRUE}, wrote : {s.wrote}]
            [] c[i].kind \in {"rebind", "dynamic"} ->
                 [t : sets \cup {s.t}, ok : BOOLEAN, wrote : {s.wrote}]
            [] c[i].kind = "write" ->
                 [t : {s.t}, ok : BOOLEAN, wrote : {s.wrote \cup {c[i].value}}]
            [] c[i].kind = "writeT" ->
                 [t : {s.t}, ok : BOOLEAN, wrote : {s.wrote \cup {s.t}}]
            [] c[i].kind = "quotedT" ->
                 [t : {s.t}, ok : BOOLEAN, wrote : {s.wrote \cup {"readme"}}]
            [] c[i].kind = "python" ->
                 [t : {s.t}, ok : BOOLEAN, wrote : {s.wrote \cup {at} : at \in value}]
            [] OTHER -> [t : {s.t}, ok : BOOLEAN, wrote : {s.wrote}]

\* The shell before any segment and after each.  T may come with any value from
\* the environment.
Runs(c) ==
  LET runs[n \in 0..Len(c)] ==
        IF n = 0 THEN [t : Area, ok : {TRUE}, wrote : {{}}]
        ELSE UNION {Segment(c, n, s) : s \in runs[n - 1]}
  IN runs

\* The areas that a command may have written when it ends.
Outcomes(c) == {s.wrote : s \in Runs(c)[Len(c)]}

-----------------------------------------------------------------------------
Nothing == [by |-> Main, guarded |-> FALSE, recorded |-> FALSE, wrote |-> {},
            pushed |-> FALSE]

Init == off = FALSE /\ overrides \in OverrideFiles /\ last = Nothing

Return == last # Nothing /\ last' = Nothing /\ UNCHANGED <<off, overrides>>

\* A write to the files of Control changes how the next call is judged.
Leave(agent, wrote, pushed, recorded) ==
  /\ last' = [by |-> agent, guarded |-> ~off, recorded |-> recorded, wrote |-> wrote,
              pushed |-> pushed]
  /\ IF wrote \cap {"no-guard", "self-mark"} # {} THEN off' \in BOOLEAN ELSE UNCHANGED off
  /\ IF "boundary" \in wrote THEN overrides' \in OverrideFiles ELSE UNCHANGED overrides

\* The user or the main agent, whom the file boundary lets pass.
MainChanges ==
  /\ off' \in BOOLEAN /\ overrides' \in OverrideFiles
  /\ UNCHANGED last

\* Edit, Write, NotebookEdit.
EditFile(agent, at) ==
  /\ \E scope \in Scopes : WriteAllowed(agent, at, scope)
  /\ Leave(agent, {at}, FALSE, FALSE)

ReadFile(agent, at) == ReadAllowed(agent, at) /\ Leave(agent, {}, FALSE, FALSE)

\* A write whose target is unknown goes ahead and is recorded as a fail-open.
RunBash(agent, c) ==
  /\ \E scope \in Scopes : BashAllowed(agent, c, scope)
  /\ \E wrote \in Outcomes(c) :
       Leave(agent, wrote, BashMutation(c), ~off /\ UnresolvedWrites(c))

\* Only what changes issues is left to agents: their own tool list decides.
CallGitHub(agent, op) ==
  /\ off \/ op \in {"read", "issue"}
  /\ Leave(agent, {}, op = "repository", FALSE)

\* The hook crashes, or the payload or the live file is unreadable: the tool
\* runs and the failure is recorded.
HookFails(agent, at, pushed) == Leave(agent, {at}, pushed, TRUE)

Next ==
  \/ Return \/ MainChanges
  \/ /\ last = Nothing
     /\ \E agent \in Callers :
          \/ \E at \in Area : EditFile(agent, at) \/ ReadFile(agent, at)
          \/ \E c \in Commands : RunBash(agent, c)
          \/ \E op \in {"read", "issue", "repository"} : CallGitHub(agent, op)
          \/ \E at \in Area, pushed \in BOOLEAN : HookFails(agent, at, pushed)

Spec == Init /\ [][Next]_vars

-----------------------------------------------------------------------------
(* Properties.                                                              *)

Judged(call) == call.by # Main /\ call.guarded /\ ~call.recorded

\* While the guard is on and no failure of it is recorded, nothing that a
\* sub-agent does, in one command or over a sequence of tool calls and whatever the
\* project's boundary.json says, switches the guard off or changes that file.
GuardKept ==
  [][last = Nothing /\ Judged(last') => UNCHANGED <<off, overrides>>]_vars

\* Where a judged call has landed, whatever the shell made of the command: a
\* validator changes nothing of the project, nobody writes the verdicts that the
\* gates trust, worker and designers stay out of each other's trees, nothing is
\* written outside the project and nothing is pushed.
RolesApart ==
  Judged(last) =>
    /\ ~last.pushed
    /\ last.wrote \cap {"verdict", "hooks", "outside"} = {}
    /\ last.by = "validator" => last.wrote \subseteq {"temp"}
    /\ last.by = "build-worker" => last.wrote \cap CodeExclusive = {}
    /\ "phase" \in last.wrote => last.by = "build-worker"
=============================================================================

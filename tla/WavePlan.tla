------------------------------- MODULE WavePlan -------------------------------
(***************************************************************************)
(* The planner of parallel waves (harness/parallel_wave.py, compute_waves): *)
(* it turns the impl tasks of a batch, in file-name order, into a sequence *)
(* of steps, each a wave of tasks that peer sessions may work on at the    *)
(* same time or a single task.  An action is one turn of its while loop.   *)
(*                                                                         *)
(* Tasks are numbered in path order.  `remaining` is a subsequence of the  *)
(* batch and a wave a subsequence of it, so both are sets of numbers; what *)
(* is done is what is no longer remaining.  A scope is the set of places   *)
(* it may touch: scopes_disjoint is disjointness of those sets.  A         *)
(* dependency outside the batch counts as merged and is left out.  A task  *)
(* file is what its frontmatter and its list of paths to change settle and *)
(* leave open; normalize-scope may have rewritten some of the files before. *)
(***************************************************************************)
EXTENDS Integers, Sequences, FiniteSets

CONSTANTS
  N,          \* number of tasks in the batch
  Places,     \* what scopes are made of
  Unknown,    \* depends_on was not written
  Risky,      \* migrations, secrets: places that are a risk by themselves
  Batches,    \* the batches of task files considered
  Normalized, \* on which of them normalize-scope may have been run
  HighRisks,  \* what --high-risk may name
  Caps        \* max_parallel_workers, as asked for

Task == 1..N

ImplTask == [deps : (SUBSET Task) \cup {Unknown}, scope : SUBSET Places,
             unclear : BOOLEAN, forced : BOOLEAN]

\* depends_on is a list without a placeholder (listed), the deps on it;
\* `parallel: serial` (marked); under the heading of what may be changed, entries that
\* are a path, entries that name one path among other words, and any other text.
TaskFile == [listed : BOOLEAN, deps : SUBSET Task, marked : BOOLEAN,
             paths : SUBSET Places, wordy : SUBSET Places, prose : BOOLEAN]

ASSUME PlanConstants ==
  /\ N \in Nat
  /\ Batches \subseteq [Task -> TaskFile]
  /\ Normalized \subseteq SUBSET Task
  /\ HighRisks \subseteq SUBSET Task
  /\ Caps \subseteq Int

VARIABLES
  files,      \* the task files, as wave-plan finds them
  batch,      \* the parsed tasks
  highRisk,   \* the tasks that dry preview judged high-risk
  cap,        \* the most tasks in a wave
  remaining,  \* the tasks that are not planned yet
  steps       \* the plan so far

input == <<files, batch, highRisk, cap>>
vars == <<input, remaining, steps>>

Cause == {"parallel", "forced", "unknown_deps", "scope_unnormalized", "high_risk",
          "dep_unresolved", "no_disjoint_pair"}

WaveStep == [mode : {"parallel", "serial"}, tasks : SUBSET Task, cause : Cause]

\* The variables stay within their types.
TypeOK ==
  /\ files \in [Task -> TaskFile]
  /\ batch \in [Task -> ImplTask] /\ highRisk \subseteq Task /\ cap \in Nat \ {0}
  /\ remaining \subseteq Task
  /\ steps \in Seq(WaveStep)

\* normalize_scope_text: an entry that names one path becomes that path.
NormalizeScope(file) == [file EXCEPT !.paths = @ \cup file.wordy, !.wordy = {}]

\* parse_impl_task.  An empty or missing list says nothing.
ParseDependsOn(file) == IF file.listed THEN file.deps ELSE Unknown
ScopeUnclear(file) == file.paths = {} \/ file.wordy # {} \/ file.prose
ForceSerial(file) == file.marked \/ file.paths \cap Risky # {}

ParseImplTask(file) ==
  [deps |-> ParseDependsOn(file), scope |-> file.paths,
   unclear |-> ScopeUnclear(file), forced |-> ForceSerial(file)]

Clamp(w) == IF w < 1 THEN 1 ELSE w

Init ==
  /\ \E written \in Batches, normalized \in Normalized :
       files = [t \in Task |-> IF t \in normalized THEN NormalizeScope(written[t])
                                                 ELSE written[t]]
  /\ batch = [t \in Task |-> ParseImplTask(files[t])]
  /\ highRisk \in HighRisks
  /\ cap \in {Clamp(w) : w \in Caps}
  /\ remaining = Task
  /\ steps = <<>>

-----------------------------------------------------------------------------
DepsOf(t) == IF batch[t].deps = Unknown THEN {} ELSE batch[t].deps

\* _deps_satisfied
Ready(t) == DepsOf(t) \cap remaining = {}

Disjoint(t, u) == batch[t].scope \cap batch[u].scope = {}

SerialOnly(t) ==
  \/ batch[t].deps = Unknown \/ batch[t].forced
  \/ batch[t].unclear \/ batch[t].scope = {}

Serial(t) == SerialOnly(t) \/ t \in highRisk

SerialCause(t) ==
  IF ~SerialOnly(t) THEN "high_risk"
  ELSE IF batch[t].forced THEN "forced"
  ELSE IF batch[t].deps = Unknown THEN "unknown_deps"
  ELSE "scope_unnormalized"

First(S) == CHOOSE t \in S : \A u \in S : t <= u

Frontier == {t \in remaining : Ready(t)}
HeadTask == First(Frontier)

\* What is in the wave of h when the loop comes to c, if nothing stopped it.
WaveBefore(h, c) == {w \in remaining : h <= w /\ w < c}

\* Mutant of Joins: a blocked task may join.
JoinsBlocked(h, c) ==
  /\ Cardinality(WaveBefore(h, c)) < cap
  /\ ~Serial(c)
  /\ \A w \in WaveBefore(h, c) : Disjoint(c, w)

\* Mutant of Joins: a candidate is compared with the head of the wave only.
JoinsByHead(h, c) ==
  /\ Cardinality(WaveBefore(h, c)) < cap
  /\ Ready(c) /\ ~Serial(c)
  /\ Disjoint(c, h)

\* The candidate c does not stop the loop that gathers the wave of h.
Joins(h, c) ==
  /\ Cardinality(WaveBefore(h, c)) < cap
  /\ Ready(c) /\ ~Serial(c)
  /\ \A w \in WaveBefore(h, c) : Disjoint(c, w)

\* The wave ends before the first task that does not join.
Wave(h) ==
  {t \in remaining : h <= t /\ \A c \in remaining : h < c /\ c <= t => Joins(h, c)}

-----------------------------------------------------------------------------
Plan(S, mode, cause) ==
  /\ steps' = Append(steps, [mode |-> mode, tasks |-> S, cause |-> cause])
  /\ remaining' = remaining \ S
  /\ UNCHANGED input

\* Mutant of PlanUnresolved: the loop waits for a task to become ready.
PlanUnresolvedNever == FALSE /\ Plan({}, "serial", "dep_unresolved")

\* No task is ready: the first one goes by itself.
PlanUnresolved ==
  /\ remaining # {} /\ Frontier = {}
  /\ Plan({First(remaining)}, "serial", "dep_unresolved")

PlanSerial ==
  /\ Frontier # {} /\ Serial(HeadTask)
  /\ Plan({HeadTask}, "serial", SerialCause(HeadTask))

PlanWave ==
  /\ Frontier # {} /\ ~Serial(HeadTask)
  /\ Wave(HeadTask) # {HeadTask}
  /\ Plan(Wave(HeadTask), "parallel", "parallel")

PlanAlone ==
  /\ Frontier # {} /\ ~Serial(HeadTask)
  /\ Wave(HeadTask) = {HeadTask}
  /\ Plan({HeadTask}, "serial", "no_disjoint_pair")

Next == PlanUnresolved \/ PlanSerial \/ PlanWave \/ PlanAlone

Spec == Init /\ [][Next]_vars

\* The loop runs until nothing remains.
FairSpec == Spec /\ WF_vars(Next)

-----------------------------------------------------------------------------
TasksOf(i) == steps[i].tasks
PlannedBefore(i) == UNION {TasksOf(j) : j \in 1..(i - 1)}
Planned == UNION {TasksOf(j) : j \in DOMAIN steps}

\* No task is planned twice and none is lost on the way.
EachOnce ==
  /\ remaining = Task \ Planned
  /\ \A i, j \in DOMAIN steps : i # j => TasksOf(i) \cap TasksOf(j) = {}

\* Every word of the file is settled: nothing is left out, to be filled in, to be
\* guessed or said to be a risk.
Settled(file) ==
  /\ file.listed /\ ~file.marked /\ ~file.prose
  /\ file.paths # {} /\ file.wordy = {} /\ file.paths \cap Risky = {}

\* Tasks of one wave can be worked on at the same time: their files settle what
\* they change and wait for, none of them is high-risk, no two change one place, and
\* none depends on a task of this or of a later step (the judgement of
\* parallel-policy.md, section 6).
WavesIndependent ==
  \A i \in DOMAIN steps : steps[i].mode = "parallel" =>
    /\ \A t \in TasksOf(i) :
         /\ Settled(files[t]) /\ t \notin highRisk
         /\ files[t].deps \subseteq PlannedBefore(i)
    /\ \A t, u \in TasksOf(i) : t # u => files[t].paths \cap files[u].paths = {}

\* No wave needs more peer sessions than max_parallel_workers.
WavesWithinCap == \A i \in DOMAIN steps : Cardinality(TasksOf(i)) <= cap

\* A set of tasks each of which waits for another of them.
Stuck(C) == C # {} /\ \A t \in C : DepsOf(t) \cap C # {}
Acyclic == \A C \in SUBSET Task : ~Stuck(C)

\* Without a cycle no task goes before what it depends on, whatever the order of
\* the files; with one, the planner goes on all the same.
DepsFirst ==
  Acyclic => \A i \in DOMAIN steps : \A t \in TasksOf(i) : DepsOf(t) \subseteq PlannedBefore(i)

\* The contract on file names (docs/plugin/parallel-policy.md, section 6).
NamedInOrder == \A t \in Task : \A d \in DepsOf(t) : d < t

\* File names in topological order: waves keep that order, so that the last task
\* of a story, which closes it, is last in the plan (comment on #636 F10 and F13).
InOrder ==
  NamedInOrder =>
    \A i, j \in DOMAIN steps : i < j => \A t \in TasksOf(i), u \in TasksOf(j) : t < u

\* The planner ends with every task planned, also on cyclic dependencies.
PlanFinishes == <>(remaining = {} /\ Planned = Task)
==============================================================================

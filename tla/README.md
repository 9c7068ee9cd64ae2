# dcNess in TLA+

dcNess is a plugin for Claude Code. It makes an interactive session (the *main*
session, "main" below) follow a development workflow: main launches agents one
after another, hooks allow or refuse what it does, a record of the run is kept
in files, and scripts outside the session run workers, validate and merge. This
directory holds TLA+ models of the parts in which order, concurrency, crashes and
retries matter, the TLC instances that check them, and TLAPS proofs of the
properties that matter most. All paths below are relative to the repository.

1. [The system](#1-the-system) — inventory of components
2. [What is modelled](#2-what-is-modelled) — modules and their correspondence to the code
3. [What the runs check](#3-what-the-runs-check) — properties, bounds, fairness
4. [What is proved](#4-what-is-proved)
5. [Where code and documents disagree](#5-where-code-and-documents-disagree)
6. [What is not modelled](#6-what-is-not-modelled)
7. [Plan](#7-plan)

## 1. The system

Nothing in dcNess is a long-running server. Its state lives in files, and its
steps are short processes: hook scripts that Claude Code starts, `dcness-helper`
commands that main or a script runs, and shell scripts that run for minutes.
Concurrency comes from several sessions on one repository, from hook processes
that overlap main's commands, and from GitHub. Failure is the death of a process
between two file operations.

| Component | State it keeps | Operations | Talks to |
|---|---|---|---|
| Claim board, `harness/wave_board.py` | one claim file per registered task, archive | register, claim, heartbeat, complete, fail/release, reclaim | sessions, `pr-finalize.sh`, operators |
| Merge lock and order gate, `harness/merge_lock.py` | one lock file for the repository | acquire, release, break; order gate; guard that composes them with the board | `pr-finalize.sh`, operators, git |
| `scripts/pr-finalize.sh` | shell variables, EXIT trap | guard, CI watch, merge request, poll for MERGED, complete | board, lock, GitHub |
| Run record, `harness/session_state.py`, `ledger.py`, `signal_io.py` | `live.json` (slots of runs: step, intents, markers), `ledger.jsonl`, prose files | `transition` (the only writer of slot and ledger), `write_prose`, reads | hooks, helper commands, chain |
| Agent lifecycle hooks, `harness/hooks.py` | none of their own | PreToolUse, SubagentStart, SubagentStop, PostToolUse, PostToolUseFailure | Claude Code, run record |
| Step commands, `harness/session_state_cli*.py` | none of their own | begin-run, begin-step, end-step, next-task, end-run, finalize-run | run record |
| Order gate, Stop hook, close sequence, `harness/session_state.py`, `hooks.py` | markers in the slot | refuse or allow a step; end, hold or block a run when main stops | run record, prose, git |
| Run and session resolution | by-pid files, session pointers | find the session and run a process belongs to | all commands |
| Wave planner, `harness/parallel_wave.py` | none | `compute_waves` | claim board, by `wave-plan --register` |
| Story runner, `harness/story_runner.py` | story-run state file | init, next-action, mark, seal-story | main, implementation chain |
| Implementation chain, `scripts/dcness-implementation-chain` | shell variables, failure cache | prepare run and step, run providers, recover, fall back | story runner, run record, workers |
| Headless workers and validators, `scripts/dcness-*-worker`, `-validator` | none | run one provider with a timeout, guard the diff, end-step | chain, run record |
| Codex sandbox permission, `harness/codex_sandbox_permission.py` | receipts of denials, project settings | classify, answer, retry once | workers, user |
| Provider failure cache, `harness/provider_failure_cache.py` | one file for each story run | classify, check, record, clear | chain, story runner |
| Product journey, `harness/product_journey.py`, `epic_outcome.py` | contract, receipts, evidence | run, judge, record a skip, report an epic's outcome | project, validators |
| Agent boundary, `harness/agent_boundary.py` | the project's overrides | judge one tool call of a sub-agent | Claude Code |
| TDD guard, `harness/tdd_hooks.py`, `hooks/tdd-guard.sh` | contract, generated hook scripts, settings | judge one write; test, install and register a hook | Claude Code, project |
| Issues, `scripts/create_epic_story_issues.sh`, `github_project_lifecycle.mjs` | issues, labels and board items on GitHub, `stories.md` | create, register, backfill, start-work, pr-merged, validate, next-work | GitHub, people |
| Reports, docs and release tools, routing, activation | none, or one file of one user | read-only or one-shot | people |

What makes the hard ones correct:

* *Peer merge* (board, lock, `pr-finalize.sh`): one session at a time is in the
  merge stage; a task is merged after the earlier tasks of its story; a completed
  claim means a merge; no lock stays behind.
  Hard because every file operation is two steps, scripts die with or without
  their trap, operators act from other shells, and GitHub merges late.
* *Agent lifecycle* (run record, hooks, step commands): each agent has at most one
  outcome, which is its own; a receipt stays verifiable; a step that was opened is
  closed. Hard because the end of an agent is delivered twice, spawn events do not
  name their call, hooks read before they lock, and any hook may be killed.
* *Wave planner*: no task is lost or planned twice, tasks of a wave are
  independent, nothing goes before what it depends on, file order survives.
* *Story runner and chain*: tasks of a story are completed in order and once; a
  dirty workspace never changes hands; a blocked run starts nothing.
  Hard because the launch can be repeated at any point, in the same session or
  another, after any failure.
* *Close sequence and Stop hook*: a run ends when, and only when, its validation
  has passed for the very candidate that is merged. Hard because commits, merges and
  new steps come between a review and the hook, and because records are torn by kills.
* *Session and run resolution*: a command acts on its own session's run, and garbage
  collection takes nothing that is open. Hard because process numbers are used again,
  files outlive sessions, and a scan stands in for every missing file.
* *Journeys*: who closes an epic, or skips a run, relies on a run that still counts.
  Hard because the contract is edited after the receipt and runs may be partial.
* *Guards*: a sub-agent stays in its trees, and a source file has a test first, whatever
  the project configures and whatever a command's text leaves open.
* *Issues*: no story has two issues, people's triage survives a re-run, a label that
  stays behind is noticed. Hard because every read and write is a call of its own to a
  service that people and other jobs use at the same time.
* *Permission and cache*: a denial is answered once; what a run remembers of a provider
  is what happened in that run. Hard because calls die and launches outlive their run.

## 2. What is modelled

### 2.1 Peer merge

    PeerActors   the processes
    WaveBoard    claim files and the two steps of a board call   (EXTENDS PeerActors)
    MergeLock    the lock file and the two steps of a lock call  (EXTENDS PeerActors)
    PeerMerge    sessions, pr-finalize.sh, operators, GitHub     (EXTENDS WaveBoard, MergeLock)
    SerialMerge  what the guard promises, abstractly; PeerMerge implements it

`claims[t]` is the claim file of task `t`, and `lock` the lock file. Both are
created with `O_EXCL` and written afterwards, so there is a "torn" state. All
other operations read, decide in memory, then replace or unlink the *path*:
`boardCall[p]` and `lockCall[p]` hold the record that process `p` read between
the two steps. `pc[s]` is where session `s` is in `/impl-loop` or in
`pr-finalize.sh`; `token[s]` is the script's `MERGE_LOCK_TOKEN`; `scheduled` and
`merged` are GitHub's auto-merge requests and merged pull requests; `guarded` is
a history variable for the tasks handed to GitHub under the guard. `FailFinalize`
stands for every `exit 1` below the guard, which is where the EXIT trap runs;
`Kill` is a death without trap.

Abstracted: the canonical path and hash of a task; timestamps (the two-hour
staleness is a flag that time may set at any moment); pull request checks (one
nondeterministic outcome); the archive, which no code reads; one branch stands for
one session. The external git evidence of the order gate is taken to be exact.
The operator is a person who has checked that a lock's holder is dead; which
claims are reclaimed under a session at work is the constant `ReclaimLive`.

### 2.2 Agent lifecycle

    RunRecord    slot, ledger and prose files of one run; the transitions
    AgentHooks   Claude Code, the hook processes and main's commands  (EXTENDS RunRecord)
    StepLog      what the lifecycle promises, abstractly; AgentHooks implements it

`transition` runs under a file lock, so each transition is one step, with one
exception that the code really has: it appends to the ledger before it writes
`live.json`, and the actions `Torn*` are the deaths in between. Reads and
`write_prose` are outside the lock and are steps of their own: the hook at the
end of an agent goes through `count`, `write`, `commit`, `clear`, and `end-step`
through `write`, `commit`. `pending[u]` is the intent of call `u`, `step` the
current step with its identity, `ledger` the events, `prose` a function from
paths to authors (a text is named by who wrote it, its hash is itself).

Claude Code is external, and modelled by what the hooks rely on: it waits for
the hook of an event before the next event of the same call; it waits for
SubagentStart before main goes on; a foreground call (`Async = FALSE`) keeps main
waiting until PostToolUse and its hook, an asynchronous one does not. Main launches
one agent at a time, as the workflow tells it to. Merged into one step: the reads of a
gate with the write of the intent in PreToolUse (that hook is not killed), and the
lookup of the intent with the identity check at the end of an agent. The order
gates that read prose are abstracted to the set of steps main may begin
(`MainKinds`). The `active_agent` slot, payloads that do not parse, and several
runs at once are left out.

### 2.3 Wave planner

    WavePlan     compute_waves, one action per turn of its loop

Tasks are numbered in path order. `remaining` and a wave are subsequences of the
batch and therefore sets of numbers; what is done is what is no longer remaining.
A scope is the set of places it may touch, so `scopes_disjoint` is disjointness.

`files` are the task files that the batch is parsed from, each as what it settles and
what it leaves open: whether `depends_on` is a list, whether it asks for serial work, and
under its scope heading the entries that are a path, the entries that name one path among
other words, and other text. `ParseImplTask` makes a task of it, `NormalizeScope` is the
command that turns the second kind of entry into the first, and which files it was run on
is chosen in the first state. Abstracted are the text of front matter and headings, path
strings and globs (the overlap test), and the registration of the finished plan.

### 2.4 Story run and implementation chain

    StoryRun             the state file: statuses, seals, next-action
    Workspace            the git worktree, as `git status` and HEAD show it
    ImplementationChain  the script, its workers, main and the Stop hook
                                              (EXTENDS StoryRun, Workspace)
    TaskLine             what the chain of tasks promises, abstractly;
                         ImplementationChain implements it

Tasks are numbered in path order, `Story[t]` is the story of a task, `status` and
`sealed` are the two parts of the state file that change. `ws` is the worktree: the
commit, whether a file outside the task's scope differs from the chain's start
(`stray` in the worktree, `headStray` in HEAD), and what is in the file of the
scope. `Porcelain` is what the script compares, the *names* of changed files;
contents are a variable of their own because the script cannot see them. `run`
is the run of this session with its build-worker step; `receipt` is a history variable,
the last conclusion of each task, which outlives runs. `pc` is where the script
is: `ready` (run prepared), `stage` (before a provider), `work`, `guard` (the
provider has answered), `read` (receipt written), `failed`. `launch`, `at`, `base`,
`attempt` are its variables: routing and initial worktree, position in `STAGES`,
`stage_initial_status` with `stage_initial_head`, and `recovery_attempt`.
`report` is the exit code main has got: 0, 1, 75 (fallback to main), 76 (not passed).

Main's part is the procedure of `skills/impl-loop/SKILL.md` and
`impl-loop-routing.md`: launch for the task of `next-action`, mark completed after
a pass (or after VALIDATION_BLOCKED when its own run of the checks is green) and
with everything committed, work on its own after exit 75, seal a story at its
boundary. Main may also stop at any moment, mark tasks otherwise, end the run or
accept a block; another session may take over, and the Stop hook may fire whenever
main's turn ends, also while the script is at work.

Abstracted: routing (any chain of the set `Chains`, every one ending in
claude-main, with or without an explicit choice); failure categories (the four that
the chain tells apart); the contents of prose, with the answer without a readable
conclusion (`UNREAD`) kept apart, because the chain lets it pass; the git
checks of `seal-story`, which always hold where one line of commits carries
the whole chain. External: what a provider does to the worktree, main's own work,
deaths, sessions. A provider dies with its script, and a session has one run; both are
more than the code promises (section 3).

### 2.5 Close sequence and Stop hook

    Verdicts       how a verdict is read from an agent's prose
    CloseSequence  order gate, begin-step, end-step, boundary BLOCK, Stop hook
                                                        (EXTENDS Verdicts)

`tree` is the worktree of the run: a clean commit, dirty, or removed. `step`, `blocked`,
`completed` and `required` are the slot of `live.json`. The ledger only grows, and the
code asks it a fixed set of questions; `last`, `first`, `latest` and `logged` are the
answers, so that a run has any length. A candidate is one commit: HEAD, tree and root
move together. `from` is history, the commit a step was really begun on, which a receipt
may or may not say. Every record is an append to the ledger and then a write of the slot;
`torn` is the death in between. A prose is paragraphs of lines, a line its verdict words
with what the readers look at (label, place, negation): `Conclusion` is what gate and
hook ask, `FinalConclusion` what reports show.

### 2.6 Sessions

    Sessions       by-pid files, runs of several sessions, garbage collection

`proc[p]` is the session in Claude process `p`; `bypid`, `byrun` the two files named after
it; `slot[r]` and `dir[r]` the slot and the directory of run `r`; `recent` the order in
which the `live.json` files were last written, which the scan uses. A command is in `cmd[p]` with what
it has resolved, and goes through its file writes one by one, killable between them. Ages
are 0, 1 and 2: within a day, within a week, older, the two limits of the collections.

### 2.7 The tools beside the loop

    ProductJourney     one contract, its runs and receipts, skip and epic outcome
    AgentBoundary      the file guard
    TddGuard           the two TDD hooks, and the installation of the generated one
    IssueBoard         creation and registration of an epic's issues
    IssueLabels        start-work, pr-merged, validate-issue, next-work
    SandboxPermission  denials of the Codex sandbox and their one retry
    FailureCache       providers that a story run need not try again
    Tools              the seven, one of them at work     (INSTANCE of each)

They share no state with each other, and their product would only repeat each in every
state of the others: the variable `tool` of `Tools` chooses the one that works in a
behaviour, and the others stay as they began. What corresponds to what:

* *ProductJourney*. A contract is its target criteria with, for each scenario, the criteria it owns, and the
  screens with who captures them and which criteria they show and judge. A receipt
  holds the contract it was made under, what was selected, the exit of each scenario and the failures of the
  phases around them (start, readiness, capture, cleanup). `SkipBasis` is `record_skip`,
  `CloseReady` the outcome of an epic. Receipts are in one order; the code sorts by three times.
* *AgentBoundary*. A path is the area that it normalises to. A Bash command is a sequence of
  segments that use one shell variable, with the operators between them; `BashPaths` and
  `UnresolvedWrites` are what the hook makes of the text, `Outcomes` what a shell may do with it, conditional and
  background segments included.
* *TddGuard*. A file is an extension and a root. `ensure` is a process: self-test, script,
  settings, registration, one write after another, and stoppable between them.
* *IssueBoard*. The script and its `register-issue` calls, step by step; each call to GitHub
  is one step, and between them people place, edit and remove items.
* *IssueLabels*. An issue is its kind, its state and its label; `asked` are validations that
  an event has requested, `flagged` is what a run or job has reported.
* *SandboxPermission*. A log is the set of patterns that its lines match. `answer` is the process of
  `dcness-codex-permission retry`, `worker` the workers, of which a retry knows its receipt.
  The answer dies at any step, and its worker works on.
* *FailureCache*. The state file is its run and how far that is; a launch reads the run, then takes the lock,
  then reads and writes the file of that run. `kept` and `seen` are history.

## 3. What the runs check

Each run is a module `MC...` with a `.cfg` of the run's name.

| Run | What it checks | Instance |
|---|---|---|
| PeerMergeSafety | `GuardedMergesInOrder`, `RegisteredMergesInOrder`, `NoLeakedLock`, and refinement of `SerialMerge`, which includes mutual exclusion | 3 sessions, 2 ordered tasks, 3 lock tokens, 1 operator |
| PeerMergeCareless | `CompletedIsMerged`, whatever operators do | 2 sessions, 1 task, 2 operators who reclaim claims of sessions at work |
| PeerMergeLive | `LockEventuallyFreed` | 2 sessions, one task registered, the other in serial mode |
| AgentHooksForeground | `ReceiptsIntact`, `ReceiptCorrelated`, `OneOutcome` | 3 calls, 2 agent types, 1 command, hooks die |
| AgentHooksAsync | `NothingLateAfterFinish`, refinement of `StepLog` | 2 asynchronous calls, 2 commands, hooks die |
| AgentHooksLive | `StepsClose` | 2 foreground calls, 2 commands, hooks do not die |
| WavePlanBatches | `WavesIndependent`, `DepsFirst`, `PlanFinishes` | all batches of 4 tasks of three families, caps 0 to 3 |
| ImplementationChain | `NoDirtyHandover`, `ReceiptInBounds`, `NonPassNeverCompletes`, `WorkHasOpenStep`, refinement of `TaskLine` | 2 stories of one task, the chain codex, claude, main, 1 commit, 1 recovery |
| ImplementationChainBlocked | `BlockedRunStops`, which fails (section 5) | as ImplementationChain, tasks marked running only |
| CloseSequence | `CloseVerified`, `BoundaryRespected`, `StopLeavesWork`, `VerifiedRunCloses` | 2 commits, review, acceptance and one other step, reports that pass or fail, lane lite |
| Sessions | `OwnRunsOnly`, `OpenRunKept`, `EndRunHealsOne` | 2 sessions, 2 processes, 2 runs, a scan of one file, commands that do not find their process |
| Tools | the properties of the seven modules of 2.7, below | one tool in each behaviour |

The properties of Tools: `SkipBacked` and `CloseReadySound` (ProductJourney), `GuardKept` and
`RolesApart` (AgentBoundary), `TestFirst` and `RegisteredTested` (TddGuard), `StoryOnce`,
`TriageKept` and `RegisteredFully` (IssueBoard), `RetainedLabelSeen` and `EveryIssueOffered`
(IssueLabels), `RetriedOnce` (SandboxPermission), `CacheExact` (FailureCache).

Type invariants, and what the refinements and theorems already contain (`MutualExclusion`,
`StageHoldsLock`, `EachOnce`, `WavesWithinCap`, `InOrder`, `LaunchAdvances`), are stated in the modules and are not checked again by
a run; they are proved (section 4), except for the scan order of `Sessions`, which holds in the instance
of that run. The types of TddGuard, IssueBoard and IssueLabels are parts of the invariants in `ToolsProofs`.

**Bounds.** Tokens bound the number of lock acquisitions; three let a third
session acquire while two others are between the halves of a release. Two ordered
tasks are the smallest story with an order to violate. Three calls are needed for
a denied call, its successor that might take the stale intent, and a repetition
of the same step. Commands of main are bounded by `MaxCommands`. Four tasks give
a wave of three with a neighbour outside, and a cycle beside a ready task; none, half or
all of their files are normalized, and one of the places is a risk by itself. The
ledger, the number of intents and all ranks are bounded by these. The longest chain
has two providers that can leave something behind and a third that can find it;
one commit (`MaxCommits`) moves HEAD between two attempts of a provider; one
change (`NChanges`) tells a dirty file from a clean one; with one recovery
(`RecoveryLimit`) a provider is at work for the first time, again, and never
more. Two stories of one task have both kinds of order, of tasks and of
stories; launches, kills and sessions are not bounded. Two commits are a candidate and a
drift from it, runs have any length. Two sessions and processes are one that leaves files
behind and one that meets them; two runs are one of each.

The constants of Tools are in `MCTools`. Journeys: contracts with scenarios, with a screen
and with one command; three receipts, one of them damaged, which is a pass, a failure after it and
a run after that. Guard: commands of three segments (an assignment, something in between, and
a write), with every operator at an assignment or a write, `&` only for lists of one command because the text says too little of
longer ones; four override files. TDD: two extensions, two presets, one contract of the
user. Issues: an epic of two stories, four issues, triage of one; two issues of three kinds
with two pull requests, one of which names both. Permission: two receipts and two workers, so that one denial is answered while
the worker of another is at work; five answers, one for each way to classify; two polls
in all and one without progress. Cache: two launches, two providers, two story runs, five observations.

**Deadlock** is not checked: all these systems stop rightly, when sessions are
done or dead, when a run is closed, when the plan is complete, when all tasks are
marked and main stops.

**Fairness.** `PeerMergeLive`: a script that runs takes its next step; a lock
grows old; the operator finishes a command that was started, and comes to break a
stale lock of a dead session at last (strong fairness, because other claims may keep the
operator busy in between). No fairness is assumed of sessions' decisions,
of deaths, or of GitHub. `AgentHooksLive`: Claude Code ends each agent that it
started and runs each hook to its end; nothing is assumed of main.
`WavePlanBatches`: the loop goes on. `CloseSequence`: Claude Code runs the Stop hook at the end of
each answer, and not every one of its processes is killed. `Sessions`: the session of `s1` calls end-run again and
again (strong fairness, because other commands come in between), and not every call is killed. ImplementationChain has none: that a launch comes
to its end is stated as `LaunchAdvances`, with the bounds on positions and
recoveries in `TypeOK`, and needs no assumption on how long a provider works.

**What does not hold, and why it is not listed.** With asynchronous calls
`ReceiptsIntact` fails: a hook can count an occurrence, lose the step to main's
`end-step` for the same kind, and write over the prose main has just logged, after
which the ledger cannot be read. It is the race behind `ProseHasReceipt` (section 5) with a worse
end, so the property is checked for foreground calls only, which is how the
workflow runs its agents. A repeated step that `end-step` closes without
`--prose-file` gets the prose file of the first occurrence (`_find_prose_fallback`,
against the purpose of occurrences at `harness/signal_io.py:147`): two receipts
name one file, and no property says otherwise. `LockEventuallyFreed` is stated of lock files that were
written out: a process killed between create and write leaves an empty file on
which `break_stale` raises, and no command removes it. A session killed between
MERGED and `merge-lock complete` leaves a claim that is not completed: it can be
reclaimed and claimed again although the pull request is merged, so
`CompletedIsMerged` has no converse.

Of the chain, four things do not hold in general:

* `NoDirtyHandover` is stated of launches that found a clean worktree. If a file is
  changed already, a provider may change it again and fail; `git status` and
  HEAD are the same, and the next provider starts on the work of the first.
* `ReceiptInBounds` speaks of the changes since the launch. The guard's base is the
  HEAD that this launch found; a stray commit of an earlier launch that was
  killed or blocked is not between the two any more.
* A provider runs in a session of its own (`start_new_session`) and survives the
  script when that is killed; a relaunch then has two providers in one worktree.
* The receipt belongs to a run. A new session has no run, so a task with a
  receipt that nobody marked is implemented again.

`WorkHasOpenStep` holds because the Stop hook leaves a run alone until its last step is
closed. It does not say that the run is still open: a run whose receipt is not a pass
can be ended by the hook after the chain has chosen it and before `begin-step`; the transition
`step_started` does not look at `completed_at`, so the ended run gets another step and a
provider works for it. The model has this behaviour.

Of the close sequence, two things that one may expect do not hold, and TLC refutes them with the
definitions that are in the module:

* `ContinuingRunHeld`. The hook looks for a report under the name of the first occurrence of a step: a worker
  that failed, was asked again and passed is judged by its old report, and the run that it should hold
  open is ended.
* `ClosedAsJudged`. `Conclusion` takes the first routing word by priority, wherever it stands: with a line about
  tests that pass, a report that ends in FAIL reads PASS (`MCMisleadingTexts`).

`CloseVerified` supposes that main ends the step that it began (`Careless = FALSE`). An
`end-step` for another step puts the candidate of the current one into its receipt. An end-run that is
killed after `run_finished` and before the slot is written leaves a run that the hook takes for
finished; main has to call end-run again, and `VerifiedRunCloses` says so.

Of sessions: `OwnRunsOnly` is about commands that find their Claude process, and about sessions that do not
stay open over a long pause (`Sleeps = FALSE`). A command without its process acts on whatever the scan
finds; and a session that sleeps for a day loses its process file to the next session's start.

Of the tools:

* A receipt of a journey without scenarios or screens is not bound to the contract, so
  `CloseReadySound` is about scenarios. A journey that is killed leaves its service running.
* The guard reads `T=a && x &` as an assignment that has taken place, where the shell makes it in a
  child; longer background lists are therefore not among the commands. `cd`, nested shells and
  other interpreters are not judged by the code either.
* A contract that cannot be read lets every file pass the generated hook, and the self-test asks
  only the first extension in the first root: `TestFirst` and `RegisteredTested` say no more.
* A script killed between the creation of an issue and the note in `stories.md` makes no second
  issue when it runs again, because it then finds the epic there; but it also creates none of those that are missing.
* The workflow has no `closed` event: an issue closed by hand keeps its label unseen, and
  `RetainedLabelSeen` is about issues closed by a merge.
* Two answers to one receipt at the same time would both find it open, as nothing locks it;
  `RetriedOnce` supposes one. Settings that were merged for the project stay if the call dies before its
  retry, and a death during the retry leaves the receipt at "retrying" for good.
* A launch that outlives its story run records into the next one's cache, which `CacheExact` admits by name.
  The words of a log decide whether a failure is kept: one "unauthorized" is enough.

## 4. What is proved

TLAPS proves, for every value of the constants that satisfies the assumptions
stated in the modules (named `...Constants`, `...Assumption`):

| Theorem | States |
|---|---|
| `PeerMergeProofs!TypeCorrect` | types of files, calls, sessions and pull requests |
| `PeerMergeProofs!StageKeepsLock`, `MergeStageExclusive` | with at most one operator, a session in the merge stage owns the lock file, and two are never in it |
| `PeerMergeOrderProofs!CompletedEvidenceSound` | a completed claim means a merge, whatever operators do |
| `PeerMergeOrderProofs!GuardKeepsOrder` | a task handed over under the guard has all prior tasks merged, whatever operators do |
| `PeerMergeOrderProofs!BoardMergesInOrder` | with at most one operator, who reclaims no claim of a session at work, every registered task merges after its prior tasks, however it gets merged |
| `PeerMergeOrderProofs!LockNeverLeaks` | under the same assumptions, no way out of the script or of its trap leaves its lock behind |
| `PeerMergeOrderProofs!ImplementsSerialMerge` | with at most one operator, every behaviour of files, calls and crashes is one of the serialized merge |
| `AgentHooksProofs!HooksTyped` | types of calls, hooks, slot, ledger and prose |
| `AgentHooksProofs!ReceiptsCorrelated` | for any calls, agent types and modes: a receipt of an agent is about the call it was launched by and holds its own text |
| `AgentHooksProofs!LedgerStaysReadable` | with foreground calls, no later write replaces the prose file of a receipt |
| `AgentHooksProofs!AgentEndsOnce` | an agent has one receipt at most, and never a receipt and an abort |
| `AgentHooksProofs!FinishIsFinal` | what is recorded after `run_finished` is the end of a step that was begun after it |
| `AgentHooksProofs!HooksImplementStepLog` | every behaviour of calls, hooks, kills and commands is one of the step log |
| `WavePlanProofs!PlanTypeCorrect`, `PlanWithinCap` | types; no wave exceeds the cap, for any requested cap |
| `WavePlanProofs!PlanSound` | nothing is lost or planned twice, waves are independent by their task files, and without a cycle dependencies go first |
| `WavePlanProofs!PlanDepsFirst` | the last part by itself |
| `WavePlanProofs!PlanInFileOrder` | files in topological order stay in that order |
| `ImplementationChainProofs!TypeCorrect` | types; no launch has more providers or recoveries than its bounds |
| `ImplementationChainProofs!ImplementsTaskLine` | for any contiguous stories and any chains, tasks are completed in order and each story is sealed before the next begins |
| `ImplementationChainProofs!CleanHandover`, `ReceiptsInBounds` | no dirty worktree changes hands in a launch from a clean one; a worker's receipt covers no stray change since the launch |
| `ImplementationChainProofs!CompletionNeedsPass` | a completed task has a receipt that passes, or VALIDATION_BLOCKED that main has overruled |
| `ImplementationChainProofs!StepStaysOpen`, `LaunchesAdvance` | a provider at work has an open step; a launch only goes forward |
| `CloseSequenceProofs!CloseTypeCorrect` | types of slot, ledger answers and worktree |
| `CloseSequenceProofs!CloseIsVerified` | for any commits, steps and reports: the hook ends a run on the evidence of one commit, if main ends the steps it began |
| `CloseSequenceProofs!StopLeavesWorkAlone`, `BoundaryIsRespected` | the hook ends no run within a step; no step begins under an undecided BLOCK, whatever kill tore its records |
| `SessionsProofs!OwnRuns` | for any sessions, processes and runs: a command that finds its process writes to its own session's runs |
| `SessionsProofs!OpenRunsAreKept` | no collection, by whichever session, takes the directory of a run that its session, once started, shows as open |
| `ToolsProofs!DenialAnsweredOnce` | `RetriedOnce` for any receipts, workers and answers |
| `ToolsProofs!CacheIsMemory` | `CacheExact` for any launches, providers and runs |
| `ToolsProofs!StoriesHaveOneIssue`, `BackfillKeepsTriage`, `ReportedIsRegistered` | for an epic of any size, and people at work meanwhile: no story has two issues; a re-run keeps each status and priority that its look at the item showed; what is reported as registered has every field and the right type |
| `ToolsProofs!MergedIssuesAreSettled`, `NextWorkIsComplete` | for any issues and pull requests: a label that stays on a merged issue has been flagged once the jobs are over; next-work offers every open issue in one place, or leaves it out for a reason that it has |
| `ToolsProofs!RegistrationIsTested`, `TestsComeFirst` | for any contracts and presets: a target is marked as registered only for a contract that passes the self-test; no file in scope is written without a test or an exemption, wherever an installation was stopped |
| `ToolsProofs!RolesStayApart`, `GuardIsKept` | for any commands, callers and boundary.json, however the shell runs a command: a judged call writes only where its role may, pushes nothing, and leaves the guard and boundary.json as they are |
| `ToolsProofs!CloseIsBacked` | for any contracts and any number of receipts: an epic is told to close on a run with scenarios only if that run passed what the contract names today |
| `ToolsProofs!SkipIsBacked` | for the same: a skip names the PASS of a full run, after which no run has left a skipped target failing |

*The argument for the lock.* Mutual exclusion is not inductive: a release or a
break unlinks the path, so one must know whose file is there when it does.
`LockInv` says that a session in the stage owns the file (`StageOwnsLock`), that
a session between the halves of a release is still in the stage with the record
it read (`ReleasingInStage`), and that what an operator is about to unlink is
the lock of a dead session that is still there (`BreakingDeadLock`).
The last part needs the assumption of one operator; with two, TLC finds it violated
(section 5).

*The argument for the order.* `OrderInv` adds to `CompletedIsMerged` that a
session past the gate has its prior tasks merged, that one past MERGED, or in the
middle of `complete`, has a merged task. Merged pull requests only grow, so what the
gate has seen stays true until the merge is requested, however long CI takes.
It speaks of tasks handed over under the guard. That a registered task is never handed over
without it needs its claim: `ClaimInv` says that the claim of a session at work stays on the board and its
own, which holds if operators reclaim only what no session works on (`CarefulOperator`), and
`RequestsGuarded` that what GitHub has of the board, it has under the guard. The leak of a
lock is a matter of who owns it: in the end `NoLeakedLock` and `StageLockWritten` are kept together,
as a session that has filled its lock file knows the token it must release.

*The argument for the agents.* `CallInv` brings together what Claude Code promises and what the record
says. The events of a call come in order, each after the hook before (`Phased`), main launches one agent
at a time and its intent is the newest until the agent claims it (`LaunchedLast`); so an intent
is claimed by its own call only (`IntentsOwn`) and each hook works for its own (`HooksOwn`), although the spawn event does not name the
call. `OwnInv` carries this on to the step and the ledger, and contains `ReceiptCorrelated`. For
`ReceiptsIntact`, `ForegroundInv` says that one call or command is at work at a time
(`OneAtWork`), so the number of the next prose file, read without a lock, is still past all files of
its kind (`PathsBelow`) when the file is written, and what is about to be logged is in the file it names
(`AboutToLog`); a hook killed in between leaves a file that the next hook replaces, and no receipt names it. `OneOutcome` needs no foreground: after
an outcome (`OutcomesFinal`) the hook of that call is past its commit, or its step is no longer
there. `FinishedInv` says that a step still open after end-run was started later. The refinement uses all
of these: an entry of the ledger is a step of `StepLog`, everything else a stutter.

*The argument for the planner.* Each turn appends a step whose tasks leave
`remaining` (`NextPlans`). `PlanInv` joins `EachOnce`, `WavesJudged` and
`DepsFirst`; `WavesJudged` is independence as the planner judges it, on parsed tasks, and with
`Parsed`, that the batch is what the files say, it gives `WavesIndependent` of the files
(lemma `JudgedIndependent`); the step for `DepsFirst` uses that without a cycle a ready task always
exists, so `PlanUnresolved` cannot happen. For the order, `OrderInv` adds that
everything planned is smaller than everything remaining, which holds because in
topological order the first remaining task is always ready.

*The argument for the chain.* The types are inductive only with `Chosen`: a launch has
a task and a chain, its position is on a headless provider while a worker is at
work, and the last position is main's, so skipping and falling back never run off the end.
`LineInv` follows the story run: a running task, the task of a launch and the task of
a report are open in the sense of `TaskLine`, which stays true because completed
tasks and seals only grow there. That an answer of `next-action` is open (lemma
`NextTaskOpen`) needs contiguous stories; otherwise a task could be answered whose
unsealed story lies further back. `WorktreeInv` says that before a provider starts, the
worktree of a clean launch is the initial one, and that an unmoved HEAD has the
same stray files, so that `base` and the guard together cover all attempts since
the launch. `ReceiptInv` ties the receipt of a task to the step of its run, from which a
relaunch answers. `StepInv` says that a step is open from `stage` on; the Stop hook
does not touch it before the receipt.

*The argument for the close.* `CloseVerified` speaks of `from`, which the code does not record.
`FrozenTrue` ties the two: a candidate in the step, and in a receipt, is the commit that the step was
begun on. It is inductive only if `end-step` is for the current step.

*The argument for sessions.* `SessionsInv` says that once its SessionStart is over, a Claude process has a
young file with its own session (`Registered`), and that a command that found its process carries
that session (`InSession`). What a scan finds or a dead process left does not matter then: a
command writes only to slots of the session it carries. `DirsInv` is about the collections: a run's
directory is as old as its slot or has been collected (`SameAge`), and a session past the
collection of its slots has young ones only (`YoungSlots`), so a directory that
is old enough to be taken belongs to no open run. Both theorems exclude sessions that stay open over a long pause.

*The argument for the retry.* `AnswerCurrent` follows the answer: until it has marked the receipt, its
copy is what the file holds, and the receipt has no history (`OpenUntouched`); afterwards the
receipt is counted, and no call takes it up again. `WorkersNamed` keeps it so while a worker, alone
after the answer's death, may still close it.

*The argument for the cache.* `RecordsAreSeen` says what a launch holds between the failure and the write:
an unfit provider, of the run that is current or of the scope that it has read. `FutureIsEmpty`
gives a new run an empty file. That an entry means an unfit provider comes from the
order in which causes are classified (lemma `RecordableUnfit`).

*The argument for the issues.* The notes in `stories.md` and the issues are two records of the same thing.
`IssuesInv` relates them to the script's position: stories are created in their order, the epic first, and an issue that is not
noted yet is the newest one. For triage, `CallOwn` says what a
registration, on its way from its first look to its last write, knows of the item: the fields it is about to set were empty
in that look, if it is to preserve them, and the item it holds lacks none that the look showed. `LabelsInv` follows what each issue is owed: `Owed` says of every closed issue
whose label stays that it is asked about, flagged, or in the hands of a job that will do one of both, and `JobsHave` says what the jobs have read.

*The argument for tests first.* `TddInv` says that an installation past its test holds a contract that passed
it, whatever the contract is now, and that Codex is registered after Claude only.

*The argument for journeys.* `JourneyInv` says of each receipt that a full pass ran and passed every scenario of
the contract it names, and showed its screens (`FullPass`), and that a receipt which passed has no failed target (`RanAsTold`);
contracts change, receipts do not. For skips, lemma `ZeroIsPassed` goes through the receipts after the PASS, as `Failing` does:
a target that is marked 0 is one that the last receipt about it has passed.

*The argument for the file guard.* Most of it is about one command. Lemma `RunFollowed` goes through its segments with the
shell: if the guard can tell all its writes (`Told`), what has been written is among the paths that the
guard has judged, because the value of T is that of the last assignment wherever this one is certain (`TKnown`); every other
segment leaves T alone, or the command has none that writes to T. `AllowedSpares` says where a path that is let through cannot be.
The model of the shell, and so the theorem, is about commands whose background lists are single commands (`BoundaryConstants`).

The two functions by recursion on a position, `Runs` and `Failing`, are CHOOSEs, so that they have their values must be
proved: lemma `Recursion` builds such a function step by step, and `StepByStep` is the induction, both from the
well-founded order of the numbers.

Only model-checked:

* liveness, which the prover does not do: `StepsClose`, `VerifiedRunCloses`, `LockEventuallyFreed`, `EndRunHealsOne`, `PlanFinishes`;
* the scan order of `Sessions`, which is part of the types there.

Every safety property of a run that passes is proved.

`ToolsProofs` is about `Tools`, with its constants `ToolsConstants`; as a tool's theorem speaks of no
variable of another, it is a theorem of that tool's module.

## 5. Where code and documents disagree

The run ImplementationChainBlocked finds this one:

| The document says | The code does |
|---|---|
| when boundary recoveries are used up, a boundary BLOCK in the run stops the next step (`docs/plugin/loop-procedure.md:166`), and the gate asks to accept the changes or begin a new run (`harness/session_state.py:1527`) | the chain takes the step for open, because it looks for an event `run_blocked` (`scripts/dcness-implementation-chain:728`) while the transition writes `blocked` (`harness/session_state.py:766`); a relaunch resumes the step without the gate and starts a provider in the blocked run |

Three others are behaviours of the models that the instances above exclude or do not ask about:

| Where | The document says | The code does |
|---|---|---|
| `MutualExclusion` of `PeerMerge` with two operators | the merge stage is serialized by a mutex (`docs/plugin/parallel-policy.md:57`) | two operators who read the same dead lock unlink twice; the second unlink removes a live session's lock |
| `RegisteredMergesInOrder` with `ReclaimLive` and a repeated finalize | when prior work cannot be confirmed, later tasks are blocked (`parallel-policy.md:73`) | after a failed finalize and the reclaim that the error message asks for, the branch has no claim, and the next finalize runs in serial mode without gate and lock |
| `ProseHasReceipt` of `AgentHooks` with asynchronous calls | a step with another identity is refused before the prose is written (`docs/plugin/hooks.md:294`) | the check is a plain read; by the commit the step may have changed, and the prose is already there for the gates to read |

## 6. What is not modelled

* Agent routing, activation, status: one user writes one file, the code validates it.
* Run review, fleet reports, session measurements, design records, previous tasks: they read what
  others wrote, or append summaries for people.
* Context documents, boundary suggestions, mockup checks, copies of CI workflows, documentation and
  release checks: generators and checks of texts, run by hand or by CI.
* Guard core and telemetry: shared result types and diagnostics that nothing decides on.
* Pull request commands before `pr-finalize.sh`: they check texts and call git and gh once.
* Hook wrappers: each starts one Python process; that it may die is in `AgentHooks` and `Sessions`.

Of the modelled parts, what is left out is said in section 2. Of the chain and the
story runner there are also left out: launches at the close of a run (`--rework`,
JOURNEY_CONVERGENCE), direct runs, degraded context and `previous_tasks`. Of the order gate, journey
deferrals; of the issues, `bootstrap` and `setup_labels.sh`, which create what is missing and look again;
of the journeys, time limits and the history of durations.

## 7. Plan

In order of weight:

1. Planner and board composed: registration of a plan, claims without regard to
   steps; does a claimed task have its dependencies merged?
2. Several agents launched at once in `AgentHooks`, with the `active_agent` slot; which of the theorems of
   `AgentHooksProofs` need that main launches one at a time is visible in `LaunchedLast`.
3. `ImplementationChain` with a provider that outlives its script, and the boundary over
   all launches of a task; composed with `FailureCache` in place of its set of skipped providers.
4. `CloseSequence` with journey deferrals and the receipts of `ProductJourney`.
5. Proofs: the types of the scan order in `Sessions`.

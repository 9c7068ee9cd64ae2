------------------------- MODULE ImplementationChain ------------------------
(* scripts/dcness-implementation-chain in the task loop of /impl-loop: main   *)
(* launches the script for the next task of the story run; the script         *)
(* prepares run and step, lets one provider after another work, recovers a    *)
(* provider that failed half-way, and reports; main marks the task. The       *)
(* script may be killed at any step, the session may be replaced, and the     *)
(* Stop hook may end the run while the script is at work.                     *)
EXTENDS StoryRun, Workspace, Sequences

CONSTANTS
  Chains,         \* what routing may resolve to: sequences of providers
  RecoveryLimit,  \* DCNESS_IMPLEMENTATION_RECOVERY_LIMIT
  OtherMarks      \* the statuses main marks besides "completed"

Headless == {"codex-headless", "claude-headless"}
Providers == Headless \cup {"claude-main"}

ASSUME ChainConstants ==
  /\ RecoveryLimit \in Nat
  /\ MaxCommits \in Nat
  /\ NChanges \in Nat
  /\ OtherMarks \subseteq Statuses \ {"completed"}
  /\ \A c \in Chains :
       c \in Seq(Providers) /\ c # <<>> /\ c[Len(c)] = "claude-main"

Passing == {"PASS", "UNREAD"}   \* UNREAD: no conclusion found in the prose
Conclusions == Passing \cup {"FAIL", "VALIDATION_BLOCKED"}

\* Failures as the chain tells them apart. Of the categories of
\* provider_failure_cache, "capability" stands for those that are cached,
\* "recoverable" for those worth a second attempt save boundary_violation.
Failures == {"capability", "recoverable", "boundary_violation", "other"}

VARIABLES
  run,      \* the run of this session and its build-worker step
  receipt,  \* history: the last conclusion recorded for each task
  cache,    \* providers in the failure cache of this chain
  pc,       \* where the script is, "off" when none runs
  launch,   \* what a launch has chosen, and the worktree it found
  at,       \* the position in the chain of providers
  base,     \* the worktree when the provider at this position was started
  attempt,  \* recoveries of this provider
  worker,   \* what the worker script has come to
  report    \* the exit code main has got, and for which task

chainVars == <<pc, launch, at, base, attempt, worker>>
vars == <<storyVars, ws, run, receipt, cache, chainVars, report>>

Runs == [task : 0 .. NTasks, ended : BOOLEAN, blocked : BOOLEAN,
         step : {"none", "open"} \cup Conclusions]
Launches == [providers : Chains \cup {<<>>}, explicit : BOOLEAN, start : Worktrees]
Works == [result : {"none"} \cup Conclusions \cup Failures, permission : BOOLEAN]
Reports == [code : {-1, 0, 1, 75, 76}, task : 0 .. NTasks]

NewRun(t) == [task |-> t, ended |-> FALSE, step |-> "none", blocked |-> FALSE]
NoRun == NewRun(0)
NoLaunch == [providers |-> <<>>, explicit |-> FALSE, start |-> Fresh]
NoWork == [result |-> "none", permission |-> FALSE]
NoReport == [code |-> -1, task |-> 0]

Init ==
  /\ StoryInit
  /\ ws = Fresh
  /\ run = NoRun
  /\ receipt = [t \in Tasks |-> "none"]
  /\ cache = {}
  /\ pc = "off" /\ launch = NoLaunch /\ at = 1 /\ base = Fresh
  /\ attempt = 0 /\ worker = NoWork
  /\ report = NoReport

\* The script is gone and its variables with it.
Gone ==
  /\ pc' = "off" /\ launch' = NoLaunch /\ at' = 1 /\ base' = Fresh
  /\ attempt' = 0 /\ worker' = NoWork

Exit(code) == Gone /\ report' = [code |-> code, task |-> run.task]

HasRun == run.task # 0 /\ ~run.ended

\* The run is over; its ledger ends with run_finished.
Ended == [run EXCEPT !.ended = TRUE, !.step = "none"]

----------------------------------------------------------------------------
(* Preparation: prepare_chain_state, ensure_chain_run, ensure_chain_step    *)

\* A run for the task is used again, any other is left and a new one begun.
Launch ==
  \E t \in Tasks, c \in Chains, explicit \in BOOLEAN :
    /\ pc = "off"
    /\ NextIsTask(t)
    /\ run' = IF HasRun /\ run.task = t THEN run ELSE NewRun(t)
    /\ pc' = "ready"
    /\ launch' = [providers |-> c, explicit |-> explicit, start |-> ws]
    /\ report' = NoReport
    /\ UNCHANGED <<storyVars, ws, receipt, cache, at, base, attempt, worker>>

\* begin-step, with the order gate that refuses a blocked run.
BeginStep ==
  /\ pc = "ready" /\ run.step = "none" /\ ~run.blocked
  /\ run' = [run EXCEPT !.step = "open"]
  /\ pc' = "stage"
  /\ UNCHANGED <<storyVars, ws, receipt, cache, launch, at, base, attempt,
                 worker, report>>

RefuseStep ==
  /\ pc = "ready" /\ run.step = "none" /\ run.blocked
  /\ Exit(1)
  /\ UNCHANGED <<storyVars, ws, run, receipt, cache>>

\* An open step is continued: no gate is asked.
ResumeStep ==
  /\ pc = "ready" /\ run.step = "open"
  /\ pc' = "stage"
  /\ UNCHANGED <<storyVars, ws, run, receipt, cache, launch, at, base,
                 attempt, worker, report>>

\* Mutant of AlreadyCompleted: the recorded conclusion is not read.
AlreadyCompletedUnread ==
  /\ pc = "ready" /\ run.step \in Conclusions
  /\ Exit(0)
  /\ UNCHANGED <<storyVars, ws, run, receipt, cache>>

\* The run holds a receipt: the launch changes nothing and reports it again.
AlreadyCompleted ==
  /\ pc = "ready" /\ run.step \in Conclusions
  /\ Exit(IF run.step \in Passing THEN 0 ELSE 76)
  /\ UNCHANGED <<storyVars, ws, run, receipt, cache>>

----------------------------------------------------------------------------
(* The loop over the providers                                              *)

Provider == launch.providers[at]

SkipCached ==
  /\ pc = "stage" /\ Provider \in cache /\ ~launch.explicit
  /\ at' = at + 1
  /\ UNCHANGED <<storyVars, ws, run, receipt, cache, pc, launch, base, attempt,
                 worker, report>>

StartProvider ==
  /\ pc = "stage"
  /\ Provider \in Headless
  /\ Provider \in cache => launch.explicit
  /\ pc' = "work" /\ base' = ws /\ attempt' = 0
  /\ UNCHANGED <<storyVars, ws, run, receipt, cache, launch, at, worker, report>>

FallToMain ==
  /\ pc = "stage"
  /\ Provider = "claude-main"
  /\ Exit(75)
  /\ UNCHANGED <<storyVars, ws, run, receipt, cache>>

----------------------------------------------------------------------------
(* The worker script: provider, guards, receipt                             *)

ProviderWrites ==
  /\ pc = "work"
  /\ WriteFiles(BOOLEAN)
  /\ UNCHANGED <<storyVars, run, receipt, cache, chainVars, report>>

ProviderCommits ==
  /\ pc = "work"
  /\ CommitFiles
  /\ UNCHANGED <<storyVars, run, receipt, cache, chainVars, report>>

Fails(f, permission) ==
  /\ pc' = "failed"
  /\ worker' = [result |-> f, permission |-> permission]

\* The CLI is missing or refuses, a timeout, an empty answer, an interrupt.
ProviderFails ==
  /\ pc = "work"
  /\ \E f \in Failures \ {"boundary_violation"} : Fails(f, FALSE)
  /\ UNCHANGED <<storyVars, ws, run, receipt, cache, launch, at, base, attempt,
                 report>>

\* A final answer; VALIDATION_BLOCKED of Codex may ask for a permission.
ProviderAnswers ==
  /\ pc = "work"
  /\ \E c \in Conclusions, permission \in BOOLEAN :
       /\ permission => c = "VALIDATION_BLOCKED" /\ Provider = "codex-headless"
       /\ worker' = [result |-> c, permission |-> permission]
  /\ pc' = "guard"
  /\ UNCHANGED <<storyVars, ws, run, receipt, cache, launch, at, base, attempt,
                 report>>

\* Mutant of GuardBase: the worktree is compared with its own HEAD only.
GuardBaseCurrent == ws

\* Changes in the worktree, or committed since the chain started the provider.
GuardBase == base

OutOfBoundary == ChangesStray(GuardBase, ws)

BoundaryGuard ==
  /\ pc = "guard" /\ OutOfBoundary
  /\ Fails("boundary_violation", worker.permission)
  /\ UNCHANGED <<storyVars, ws, run, receipt, cache, launch, at, base, attempt,
                 report>>

\* The TDD guard, or missing phase prose of an answer that passes.
OtherGuard ==
  /\ pc = "guard" /\ ~OutOfBoundary
  /\ Fails("recoverable", worker.permission)
  /\ UNCHANGED <<storyVars, ws, run, receipt, cache, launch, at, base, attempt,
                 report>>

\* end-step
RecordReceipt ==
  /\ pc = "guard" /\ ~OutOfBoundary
  /\ run' = [run EXCEPT !.step = worker.result]
  /\ receipt' = [receipt EXCEPT ![run.task] = worker.result]
  /\ pc' = "read"
  /\ UNCHANGED <<storyVars, ws, cache, launch, at, base, attempt, worker, report>>

----------------------------------------------------------------------------
(* The chain after the worker                                               *)

\* The conclusion decides the exit code; a provider chosen by hand is well again.
ReportReceipt ==
  /\ pc = "read"
  /\ cache' = IF launch.explicit THEN cache \ {Provider} ELSE cache
  /\ Exit(IF worker.result \in Passing THEN 0 ELSE 76)
  /\ UNCHANGED <<storyVars, ws, run, receipt>>

Mutated == ~LooksUnchanged(base, ws)

Recoverable ==
  /\ worker.result \in {"recoverable", "boundary_violation"}
  /\ ~worker.permission
  /\ attempt < RecoveryLimit

\* The same provider goes on in the same worktree.
Recover ==
  /\ pc = "failed" /\ Mutated /\ Recoverable
  /\ attempt' = attempt + 1
  /\ worker' = NoWork
  /\ pc' = "work"
  /\ UNCHANGED <<storyVars, ws, run, receipt, cache, launch, at, base, report>>

\* The diff stays, nobody else gets it; a boundary violation blocks the run.
GiveUp ==
  /\ pc = "failed" /\ Mutated /\ ~Recoverable
  /\ run' = IF worker.result = "boundary_violation"
            THEN [run EXCEPT !.blocked = TRUE] ELSE run
  /\ Exit(1)
  /\ UNCHANGED <<storyVars, ws, receipt, cache>>

\* Failed before a mutation: the next provider's turn.
NextProvider ==
  /\ pc = "failed" /\ ~Mutated
  /\ cache' = IF worker.result = "capability" /\ ~launch.explicit
              THEN cache \cup {Provider} ELSE cache
  /\ at' = at + 1 /\ base' = Fresh /\ attempt' = 0 /\ worker' = NoWork
  /\ pc' = "stage"
  /\ UNCHANGED <<storyVars, ws, run, receipt, launch, report>>

----------------------------------------------------------------------------
(* Main, as the skill tells it, and the hook at the end of its turn         *)

\* Exit 75: main's own agent works in the open step. Its edits are guarded
\* when they are made, so none is out of bounds.
MainsTurn == pc = "off" /\ report.code = 75 /\ HasRun /\ ~run.blocked

MainWrites ==
  /\ MainsTurn
  /\ WriteFiles({})
  /\ UNCHANGED <<storyVars, run, receipt, cache, chainVars, report>>

MainCommits ==
  /\ MainsTurn
  /\ CommitFiles
  /\ UNCHANGED <<storyVars, run, receipt, cache, chainVars, report>>

MainEndsStep ==
  /\ MainsTurn /\ run.step = "open"
  /\ \E c \in Conclusions :
       /\ run' = [run EXCEPT !.step = c]
       /\ receipt' = [receipt EXCEPT ![run.task] = c]
       /\ report' = [report EXCEPT !.code = IF c \in Passing THEN 0 ELSE 76]
  /\ UNCHANGED <<storyVars, ws, cache, chainVars>>

\* After a pass, or after VALIDATION_BLOCKED when main's own run of the checks
\* is green; and with everything committed.
MarkCompleted ==
  /\ pc = "off" /\ Clean(ws)
  /\ \/ report.code = 0
     \/ report.code = 76 /\ receipt[report.task] = "VALIDATION_BLOCKED"
  /\ Mark(report.task, "completed")
  /\ report' = NoReport
  /\ UNCHANGED <<ws, run, receipt, cache, chainVars>>

\* A task is put aside, taken up again, or noted as running.
MarkOther ==
  /\ pc = "off"
  /\ \E t \in Tasks :
       \/ NextIsTask(t) /\ \E s \in OtherMarks : Mark(t, s)
       \/ status[t] \in {"error", "blocked"} /\ Mark(t, "pending")
  /\ UNCHANGED <<ws, run, receipt, cache, chainVars, report>>

SealStory ==
  /\ pc = "off"
  /\ Seal
  /\ UNCHANGED <<ws, run, receipt, cache, chainVars, report>>

\* end-run
EndRun ==
  /\ pc = "off" /\ HasRun
  /\ run' = Ended
  /\ UNCHANGED <<storyVars, ws, receipt, cache, chainVars, report>>

\* accept-boundary-block
AcceptBlock ==
  /\ pc = "off" /\ HasRun /\ run.blocked
  /\ run' = [run EXCEPT !.blocked = FALSE]
  /\ UNCHANGED <<storyVars, ws, receipt, cache, chainVars, report>>

\* Mutant of StopHook: an open step does not hold the run.
StopHookDuringStep ==
  /\ HasRun /\ run.task # NTasks
  /\ run.step \in {"FAIL", "UNREAD", "open"}
  /\ run' = Ended
  /\ UNCHANGED <<storyVars, ws, receipt, cache, chainVars, report>>

\* A run whose last step is closed with another conclusion than PASS and
\* VALIDATION_BLOCKED; not the run of the last task, which waits for acceptance.
StopHook ==
  /\ HasRun /\ run.task # NTasks
  /\ run.step \in {"FAIL", "UNREAD"}
  /\ run' = Ended
  /\ UNCHANGED <<storyVars, ws, receipt, cache, chainVars, report>>

Kill ==
  /\ pc # "off"
  /\ Gone
  /\ report' = NoReport
  /\ UNCHANGED <<storyVars, ws, run, receipt, cache>>

\* Another session goes on; it has no run.
NewSession ==
  /\ run # NoRun
  /\ Gone
  /\ run' = NoRun
  /\ report' = NoReport
  /\ UNCHANGED <<storyVars, ws, receipt, cache>>

----------------------------------------------------------------------------

ScriptStep ==
  \/ BeginStep \/ RefuseStep \/ ResumeStep \/ AlreadyCompleted
  \/ SkipCached \/ StartProvider \/ FallToMain
  \/ ProviderFails \/ ProviderAnswers
  \/ BoundaryGuard \/ OtherGuard \/ RecordReceipt
  \/ ReportReceipt \/ Recover \/ GiveUp \/ NextProvider

ProviderStep == ProviderWrites \/ ProviderCommits

MainStep ==
  \/ Launch \/ MainWrites \/ MainCommits \/ MainEndsStep
  \/ MarkCompleted \/ MarkOther \/ SealStory \/ EndRun \/ AcceptBlock

Next == ScriptStep \/ ProviderStep \/ MainStep \/ StopHook \/ Kill \/ NewSession

Spec == Init /\ [][Next]_vars

----------------------------------------------------------------------------
(* Properties                                                               *)

TypeOK ==
  /\ StoryTypeOK
  /\ ws \in Worktrees
  /\ run \in Runs
  /\ receipt \in [Tasks -> {"none"} \cup Conclusions]
  /\ cache \subseteq Headless
  /\ pc \in {"off", "ready", "stage", "work", "guard", "read", "failed"}
  /\ launch \in Launches
  /\ at \in Nat \ {0} /\ (pc # "off" => at <= Len(launch.providers))
  /\ base \in Worktrees
  /\ attempt \in 0 .. RecoveryLimit
  /\ worker \in Works
  /\ report \in Reports

\* No dirty worktree changes hands: whoever comes next in a launch that found a
\* clean worktree, finds the same one, although the script only compares
\* names of changed files and HEAD.
NoDirtyHandover ==
  pc = "stage" /\ Clean(launch.start) => ws = launch.start

\* When a worker's receipt is recorded, nothing outside the scope has been
\* changed since the launch, in the worktree or in commits, over all attempts.
ReceiptInBounds ==
  pc = "read" => ~ChangesStray(launch.start, ws)

\* A conclusion that does not pass is never turned into a completed task by a
\* relaunch, a fallback or a lost report.
NonPassNeverCompletes ==
  /\ report.code = 0 => receipt[report.task] \in Passing
  /\ \A t \in Completed : receipt[t] \in Passing \cup {"VALIDATION_BLOCKED"}

\* The step a provider works for stays open until its receipt, so that every
\* receipt has a start in its run.
WorkHasOpenStep == pc \in {"work", "guard", "failed"} => run.step = "open"

\* Statuses and seals of the story run are one task after another.
Line == INSTANCE TaskLine WITH completed <- Completed
LineSpec == Line!Spec

\* A launch only goes forward: to a later provider of the chain, to a further
\* one of its bounded recoveries, or to a later stage of the attempt. With the
\* bounds on both in TypeOK it cannot go round for ever, however the provider
\* fails.
Stage == [ready |-> 1, stage |-> 2, work |-> 3, guard |-> 4, failed |-> 5,
          read |-> 5]
Advances ==
  \/ pc' = "off"
  \/ at' > at
  \/ at' = at /\ attempt' > attempt
  \/ at' = at /\ attempt' = attempt /\ Stage[pc'] >= Stage[pc]
LaunchAdvances == [][pc # "off" => Advances]_vars

\* A run that holds a boundary block lets no provider work.
BlockedRunStops == run.blocked => pc \notin {"work", "guard"}
=============================================================================

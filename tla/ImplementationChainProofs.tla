---------------------- MODULE ImplementationChainProofs ---------------------
(* Proofs about the story run and the implementation chain, for any number of *)
(* tasks and stories, any chains of providers and any recovery limit.         *)
EXTENDS ImplementationChain, TLAPS

AtWork == {"work", "guard", "failed", "read"}

\* While a launch is under way its choices are made and its task is known.
Chosen ==
  /\ pc # "off" => launch.providers \in Chains /\ run.task \in Tasks
  /\ pc \in AtWork => Provider \in Headless
  /\ pc \in {"guard", "read"} => worker.result \in Conclusions
  /\ pc \in {"off", "ready", "stage"} => attempt = 0
  /\ pc \in {"off", "ready"} => at = 1

TypeInv == TypeOK /\ Chosen

\* An element of a sequence of providers is a provider, the last one is main.
LEMMA ChainEnds ==
  ASSUME NEW c \in Chains, NEW i \in Nat \ {0}, i <= Len(c)
  PROVE  /\ c[i] \in Providers
         /\ c[i] \in Headless => i + 1 <= Len(c)
  BY ChainConstants DEF Headless, Providers

\* The values between runs, launches and reports have their types.
LEMMA Defaults ==
  /\ Fresh \in Worktrees /\ NoLaunch \in Launches
  /\ NoRun \in Runs /\ NoWork \in Works /\ NoReport \in Reports
  /\ 0 \in 0 .. RecoveryLimit /\ 0 \in 0 .. NTasks
  BY StoryRunConstants, ChainConstants
  DEF Fresh, Worktrees, Contents, NoLaunch, Launches, NoRun, NewRun, Runs, NoWork, Works,
      NoReport, Reports

LEMMA ChainNonempty == \A c \in Chains : Len(c) \in Nat /\ 1 <= Len(c)
  BY ChainConstants

LEMMA InitTypes == Init => TypeInv
  BY Defaults, ChainConstants
  DEF Init, TypeInv, TypeOK, Chosen, StoryInit, StoryTypeOK, Statuses, AtWork

\* A step of the run and the end of a run keep its task.
LEMMA RunFields ==
  /\ \A c \in {"open"} \cup Conclusions :
       /\ run \in Runs => [run EXCEPT !.step = c] \in Runs
       /\ run \in Runs => [run EXCEPT !.step = c].task = run.task
  /\ \A b \in BOOLEAN :
       /\ run \in Runs => [run EXCEPT !.blocked = b] \in Runs
       /\ run \in Runs => [run EXCEPT !.blocked = b].task = run.task
  /\ run \in Runs => Ended \in Runs /\ Ended.task = run.task
  /\ \A t \in Tasks : NewRun(t) \in Runs /\ NewRun(t).task = t
<1>1. \A c \in {"open"} \cup Conclusions :
        /\ run \in Runs => [run EXCEPT !.step = c] \in Runs
        /\ run \in Runs => [run EXCEPT !.step = c].task = run.task
  BY DEF Runs
<1>2. \A b \in BOOLEAN :
        /\ run \in Runs => [run EXCEPT !.blocked = b] \in Runs
        /\ run \in Runs => [run EXCEPT !.blocked = b].task = run.task
  BY DEF Runs
<1>3. run \in Runs => Ended \in Runs /\ Ended.task = run.task
  BY DEF Runs, Ended
<1>4. ASSUME NEW t \in Tasks
      PROVE  NewRun(t) \in Runs /\ NewRun(t).task = t
  <2>1. t \in 0 .. NTasks
    BY StoryRunConstants DEF Tasks
  <2> QED
    BY <2>1 DEF NewRun, Runs
<1> QED
  BY <1>1, <1>2, <1>3, <1>4

\* Nothing is left of a script that is gone.
LEMMA GoneTyped ==
  ASSUME Gone, StoryTypeOK', ws' \in Worktrees, run' \in Runs, cache' \subseteq Headless,
         receipt' \in [Tasks -> {"none"} \cup Conclusions], report' \in Reports
  PROVE  TypeInv'
  BY Defaults DEF Gone, TypeInv, TypeOK, Chosen, AtWork

\* Files are written and committed within the bounds.
LEMMA FilesTyped ==
  ASSUME ws \in Worktrees, NEW strays \in SUBSET BOOLEAN,
         WriteFiles(strays) \/ CommitFiles
  PROVE  ws' \in Worktrees
<1>1. CASE WriteFiles(strays)
  <2>1. PICK c \in Contents, s \in strays \cup {ws.stray} :
              ws' = [ws EXCEPT !.scope = c, !.stray = s]
    BY <1>1 DEF WriteFiles
  <2> QED
    BY <2>1 DEF Worktrees
<1>2. CASE CommitFiles
  <2>1. PICK c \in {0, ws.scope}, s \in {ws.headStray, ws.stray} :
              /\ ws.head < MaxCommits
              /\ ws' = [ws EXCEPT !.head = @ + 1, !.headStray = s, !.scope = c]
    BY <1>2 DEF CommitFiles
  <2>2. ws.head + 1 \in 0 .. MaxCommits /\ c \in Contents
    BY <2>1, ChainConstants DEF Worktrees, Contents
  <2> QED
    BY <2>1, <2>2 DEF Worktrees
<1> QED
  BY <1>1, <1>2

\* Every step keeps the types.
LEMMA NextTypes == TypeInv /\ [Next]_vars => TypeInv'
<1> SUFFICES ASSUME TypeInv, [Next]_vars
             PROVE  TypeInv'
  OBVIOUS
<1> USE DEF TypeInv, TypeOK, StoryTypeOK, storyVars, chainVars
<1>a. ASSUME NEW code \in {0, 1, 75, 76}, Exit(code)
      PROVE  Gone /\ report' \in Reports
  BY <1>a DEF Exit, Reports, Runs
<1>0. CASE UNCHANGED vars
  BY <1>0 DEF vars, Chosen, Provider
<1>1. CASE Launch
  <2>1. PICK t \in Tasks, c \in Chains, explicit \in BOOLEAN :
              /\ run' = IF HasRun /\ run.task = t THEN run ELSE NewRun(t)
              /\ launch' = [providers |-> c, explicit |-> explicit, start |-> ws]
    BY <1>1 DEF Launch
  <2>2. run' \in Runs /\ run'.task \in Tasks
    BY <2>1, RunFields
  <2>3. launch' \in Launches /\ launch'.providers = c
    BY <2>1 DEF Launches
  <2>4. at' = 1 /\ attempt' = 0 /\ 1 <= Len(launch'.providers)
    BY <1>1, <2>3, ChainNonempty DEF Launch, Chosen
  <2>5. pc' = "ready" /\ report' = NoReport /\ report' \in Reports
    BY <1>1, Defaults DEF Launch
  <2>6. UNCHANGED <<storyVars, ws, receipt, cache, base, attempt, worker>>
    BY <1>1 DEF Launch
  <2> QED
    BY <2>2, <2>3, <2>4, <2>5, <2>6 DEF Chosen, AtWork
<1>2. CASE BeginStep \/ ResumeStep
  <2>1. run' = [run EXCEPT !.step = "open"] \/ run' = run
    BY <1>2 DEF BeginStep, ResumeStep
  <2>2. run' \in Runs /\ run'.task = run.task
    BY <2>1 DEF Runs
  <2> QED
    BY <1>2, <2>2 DEF BeginStep, ResumeStep, Chosen, AtWork
<1>3. CASE RefuseStep \/ FallToMain \/ AlreadyCompleted \/ ReportReceipt
  <2>1. \E code \in {0, 1, 75, 76} : Exit(code)
    BY <1>3 DEF RefuseStep, FallToMain, AlreadyCompleted, ReportReceipt
  <2>2. Gone /\ report' \in Reports
    BY <1>a, <2>1
  <2>3. cache' \subseteq Headless /\ UNCHANGED <<storyVars, ws, run, receipt>>
    BY <1>3 DEF RefuseStep, FallToMain, AlreadyCompleted, ReportReceipt
  <2> QED
    BY <2>2, <2>3, GoneTyped
<1>4. CASE SkipCached
  <2>1. at + 1 <= Len(launch.providers)
    BY <1>4, ChainEnds DEF SkipCached, Provider, Chosen
  <2> QED
    BY <1>4, <2>1 DEF SkipCached, Chosen, AtWork
<1>5. CASE StartProvider
  BY <1>5, Defaults DEF StartProvider, Provider, Chosen
<1>6. CASE ProviderFails \/ BoundaryGuard \/ OtherGuard
  <2>1. worker' \in Works
    <3>1. \E f \in Failures, permission \in BOOLEAN : Fails(f, permission)
      BY <1>6 DEF ProviderFails, BoundaryGuard, OtherGuard, Failures, Works
    <3> QED
      BY <3>1 DEF Fails, Works
  <2>2. pc' = "failed" /\ pc \in AtWork
    BY <1>6 DEF ProviderFails, BoundaryGuard, OtherGuard, Fails, AtWork
  <2>3. UNCHANGED <<storyVars, ws, run, receipt, cache, launch, at, base, attempt, report>>
    BY <1>6 DEF ProviderFails, BoundaryGuard, OtherGuard
  <2> QED
    BY <2>1, <2>2, <2>3 DEF Chosen, Provider, AtWork
<1>7. CASE ProviderAnswers
  <2>1. worker' \in Works /\ worker'.result \in Conclusions
    BY <1>7 DEF ProviderAnswers, Works
  <2> QED
    BY <1>7, <2>1 DEF ProviderAnswers, Chosen, Provider, AtWork
<1>8. CASE RecordReceipt
  <2>1. run' \in Runs /\ run'.task = run.task
    BY <1>8, RunFields DEF RecordReceipt, Chosen
  <2>2. receipt' \in [Tasks -> {"none"} \cup Conclusions]
    BY <1>8 DEF RecordReceipt, Chosen
  <2> QED
    BY <1>8, <2>1, <2>2 DEF RecordReceipt, Chosen, Provider, AtWork
<1>9. CASE Recover
  <2>1. attempt' \in 0 .. RecoveryLimit
    BY <1>9, ChainConstants DEF Recover, Recoverable
  <2> QED
    BY <1>9, <2>1, Defaults DEF Recover, Chosen, Provider, AtWork
<1>10. CASE GiveUp
  <2>1. run' \in Runs
    BY <1>10, RunFields DEF GiveUp
  <2>2. Gone /\ report' \in Reports
    BY <1>10, <1>a DEF GiveUp
  <2> QED
    BY <1>10, <2>1, <2>2, GoneTyped DEF GiveUp
<1>11. CASE NextProvider
  <2>1. at + 1 <= Len(launch.providers)
    BY <1>11, ChainEnds DEF NextProvider, Provider, Chosen, AtWork
  <2>2. cache' \subseteq Headless
    BY <1>11 DEF NextProvider, Chosen, AtWork
  <2> QED
    BY <1>11, <2>1, <2>2, Defaults DEF NextProvider, Chosen, AtWork
<1>12. CASE MainEndsStep
  <2>1. PICK c \in Conclusions :
              /\ run' = [run EXCEPT !.step = c]
              /\ receipt' = [receipt EXCEPT ![run.task] = c]
              /\ report' = [report EXCEPT !.code = IF c \in Passing THEN 0 ELSE 76]
    BY <1>12 DEF MainEndsStep
  <2>2. report' \in Reports
    BY <2>1 DEF Reports
  <2>3. run' \in Runs
    BY <2>1, RunFields
  <2>4. receipt' \in [Tasks -> {"none"} \cup Conclusions]
    BY <2>1
  <2> QED
    BY <1>12, <2>2, <2>3, <2>4 DEF MainEndsStep, MainsTurn, Chosen, AtWork
<1>13. CASE MarkCompleted \/ MarkOther
  <2>1. sealed' = sealed
        /\ \E t, s : s \in Statuses /\ status' = [status EXCEPT ![t] = s]
    BY <1>13, ChainConstants DEF MarkCompleted, MarkOther, Mark, Statuses
  <2>2. report' \in Reports
    BY <1>13, Defaults DEF MarkCompleted, MarkOther
  <2>3. pc = "off" /\ UNCHANGED <<ws, run, receipt, cache, chainVars>>
    BY <1>13 DEF MarkCompleted, MarkOther
  <2> QED
    BY <2>1, <2>2, <2>3 DEF Chosen, AtWork
<1>14. CASE SealStory
  <2>1. PICK t \in Tasks : t > 1 /\ sealed' = sealed \cup {Story[t - 1]}
    BY <1>14 DEF SealStory, Seal, NextIsBoundary, BoundaryBefore
  <2>2. t - 1 \in Tasks
    BY <2>1, StoryRunConstants DEF Tasks
  <2>3. StoryTypeOK'
    BY <1>14, <2>1, <2>2 DEF SealStory, Seal
  <2> QED
    BY <1>14, <2>3 DEF SealStory, Chosen, AtWork
<1>15. CASE EndRun \/ AcceptBlock \/ StopHook
  <2>1. run' \in Runs /\ run'.task = run.task
    BY <1>15, RunFields DEF EndRun, AcceptBlock, StopHook
  <2> QED
    BY <1>15, <2>1 DEF EndRun, AcceptBlock, StopHook, Chosen, Provider, AtWork
<1>16. CASE Kill \/ NewSession
  <2>1. Gone /\ run' \in Runs /\ report' \in Reports
    BY <1>16, Defaults DEF Kill, NewSession
  <2> QED
    BY <1>16, <2>1, GoneTyped DEF Kill, NewSession
<1>17. CASE ProviderWrites \/ ProviderCommits \/ MainWrites \/ MainCommits
  <2>1. ws' \in Worktrees
    BY <1>17, FilesTyped DEF ProviderWrites, ProviderCommits, MainWrites, MainCommits
  <2>2. UNCHANGED <<storyVars, run, receipt, cache, chainVars, report>>
    BY <1>17 DEF ProviderWrites, ProviderCommits, MainWrites, MainCommits
  <2> QED
    BY <2>1, <2>2 DEF Chosen, Provider
<1> QED
  BY <1>0, <1>1, <1>2, <1>3, <1>4, <1>5, <1>6, <1>7, <1>8, <1>9, <1>10, <1>11, <1>12,
     <1>13, <1>14, <1>15, <1>16, <1>17
  DEF Next, ScriptStep, ProviderStep, MainStep

\* Files, statuses, the run and the variables of the script keep their types.
THEOREM TypeCorrect == Spec => []TypeOK
<1>1. TypeInv => TypeOK
  BY DEF TypeInv
<1> QED
  BY <1>1, InitTypes, NextTypes, PTL DEF Spec

LEMMA TypeInvariant == Spec => []TypeInv
  BY InitTypes, NextTypes, PTL DEF Spec

\* A launch never goes back, and so ends: providers and recoveries are bounded.
THEOREM LaunchesAdvance == Spec => LaunchAdvances
<1>1. TypeInv /\ [Next]_vars => [pc # "off" => Advances]_vars
  <2> SUFFICES ASSUME TypeInv, Next, pc # "off"
               PROVE  Advances
    BY DEF vars
  <2> USE DEF Advances, Stage, TypeInv, TypeOK, Chosen, chainVars
  <2>1. CASE BeginStep \/ ResumeStep \/ StartProvider
    BY <2>1 DEF BeginStep, ResumeStep, StartProvider
  <2>2. CASE RefuseStep \/ AlreadyCompleted \/ FallToMain \/ ReportReceipt \/ GiveUp
             \/ Kill \/ NewSession
    BY <2>2 DEF RefuseStep, AlreadyCompleted, FallToMain, ReportReceipt, GiveUp, Kill,
                NewSession, Exit, Gone
  <2>3. CASE SkipCached \/ NextProvider
    BY <2>3 DEF SkipCached, NextProvider
  <2>4. CASE ProviderFails \/ ProviderAnswers \/ BoundaryGuard \/ OtherGuard
    BY <2>4 DEF ProviderFails, ProviderAnswers, BoundaryGuard, OtherGuard, Fails
  <2>5. CASE RecordReceipt \/ Recover
    BY <2>5 DEF RecordReceipt, Recover
  <2>6. CASE ProviderStep \/ StopHook
    BY <2>6 DEF ProviderStep, ProviderWrites, ProviderCommits, StopHook
  <2>7. CASE MainStep
    BY <2>7 DEF MainStep, Launch, MainWrites, MainCommits, MainsTurn, MainEndsStep,
                MarkCompleted, MarkOther, SealStory, EndRun, AcceptBlock
  <2> QED
    BY <2>1, <2>2, <2>3, <2>4, <2>5, <2>6, <2>7 DEF Next, ScriptStep
<1> QED
  BY <1>1, TypeInvariant, PTL DEF Spec, LaunchAdvances

----------------------------------------------------------------------------
(* The open step                                                            *)

StepInv == pc \in {"stage", "work", "guard", "failed"} => run.step = "open"

\* Whatever ends or replaces a run, a provider works in an open step.
THEOREM StepStaysOpen == Spec => []WorkHasOpenStep
<1>1. Init => StepInv
  BY DEF Init, StepInv
<1>2. TypeInv /\ StepInv /\ [Next]_vars => StepInv'
  <2> SUFFICES ASSUME TypeInv, StepInv, [Next]_vars
               PROVE  StepInv'
    OBVIOUS
  <2> USE DEF StepInv, chainVars
  <2>0. CASE UNCHANGED vars
    BY <2>0 DEF vars
  <2>1. CASE BeginStep
    <3>1. run' = [run EXCEPT !.step = "open"] /\ run \in Runs
      BY <2>1 DEF BeginStep, TypeInv, TypeOK
    <3> QED
      BY <3>1 DEF Runs
  <2>2. CASE RefuseStep \/ AlreadyCompleted \/ FallToMain \/ ReportReceipt \/ GiveUp
             \/ Kill \/ NewSession
    BY <2>2 DEF RefuseStep, AlreadyCompleted, FallToMain, ReportReceipt, GiveUp, Kill,
                NewSession, Exit, Gone
  <2>3. CASE ResumeStep \/ StartProvider \/ SkipCached \/ NextProvider \/ Recover
    BY <2>3 DEF ResumeStep, StartProvider, SkipCached, NextProvider, Recover
  <2>4. CASE ProviderFails \/ ProviderAnswers \/ BoundaryGuard \/ OtherGuard
    BY <2>4 DEF ProviderFails, ProviderAnswers, BoundaryGuard, OtherGuard, Fails
  <2>5. CASE RecordReceipt
    BY <2>5 DEF RecordReceipt
  <2>6. CASE ProviderStep \/ StopHook
    BY <2>6 DEF ProviderStep, ProviderWrites, ProviderCommits, StopHook
  <2>7. CASE MainStep
    BY <2>7 DEF MainStep, Launch, MainWrites, MainCommits, MainsTurn, MainEndsStep,
                MarkCompleted, MarkOther, SealStory, EndRun, AcceptBlock
  <2> QED
    BY <2>0, <2>1, <2>2, <2>3, <2>4, <2>5, <2>6, <2>7 DEF Next, ScriptStep
<1>3. StepInv => WorkHasOpenStep
  BY DEF StepInv, WorkHasOpenStep
<1> QED
  BY <1>1, <1>2, <1>3, TypeInvariant, PTL DEF Spec

----------------------------------------------------------------------------
(* The worktree                                                             *)

\* HEAD only moves forward, so an unmoved HEAD holds the same files; and what
\* a provider was started on is what the launch found.
WorktreeInv ==
  /\ pc = "ready" => ws = launch.start
  /\ pc = "stage" => /\ ws.headStray = launch.start.headStray
                     /\ Clean(launch.start) => ws = launch.start
  /\ pc \in {"work", "guard", "failed"} =>
       /\ base.headStray = launch.start.headStray
       /\ base.head <= ws.head
       /\ base.head = ws.head => base.headStray = ws.headStray
       /\ Clean(launch.start) => base = launch.start
  /\ pc = "read" => ~ChangesStray(launch.start, ws)

LEMMA WorktreeStep == TypeInv /\ WorktreeInv /\ [Next]_vars => WorktreeInv'
<1> SUFFICES ASSUME TypeInv, WorktreeInv, [Next]_vars
             PROVE  WorktreeInv'
  OBVIOUS
<1>t. ws \in Worktrees /\ base \in Worktrees /\ launch \in Launches
  BY DEF TypeInv, TypeOK
<1> USE DEF WorktreeInv, chainVars
<1>0. CASE UNCHANGED vars
  BY <1>0 DEF vars, ChangesStray, Clean, Porcelain
<1>1. CASE Launch
  BY <1>1 DEF Launch
<1>2. CASE BeginStep \/ ResumeStep \/ SkipCached
  BY <1>2 DEF BeginStep, ResumeStep, SkipCached, Clean, Porcelain
<1>3. CASE RefuseStep \/ AlreadyCompleted \/ FallToMain \/ ReportReceipt \/ GiveUp
           \/ Kill \/ NewSession
  BY <1>3 DEF RefuseStep, AlreadyCompleted, FallToMain, ReportReceipt, GiveUp, Kill,
              NewSession, Exit, Gone
<1>4. CASE StartProvider
  <2>1. ws.head \in Nat
    BY <1>t, ChainConstants DEF Worktrees
  <2>2. pc = "stage" /\ pc' = "work" /\ base' = ws /\ ws' = ws /\ launch' = launch
    BY <1>4 DEF StartProvider
  <2>3. base'.head <= ws'.head
    BY <2>1, <2>2
  <2> QED
    BY <2>2, <2>3 DEF Clean, Porcelain
<1>5. CASE ProviderWrites
  <2>1. ws'.head = ws.head /\ ws'.headStray = ws.headStray
    BY <1>5, <1>t DEF ProviderWrites, WriteFiles, Worktrees
  <2> QED
    BY <1>5, <2>1 DEF ProviderWrites, Clean, Porcelain
<1>6. CASE ProviderCommits
  <2>1. ws'.head = ws.head + 1
    BY <1>6, <1>t DEF ProviderCommits, CommitFiles, Worktrees
  <2>2. ws.head \in Nat /\ base.head \in Nat
    BY <1>t, ChainConstants DEF Worktrees
  <2>3. pc = "work" /\ pc' = "work" /\ UNCHANGED <<base, launch>>
    BY <1>6 DEF ProviderCommits
  <2>4. base'.head <= ws'.head /\ base'.head # ws'.head
    BY <2>1, <2>2, <2>3
  <2> QED
    BY <2>3, <2>4 DEF Clean, Porcelain
<1>7. CASE ProviderFails \/ ProviderAnswers \/ BoundaryGuard \/ OtherGuard \/ Recover
  BY <1>7 DEF ProviderFails, ProviderAnswers, BoundaryGuard, OtherGuard, Fails, Recover,
              Clean, Porcelain
<1>8. CASE RecordReceipt
  BY <1>8 DEF RecordReceipt, OutOfBoundary, GuardBase, ChangesStray
<1>9. CASE NextProvider
  <2>1. Porcelain(base) = Porcelain(ws) /\ base.head = ws.head
    BY <1>9 DEF NextProvider, Mutated, LooksUnchanged
  <2>2. base.headStray = ws.headStray
    BY <1>9, <2>1 DEF NextProvider
  <2>3. ASSUME Clean(launch.start)
        PROVE  ws = launch.start
    <3>1. base = launch.start /\ Clean(base) /\ Clean(ws)
      BY <1>9, <2>1, <2>3 DEF NextProvider, Clean
    <3>2. ws.scope = base.scope /\ ws.stray = base.stray
      BY <3>1, <2>2, <1>t DEF Clean, Porcelain, Worktrees
    <3> QED
      BY <3>1, <3>2, <2>1, <2>2, <1>t DEF Worktrees
  <2> QED
    BY <1>9, <2>2, <2>3 DEF NextProvider, Clean, Porcelain
<1>10. CASE MainStep /\ ~Launch
  BY <1>10 DEF MainStep, MainWrites, MainCommits, MainsTurn, MainEndsStep, MarkCompleted,
               MarkOther, SealStory, EndRun, AcceptBlock
<1>11. CASE StopHook
  BY <1>11 DEF StopHook, ChangesStray, Clean, Porcelain
<1> QED
  BY <1>0, <1>1, <1>2, <1>3, <1>4, <1>5, <1>6, <1>7, <1>8, <1>9, <1>10, <1>11
  DEF Next, ScriptStep, ProviderStep, MainStep

LEMMA WorktreeInvariant == Spec => []WorktreeInv
<1>1. Init => WorktreeInv
  BY DEF Init, WorktreeInv
<1> QED
  BY <1>1, WorktreeStep, TypeInvariant, PTL DEF Spec

\* From a clean worktree, no provider is given what another one has left.
THEOREM CleanHandover == Spec => []NoDirtyHandover
<1>1. WorktreeInv => NoDirtyHandover
  BY DEF WorktreeInv, NoDirtyHandover
<1> QED
  BY <1>1, WorktreeInvariant, PTL

\* A worker's receipt covers no change out of bounds since the launch.
THEOREM ReceiptsInBounds == Spec => []ReceiptInBounds
<1>1. WorktreeInv => ReceiptInBounds
  BY DEF WorktreeInv, ReceiptInBounds
<1> QED
  BY <1>1, WorktreeInvariant, PTL

----------------------------------------------------------------------------
(* The story run                                                            *)

\* next-action answers with a task that the abstract line allows: as the tasks
\* of a story are one block, all of a story is before the first task behind it.
LEMMA NextTaskOpen ==
  ASSUME NEW t \in Tasks, StoryTypeOK, NothingStopped, WithStatus("running") = {},
         IsFirst(t, WithStatus("pending")), ~BoundaryBefore(t)
  PROVE  Line!Open(t)
<1>1. ASSUME NEW u \in 1 .. (t - 1)
      PROVE  u \in Completed
  <2>1. u \in Tasks /\ u < t
    BY StoryRunConstants DEF Tasks
  <2>2. status[u] \in Statuses \ {"running", "error", "blocked"}
    BY <2>1 DEF StoryTypeOK, NothingStopped, WithStatus
  <2>3. status[u] # "pending"
    BY <2>1 DEF IsFirst, WithStatus, Tasks
  <2> QED
    BY <2>1, <2>2, <2>3 DEF Statuses, Completed, WithStatus
<1>2. ASSUME t > 1, Story[t - 1] # Story[t]
      PROVE  StoryTasks(Story[t - 1]) \subseteq Completed
  <2>1. SUFFICES ASSUME NEW u \in Tasks, Story[u] = Story[t - 1]
                 PROVE  u \in 1 .. (t - 1)
    BY <1>1 DEF StoryTasks
  <2>2. t - 1 \in Tasks /\ u \in Nat /\ t \in Nat
    BY <1>2, StoryRunConstants DEF Tasks
  <2>3. CASE u >= t
    <3>1. t \in (t - 1) .. u
      BY <2>2, <2>3
    <3>2. Story[t] = Story[t - 1]
      BY <2>1, <2>2, <3>1, StoriesContiguous
    <3> QED
      BY <1>2, <3>2
  <2> QED
    BY <2>1, <2>2, <2>3 DEF Tasks
<1>3. t > 1 => Story[t - 1] = Story[t] \/ Story[t - 1] \in sealed
  BY <1>2 DEF BoundaryBefore
<1> QED
  BY <1>1, <1>3 DEF Line!Open

\* A task stays open while tasks are completed and stories sealed.
LEMMA OpenStays ==
  ASSUME NEW t, Line!Open(t), Completed \subseteq Completed', sealed \subseteq sealed'
  PROVE  Line!Open(t)'
  BY DEF Line!Open

\* The task of a launch and of a report is open and, until marked, not completed;
\* receipts are what the runs and reports say they are.
LineInv ==
  /\ \A t \in WithStatus("running") : Line!Open(t)
  /\ pc # "off" => Line!Open(run.task) /\ run.task \notin Completed /\ report = NoReport
  /\ report.code \in {0, 75, 76} => report.task \in Tasks /\ Line!Open(report.task)
  /\ report.code = 75 => report.task = run.task /\ run.task \notin Completed

ReceiptInv ==
  /\ run.step \in Conclusions => run.task \in Tasks /\ receipt[run.task] = run.step
  /\ pc = "read" => receipt[run.task] = worker.result
  /\ NonPassNeverCompletes

\* Every answer of next-action is open and not completed.
LEMMA AnswerOpen ==
  ASSUME NEW t \in Tasks, StoryTypeOK, LineInv, NextIsTask(t)
  PROVE  Line!Open(t) /\ t \notin Completed
<1>1. CASE IsFirst(t, WithStatus("running"))
  BY <1>1 DEF IsFirst, LineInv, WithStatus, Completed
<1>2. CASE /\ WithStatus("running") = {}
           /\ IsFirst(t, WithStatus("pending"))
           /\ ~BoundaryBefore(t)
  BY <1>2, NextTaskOpen DEF NextIsTask, IsFirst, WithStatus, Completed
<1> QED
  BY <1>1, <1>2 DEF NextIsTask

\* Every step that leaves statuses and seals alone.
Quiet == UNCHANGED storyVars

LEMMA QuietOpen == Quiet => /\ Completed' = Completed
                            /\ WithStatus("running")' = WithStatus("running")
                            /\ \A t : Line!Open(t) => Line!Open(t)'
<1> SUFFICES ASSUME Quiet PROVE /\ Completed' = Completed
                               /\ WithStatus("running")' = WithStatus("running")
                               /\ \A t : Line!Open(t) => Line!Open(t)'
  OBVIOUS
<1>1. Completed' = Completed /\ WithStatus("running")' = WithStatus("running")
  BY DEF Quiet, storyVars, Completed, WithStatus
<1>2. sealed' = sealed
  BY DEF Quiet, storyVars
<1> QED
  BY <1>1, <1>2 DEF Line!Open

LEMMA LineStep == TypeInv /\ LineInv /\ [Next]_vars => LineInv'
<1> SUFFICES ASSUME TypeInv, LineInv, [Next]_vars
             PROVE  LineInv'
  OBVIOUS
<1> USE DEF chainVars
<1>t. StoryTypeOK /\ run \in Runs /\ report \in Reports /\ (pc # "off" => run.task \in Tasks)
  BY DEF TypeInv, TypeOK, Chosen
<1>0. CASE UNCHANGED vars
  <2>1. Quiet
    BY <1>0 DEF vars, Quiet
  <2> QED
    BY <1>0, <2>1, QuietOpen DEF vars, LineInv
<1>1. CASE Launch
  <2>1. PICK t \in Tasks :
              NextIsTask(t) /\ run' = IF HasRun /\ run.task = t THEN run ELSE NewRun(t)
    BY <1>1 DEF Launch
  <2>2. run'.task = t /\ Line!Open(t) /\ t \notin Completed
    BY <2>1, <1>t, AnswerOpen DEF NewRun
  <2>3. Quiet /\ report' = NoReport
    BY <1>1 DEF Launch, Quiet
  <2> QED
    BY <2>2, <2>3, QuietOpen DEF LineInv, NoReport
<1>2. CASE BeginStep \/ RecordReceipt
  <2>1. run'.task = run.task
    BY <1>2, <1>t DEF BeginStep, RecordReceipt, Runs
  <2>2. Quiet /\ report' = report /\ pc # "off"
    BY <1>2 DEF BeginStep, RecordReceipt, Quiet
  <2> QED
    BY <2>1, <2>2, QuietOpen DEF LineInv
<1>3. CASE \/ ResumeStep \/ SkipCached \/ StartProvider \/ Recover \/ NextProvider
           \/ ProviderFails \/ ProviderAnswers \/ BoundaryGuard \/ OtherGuard
           \/ ProviderWrites \/ ProviderCommits
  <2>1. Quiet /\ UNCHANGED <<run, report>> /\ pc # "off"
    BY <1>3 DEF ResumeStep, SkipCached, StartProvider, Recover, NextProvider,
        ProviderFails, ProviderAnswers, BoundaryGuard, OtherGuard, ProviderWrites,
        ProviderCommits, Quiet
  <2> QED
    BY <2>1, QuietOpen DEF LineInv
<1>4. CASE RefuseStep \/ AlreadyCompleted \/ FallToMain \/ ReportReceipt \/ GiveUp
  <2>1. pc # "off" /\ pc' = "off" /\ Quiet
    BY <1>4 DEF RefuseStep, AlreadyCompleted, FallToMain, ReportReceipt, GiveUp, Exit,
                Gone, Quiet
  <2>2. run'.task = run.task
    BY <1>4, <1>t DEF RefuseStep, AlreadyCompleted, FallToMain, ReportReceipt, GiveUp, Runs
  <2>3. report'.task = run.task
    BY <1>4 DEF RefuseStep, AlreadyCompleted, FallToMain, ReportReceipt, GiveUp, Exit
  <2> QED
    BY <2>1, <2>2, <2>3, <1>t, QuietOpen DEF LineInv
<1>5. CASE Kill \/ NewSession
  <2>1. pc' = "off" /\ report' = NoReport /\ Quiet
    BY <1>5 DEF Kill, NewSession, Gone, Quiet
  <2> QED
    BY <2>1, QuietOpen DEF LineInv, NoReport
<1>6. CASE MainWrites \/ MainCommits
  <2>1. Quiet /\ UNCHANGED <<run, report, pc>>
    BY <1>6 DEF MainWrites, MainCommits, Quiet
  <2> QED
    BY <2>1, QuietOpen DEF LineInv
<1>7. CASE MainEndsStep
  <2>1. report'.task = report.task /\ report'.code \in {0, 76} /\ report.code = 75
    BY <1>7, <1>t DEF MainEndsStep, MainsTurn, Reports
  <2>2. Quiet /\ pc' = "off"
    BY <1>7 DEF MainEndsStep, MainsTurn, Quiet
  <2> QED
    BY <2>1, <2>2, QuietOpen DEF LineInv
<1>8. CASE EndRun \/ AcceptBlock \/ StopHook
  <2>1. run'.task = run.task
    BY <1>8, <1>t DEF EndRun, AcceptBlock, StopHook, Ended, Runs
  <2>2. Quiet /\ UNCHANGED <<report, pc>>
    BY <1>8 DEF EndRun, AcceptBlock, StopHook, Quiet
  <2> QED
    BY <2>1, <2>2, QuietOpen DEF LineInv
<1>9. CASE MarkCompleted
  <2>1. Completed \subseteq Completed' /\ sealed' = sealed
    BY <1>9, <1>t DEF MarkCompleted, Mark, Completed, WithStatus, StoryTypeOK
  <2>2. WithStatus("running")' \subseteq WithStatus("running")
    BY <1>9, <1>t DEF MarkCompleted, Mark, WithStatus, StoryTypeOK
  <2>3. pc' = "off" /\ report' = NoReport
    BY <1>9 DEF MarkCompleted
  <2> QED
    BY <2>1, <2>2, <2>3, OpenStays DEF LineInv, NoReport
<1>10. CASE MarkOther
  <2>1. PICK t \in Tasks :
              \/ NextIsTask(t) /\ \E s \in OtherMarks : Mark(t, s)
              \/ status[t] \in {"error", "blocked"} /\ Mark(t, "pending")
    BY <1>10 DEF MarkOther
  <2>2. t \notin Completed /\ (NextIsTask(t) => Line!Open(t))
    BY <2>1, <1>t, AnswerOpen DEF Completed, WithStatus
  <2>3. Completed' = Completed /\ sealed' = sealed
    <3>1. PICK s \in Statuses \ {"completed"} : Mark(t, s)
      BY <2>1, ChainConstants DEF Statuses
    <3> QED
      BY <2>2, <3>1, <1>t DEF Mark, Completed, WithStatus, StoryTypeOK
  <2>4. \A u \in WithStatus("running")' :
          u \in WithStatus("running") \/ (NextIsTask(t) /\ u = t)
    <3>1. CASE NextIsTask(t)
      <4>1. PICK s : status' = [status EXCEPT ![t] = s]
        BY <2>1, <3>1 DEF Mark
      <4> QED
        BY <3>1, <4>1, <1>t DEF WithStatus, StoryTypeOK
    <3>2. CASE Mark(t, "pending")
      BY <3>2, <1>t DEF Mark, WithStatus, StoryTypeOK
    <3> QED
      BY <2>1, <3>1, <3>2
  <2>5. pc = "off" /\ UNCHANGED <<pc, report, run>>
    BY <1>10 DEF MarkOther
  <2> QED
    BY <2>2, <2>3, <2>4, <2>5, OpenStays DEF LineInv
<1>11. CASE SealStory
  <2>1. Completed' = Completed /\ WithStatus("running")' = WithStatus("running")
        /\ sealed \subseteq sealed'
    BY <1>11 DEF SealStory, Seal, Completed, WithStatus
  <2>2. pc = "off" /\ UNCHANGED <<pc, report, run>>
    BY <1>11 DEF SealStory
  <2> QED
    BY <2>1, <2>2, OpenStays DEF LineInv
<1> QED
  BY <1>0, <1>1, <1>2, <1>3, <1>4, <1>5, <1>6, <1>7, <1>8, <1>9, <1>10, <1>11
  DEF Next, ScriptStep, ProviderStep, MainStep

LEMMA LineInvariant == Spec => []LineInv
<1>1. Init => LineInv
  BY DEF Init, LineInv, StoryInit, WithStatus, NoReport
<1> QED
  BY <1>1, LineStep, TypeInvariant, PTL DEF Spec

\* The story run under launches, kills, reports and marks is one line of tasks,
\* in path order, each story sealed before the next is begun.
THEOREM ImplementsTaskLine == Spec => LineSpec
<1>1. Init => Line!Init
  BY DEF Init, StoryInit, Line!Init, Completed, WithStatus
<1>2. TypeInv /\ LineInv /\ [Next]_vars => [Line!Next]_<<Completed, sealed>>
  <2> SUFFICES ASSUME TypeInv, LineInv, [Next]_vars
               PROVE  [Line!Next]_<<Completed, sealed>>
    OBVIOUS
  <2>t. StoryTypeOK /\ report \in Reports
    BY DEF TypeInv, TypeOK
  <2>1. CASE MarkCompleted
    <3>1. report.task \in Tasks /\ Line!Open(report.task)
      BY <2>1 DEF MarkCompleted, LineInv
    <3>2. Completed' = Completed \cup {report.task} /\ sealed' = sealed
      BY <2>1, <2>t, <3>1 DEF MarkCompleted, Mark, Completed, WithStatus, StoryTypeOK
    <3> QED
      BY <3>1, <3>2 DEF Line!Next, Line!Complete, Tasks
  <2>2. CASE MarkOther
    <3>1. PICK t \in Tasks, s \in Statuses \ {"completed"} :
                t \notin Completed /\ Mark(t, s)
      BY <2>2, <2>t, AnswerOpen, ChainConstants
      DEF MarkOther, Completed, WithStatus, Statuses
    <3>2. Completed' = Completed /\ sealed' = sealed
      BY <3>1, <2>t DEF Mark, Completed, WithStatus, StoryTypeOK
    <3> QED
      BY <3>2
  <2>3. CASE SealStory
    <3>1. PICK t \in Tasks : BoundaryBefore(t) /\ sealed' = sealed \cup {Story[t - 1]}
                             /\ status' = status
      BY <2>3 DEF SealStory, Seal, NextIsBoundary
    <3>2. t - 1 \in Tasks /\ StoryTasks(Story[t - 1]) \subseteq Completed
      BY <3>1, StoryRunConstants DEF BoundaryBefore, Tasks
    <3>3. Completed' = Completed
      BY <3>1 DEF Completed, WithStatus
    <3> QED
      BY <3>1, <3>2, <3>3 DEF Line!Next, Line!SealStory, StoryTasks, Tasks
  <2>4. CASE Quiet
    BY <2>4, QuietOpen DEF Quiet, storyVars
  <2>5. MarkCompleted \/ MarkOther \/ SealStory \/ Quiet
    BY DEF Next, ScriptStep, ProviderStep, MainStep, vars, Quiet, Exit, Launch, BeginStep,
       RefuseStep, ResumeStep, AlreadyCompleted, SkipCached, StartProvider, FallToMain,
       ProviderFails, ProviderAnswers, BoundaryGuard, OtherGuard, RecordReceipt,
       ReportReceipt, Recover, GiveUp, NextProvider, ProviderWrites, ProviderCommits,
       MainWrites, MainCommits, MainEndsStep, EndRun, AcceptBlock, StopHook, Kill,
       NewSession
  <2> QED
    BY <2>1, <2>2, <2>3, <2>4, <2>5
<1> QED
  BY <1>1, <1>2, TypeInvariant, LineInvariant, PTL DEF Spec, LineSpec, Line!Spec

----------------------------------------------------------------------------
(* Receipts                                                                 *)

LEMMA ReceiptStep ==
  TypeInv /\ LineInv /\ ReceiptInv /\ [Next]_vars => ReceiptInv'
<1> SUFFICES ASSUME TypeInv, LineInv, ReceiptInv, [Next]_vars
             PROVE  ReceiptInv'
  OBVIOUS
<1> USE DEF ReceiptInv, NonPassNeverCompletes, chainVars
<1>t. /\ StoryTypeOK /\ run \in Runs /\ report \in Reports
      /\ receipt \in [Tasks -> {"none"} \cup Conclusions]
      /\ pc # "off" => run.task \in Tasks
      /\ pc = "guard" => worker.result \in Conclusions
  BY DEF TypeInv, TypeOK, Chosen
<1>q. Quiet => Completed' = Completed
  BY QuietOpen
<1>0. CASE UNCHANGED vars
  BY <1>0, <1>q DEF vars, Quiet
<1>1. CASE Launch
  <2>1. run' = run \/ \E t \in Tasks : run' = NewRun(t)
    BY <1>1 DEF Launch
  <2>2. run'.step \in Conclusions => run' = run
    BY <2>1 DEF NewRun, Conclusions, Passing
  <2>3. Quiet /\ report' = NoReport /\ receipt' = receipt /\ pc' = "ready"
    BY <1>1 DEF Launch, Quiet
  <2> QED
    BY <2>2, <2>3, <1>q DEF NoReport
<1>2. CASE BeginStep
  <2>1. run'.step = "open"
    BY <1>2, <1>t DEF BeginStep, Runs
  <2>2. Quiet /\ UNCHANGED <<report, receipt>> /\ pc' = "stage"
    BY <1>2 DEF BeginStep, Quiet
  <2> QED
    BY <2>1, <2>2, <1>q DEF Conclusions, Passing
<1>3. CASE \/ ResumeStep \/ SkipCached \/ StartProvider \/ Recover \/ NextProvider
           \/ ProviderFails \/ ProviderAnswers \/ BoundaryGuard \/ OtherGuard
           \/ ProviderWrites \/ ProviderCommits
  <2>1. Quiet /\ UNCHANGED <<run, report, receipt>> /\ pc' # "read"
    BY <1>3 DEF ResumeStep, SkipCached, StartProvider, Recover, NextProvider,
        ProviderFails, ProviderAnswers, BoundaryGuard, OtherGuard, Fails, ProviderWrites,
        ProviderCommits, Quiet
  <2> QED
    BY <2>1, <1>q
<1>4. CASE RecordReceipt
  <2>1. run'.step = worker.result /\ run'.task = run.task
    BY <1>4, <1>t DEF RecordReceipt, Runs
  <2>2. run.task \in Tasks /\ receipt' = [receipt EXCEPT ![run.task] = worker.result]
    BY <1>4, <1>t DEF RecordReceipt
  <2>3. receipt'[run.task] = worker.result
        /\ \A t \in Tasks \ {run.task} : receipt'[t] = receipt[t]
    BY <2>2, <1>t
  <2>4. Quiet /\ UNCHANGED <<report, worker>> /\ report.code = -1
        /\ run.task \notin Completed /\ Completed \subseteq Tasks
    BY <1>4 DEF RecordReceipt, Quiet, LineInv, NoReport, Completed, WithStatus
  <2>5. \A t \in Completed : receipt'[t] = receipt[t]
    BY <2>3, <2>4
  <2> QED
    BY <2>1, <2>2, <2>3, <2>4, <2>5, <1>q
<1>5. CASE AlreadyCompleted \/ ReportReceipt
  <2>1. \E c \in {receipt[run.task]} : Exit(IF c \in Passing THEN 0 ELSE 76)
    BY <1>5 DEF AlreadyCompleted, ReportReceipt
  <2>2. report'.code = 0 => receipt[report'.task] \in Passing
    BY <2>1 DEF Exit
  <2>3. Quiet /\ UNCHANGED <<run, receipt>> /\ pc' = "off"
    BY <1>5 DEF AlreadyCompleted, ReportReceipt, Exit, Gone, Quiet
  <2> QED
    BY <2>2, <2>3, <1>q
<1>6. CASE RefuseStep \/ FallToMain \/ GiveUp
  <2>1. report'.code # 0 /\ pc' = "off" /\ receipt' = receipt /\ Quiet
    BY <1>6 DEF RefuseStep, FallToMain, GiveUp, Exit, Gone, Quiet
  <2>2. run'.step = run.step /\ run'.task = run.task
    BY <1>6, <1>t DEF RefuseStep, FallToMain, GiveUp, Runs
  <2> QED
    BY <2>1, <2>2, <1>q
<1>7. CASE Kill \/ NewSession
  <2>1. /\ pc' = "off" /\ report' = NoReport /\ receipt' = receipt /\ Quiet
        /\ run' = run \/ run' = NoRun
    BY <1>7 DEF Kill, NewSession, Gone, Quiet
  <2> QED
    BY <2>1, <1>q DEF NoReport, NoRun, NewRun, Conclusions, Passing
<1>8. CASE MainWrites \/ MainCommits \/ SealStory
  <2>1. /\ status' = status
        /\ UNCHANGED <<run, report, receipt, pc, worker>>
    BY <1>8 DEF MainWrites, MainCommits, SealStory, Seal, storyVars
  <2> QED
    BY <2>1 DEF Completed, WithStatus
<1>9. CASE MainEndsStep
  <2>1. PICK c \in Conclusions :
              /\ run' = [run EXCEPT !.step = c]
              /\ receipt' = [receipt EXCEPT ![run.task] = c]
              /\ report' = [report EXCEPT !.code = IF c \in Passing THEN 0 ELSE 76]
    BY <1>9 DEF MainEndsStep
  <2>2. report.task = run.task /\ run.task \in Tasks /\ run.task \notin Completed
    BY <1>9 DEF MainEndsStep, MainsTurn, LineInv
  <2>3. run'.task = run.task /\ run'.step = c /\ report'.task = run.task
        /\ (report'.code = 0 => c \in Passing)
    BY <2>1, <2>2, <1>t DEF Runs, Reports
  <2>4. receipt'[run.task] = c /\ \A t \in Completed : receipt'[t] = receipt[t]
    BY <2>1, <2>2, <1>t DEF Completed, WithStatus
  <2>5. Quiet /\ pc' = "off"
    BY <1>9 DEF MainEndsStep, MainsTurn, Quiet
  <2> QED
    BY <2>2, <2>3, <2>4, <2>5, <1>q
<1>10. CASE EndRun \/ AcceptBlock \/ StopHook
  <2>1. Quiet /\ UNCHANGED <<report, receipt, pc, worker>>
    BY <1>10 DEF EndRun, AcceptBlock, StopHook, Quiet
  <2>2. run'.task = run.task /\ (run'.step = run.step \/ run'.step = "none")
    BY <1>10, <1>t DEF EndRun, AcceptBlock, StopHook, Ended, Runs
  <2> QED
    BY <2>1, <2>2, <1>q DEF Conclusions, Passing
<1>11. CASE MarkCompleted
  <2>1. Completed' \subseteq Completed \cup {report.task}
    BY <1>11, <1>t DEF MarkCompleted, Mark, Completed, WithStatus, StoryTypeOK
  <2>2. receipt[report.task] \in Passing \cup {"VALIDATION_BLOCKED"}
    BY <1>11 DEF MarkCompleted
  <2>3. UNCHANGED <<run, receipt, pc>> /\ pc' = "off" /\ report' = NoReport
    BY <1>11 DEF MarkCompleted
  <2> QED
    BY <2>1, <2>2, <2>3 DEF NoReport
<1>12. CASE MarkOther
  <2>1. Completed' \subseteq Completed
    BY <1>12, <1>t, ChainConstants DEF MarkOther, Mark, Completed, WithStatus, StoryTypeOK
  <2>2. UNCHANGED <<run, receipt, pc, report, worker>>
    BY <1>12 DEF MarkOther
  <2> QED
    BY <2>1, <2>2
<1> QED
  BY <1>0, <1>1, <1>2, <1>3, <1>4, <1>5, <1>6, <1>7, <1>8, <1>9, <1>10, <1>11, <1>12
  DEF Next, ScriptStep, ProviderStep, MainStep

\* No relaunch, fallback or lost report turns a conclusion that does not pass
\* into a completed task.
THEOREM CompletionNeedsPass == Spec => []NonPassNeverCompletes
<1>1. Init => ReceiptInv
  BY DEF Init, ReceiptInv, NonPassNeverCompletes, StoryInit, Completed, WithStatus,
         NoRun, NewRun, NoReport, Conclusions, Passing
<1>2. ReceiptInv => NonPassNeverCompletes
  BY DEF ReceiptInv
<1> QED
  BY <1>1, <1>2, ReceiptStep, TypeInvariant, LineInvariant, PTL DEF Spec

=============================================================================

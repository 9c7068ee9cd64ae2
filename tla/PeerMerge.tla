------------------------------ MODULE PeerMerge ------------------------------
(***************************************************************************)
(* Peer sessions that implement tasks in parallel and finalize their pull  *)
(* requests: /impl-loop claims a task on the WaveBoard, and                *)
(* scripts/pr-finalize.sh takes the MergeLock, waits for CI, asks GitHub   *)
(* to merge, waits for MERGED, completes the claim and releases the lock.  *)
(* Its EXIT trap marks the claim failed and releases the lock.  A session  *)
(* may be killed at any step (no trap), GitHub may merge late, and         *)
(* operators reclaim claims and break stale locks from other shells.       *)
(*                                                                         *)
(* pc[s] is where session s is:                                            *)
(*   idle, claiming, working        /impl-loop around the claim            *)
(*   ordering, locking, filling     inside `merge-lock acquire`            *)
(*   checking, polling              CI watch; waiting for MERGED           *)
(*   completing, unlocking          inside `merge-lock complete`           *)
(*   trapClaim, trapLock            inside the trap's `merge-lock release` *)
(*   dead                           killed                                 *)
(***************************************************************************)
EXTENDS WaveBoard, MergeLock

CONSTANTS
  Prior,         \* Prior[t]: tasks of t's story with a smaller task_index
  ReclaimLive    \* claim states that an operator reclaims under a session at work

VARIABLES
  pc,
  task,          \* task[s]: the impl task session s works on
  mode,          \* mode[s]: "peer" when the finalize of s is under the guard
  token,         \* token[s]: MERGE_LOCK_TOKEN of the running pr-finalize.sh
  scheduled,     \* pull requests with auto-merge enabled on GitHub
  merged,        \* pull requests merged into the default branch
  guarded        \* history: tasks handed to GitHub in peer mode

sessionVars == <<pc, task, mode, token>>
githubVars  == <<scheduled, merged, guarded>>
vars == <<boardVars, lockVars, sessionVars, githubVars>>

PullRequest == Sessions \X Tasks

Location == {"idle", "claiming", "working", "ordering", "locking", "filling",
             "checking", "polling", "completing", "unlocking", "trapClaim",
             "trapLock", "dead"}

ASSUME PeerConstants ==
  /\ Prior \in [Tasks -> SUBSET Tasks]
  /\ ReclaimLive \subseteq {"claimed", "failed"}
  /\ None \notin Tasks

SessionTypeOK ==
  /\ pc \in [Sessions -> Location]
  /\ task \in [Sessions -> Tasks \cup {None}]
  /\ mode \in [Sessions -> {"serial", "peer"}]
  /\ token \in [Sessions -> Tokens \cup {None}]

GithubTypeOK ==
  /\ scheduled \in SUBSET PullRequest
  /\ merged \in SUBSET PullRequest
  /\ guarded \in SUBSET Tasks

\* Calls, files, sessions and pull requests stay within their types; in
\* particular no operation leaves a claim in a state its readers do not know.
TypeOK == BoardTypeOK /\ LockTypeOK /\ SessionTypeOK /\ GithubTypeOK

Init ==
  /\ BoardInit
  /\ LockInit
  /\ pc = [s \in Sessions |-> "idle"]
  /\ task = [s \in Sessions |-> None]
  /\ mode = [s \in Sessions |-> "serial"]
  /\ token = [s \in Sessions |-> None]
  /\ scheduled = {} /\ merged = {} /\ guarded = {}

Merged(t) == \E s \in Sessions : <<s, t>> \in merged

\* A step inside /impl-loop or inside one run of pr-finalize.sh.
Goto(s, l) ==
  /\ pc' = [pc EXCEPT ![s] = l]
  /\ UNCHANGED <<task, mode, token>>

\* pr-finalize.sh exits: its shell variables are gone.
Exit(s, l) ==
  /\ pc' = [pc EXCEPT ![s] = l]
  /\ task' = IF l = "working" THEN task ELSE [task EXCEPT ![s] = None]
  /\ mode' = [mode EXCEPT ![s] = "serial"]
  /\ token' = [token EXCEPT ![s] = None]

-----------------------------------------------------------------------------
\* /impl-loop: the claim, heartbeats, giving the claim up.

\* wave-claim on an unregistered task: serial mode, nothing is written.
StartSerial(s, t) ==
  /\ pc[s] = "idle"
  /\ t \notin Registered
  /\ task' = [task EXCEPT ![s] = t]
  /\ pc' = [pc EXCEPT ![s] = "working"]
  /\ UNCHANGED <<mode, token, boardVars, lockVars, githubVars>>

StartPeer(s, t) ==
  /\ pc[s] = "idle"
  /\ CreateClaim(s, t)
  /\ task' = [task EXCEPT ![s] = t]
  /\ pc' = [pc EXCEPT ![s] = "claiming"]
  /\ UNCHANGED <<mode, token, lockVars, githubVars>>

FinishClaim(s) ==
  /\ pc[s] = "claiming"
  /\ WriteClaim(s)
  /\ Goto(s, "working")
  /\ UNCHANGED <<lockVars, githubVars>>

\* wave-heartbeat and wave-release with its three states.  A session records
\* "completed" by hand only when it has seen its pull request merged (after a
\* late auto-merge); the code does not look.
BeginBoardCall(s) ==
  /\ pc[s] = "working"
  /\ OwnClaim(s, task[s])
  /\ \/ \E op \in {"heartbeat", "fail", "release"} : ReadClaim(s, op, task[s])
     \/ <<s, task[s]>> \in merged /\ ReadClaim(s, "complete", task[s])
  /\ UNCHANGED <<sessionVars, lockVars, githubVars>>

\* A session that has released its claim has given the task up.
EndBoardCall(s) ==
  /\ pc[s] = "working"
  /\ WriteClaim(s)
  /\ IF boardCall[s].op = "release" THEN Exit(s, "idle") ELSE Goto(s, "working")
  /\ UNCHANGED <<lockVars, githubVars>>

\* The user drops the task, or reruns /impl-loop; a claim file stays behind.
Abandon(s) ==
  /\ pc[s] = "working" /\ boardCall[s] = None
  /\ Exit(s, "idle")
  /\ UNCHANGED <<boardVars, lockVars, githubVars>>

-----------------------------------------------------------------------------
\* pr-finalize.sh up to the merge guard: acquire_peer_merge_guard.

\* No claim carries this branch: mode=serial, no lock and no order check.
FinalizeSerial(s) ==
  /\ pc[s] = "working" /\ boardCall[s] = None
  /\ ~OwnClaim(s, task[s])
  /\ mode' = [mode EXCEPT ![s] = "serial"]
  /\ pc' = [pc EXCEPT ![s] = "checking"]
  /\ UNCHANGED <<task, token, boardVars, lockVars, githubVars>>

\* Mutant of FindClaim: the guard does not call check_merge_order.
FindClaimUnordered(s) ==
  /\ pc[s] = "working" /\ boardCall[s] = None
  /\ OwnClaim(s, task[s]) /\ claims[task[s]].state = "claimed"
  /\ mode' = [mode EXCEPT ![s] = "peer"]
  /\ pc' = [pc EXCEPT ![s] = "locking"]
  /\ UNCHANGED <<task, token, boardVars, lockVars, githubVars>>

\* Any state but "claimed" raises MergeOrderBlocked and leaves all as it is.
FindClaim(s) ==
  /\ pc[s] = "working" /\ boardCall[s] = None
  /\ OwnClaim(s, task[s]) /\ claims[task[s]].state = "claimed"
  /\ mode' = [mode EXCEPT ![s] = "peer"]
  /\ pc' = [pc EXCEPT ![s] = "ordering"]
  /\ UNCHANGED <<task, token, boardVars, lockVars, githubVars>>

\* Mutant of OrderProven: a prior task counts as soon as it has a claim file.
OrderProvenByAnyClaim(s) ==
  /\ pc[s] = "ordering"
  /\ \A u \in Prior[task[s]] : claims[u] # None \/ Merged(u)
  /\ Goto(s, "locking")
  /\ UNCHANGED <<boardVars, lockVars, githubVars>>

\* check_merge_order: a prior task counts when its claim is completed or its
\* slug is found in the history of the base branch.
OrderProven(s) ==
  /\ pc[s] = "ordering"
  /\ \A u \in Prior[task[s]] : Completed(u) \/ Merged(u)
  /\ Goto(s, "locking")
  /\ UNCHANGED <<boardVars, lockVars, githubVars>>

\* The local base ref may lag behind GitHub, so merged work can go unseen.
OrderBlocked(s) ==
  /\ pc[s] = "ordering"
  /\ \E u \in Prior[task[s]] : ~Completed(u)
  /\ Exit(s, "working")
  /\ UNCHANGED <<boardVars, lockVars, githubVars>>

Acquire(s) ==
  /\ pc[s] = "locking"
  /\ \E k \in Tokens : CreateLock(s, k) /\ token' = [token EXCEPT ![s] = k]
  /\ pc' = [pc EXCEPT ![s] = "filling"]
  /\ UNCHANGED <<task, mode, boardVars, githubVars>>

LockBusy(s) ==
  /\ pc[s] = "locking"
  /\ lock # None
  /\ Exit(s, "working")
  /\ UNCHANGED <<boardVars, lockVars, githubVars>>

FillAcquired(s) ==
  /\ pc[s] = "filling"
  /\ FillLock(token[s])
  /\ Goto(s, "checking")
  /\ UNCHANGED <<boardVars, githubVars>>

-----------------------------------------------------------------------------
\* pr-finalize.sh from the CI watch to its end.

\* gh pr merge, after all checks passed: auto-merge is enabled, or GitHub
\* refuses to schedule ("clean status") and the fallback merges at once.  A
\* pull request that is merged already stays so.
RequestMerge(s) ==
  LET pr == <<s, task[s]>>
  IN  /\ pc[s] = "checking"
      /\ \/ scheduled' = (scheduled \cup {pr}) \ merged /\ UNCHANGED merged
         \/ merged' = merged \cup {pr} /\ scheduled' = scheduled \ {pr}
      /\ guarded' = IF mode[s] = "peer" THEN guarded \cup {task[s]} ELSE guarded
      /\ Goto(s, "polling")
      /\ UNCHANGED <<boardVars, lockVars>>

\* Mutant of FailFinalize: the trap is cleared before the polling starts.
FailFinalizeWithoutTrap(s) ==
  /\ pc[s] \in {"checking", "polling"}
  /\ IF mode[s] = "peer" /\ pc[s] = "checking"
     THEN Goto(s, "trapClaim") ELSE Exit(s, "working")
  /\ UNCHANGED <<boardVars, lockVars, githubVars>>

\* CI failed or unknown, base changed, merge refused, eight polls without
\* MERGED, any command failing under `set -e`: exit, and the EXIT trap runs.
FailFinalize(s) ==
  /\ pc[s] \in {"checking", "polling"}
  /\ IF mode[s] = "peer" THEN Goto(s, "trapClaim") ELSE Exit(s, "working")
  /\ UNCHANGED <<boardVars, lockVars, githubVars>>

\* Mutant of SeeMerged: auto-merge that is scheduled counts as merged.
SeeScheduled(s) ==
  /\ pc[s] = "polling"
  /\ <<s, task[s]>> \in merged \cup scheduled
  /\ IF mode[s] = "peer" THEN Goto(s, "completing") ELSE Exit(s, "idle")
  /\ UNCHANGED <<boardVars, lockVars, githubVars>>

SeeMerged(s) ==
  /\ pc[s] = "polling"
  /\ <<s, task[s]>> \in merged
  /\ IF mode[s] = "peer" THEN Goto(s, "completing") ELSE Exit(s, "idle")
  /\ UNCHANGED <<boardVars, lockVars, githubVars>>

\* merge-lock complete, first half: WaveBoard.complete.
BeginComplete(s) ==
  /\ pc[s] = "completing"
  /\ ReadClaim(s, "complete", task[s])
  /\ UNCHANGED <<sessionVars, lockVars, githubVars>>

EndComplete(s) ==
  /\ pc[s] = "completing"
  /\ WriteClaim(s)
  /\ Goto(s, "unlocking")
  /\ UNCHANGED <<lockVars, githubVars>>

\* The claim file is gone: complete raises, the script exits into its trap.
CompleteFails(s) ==
  /\ pc[s] = "completing" /\ boardCall[s] = None
  /\ ~Readable(task[s])
  /\ Goto(s, "trapClaim")
  /\ UNCHANGED <<boardVars, lockVars, githubVars>>

\* merge-lock release run by the trap, first half: WaveBoard.release(failed).
BeginTrapClaim(s) ==
  /\ pc[s] = "trapClaim"
  /\ ReadClaim(s, "fail", task[s])
  /\ UNCHANGED <<sessionVars, lockVars, githubVars>>

\* Mutant of EndTrapClaim: `merge-lock release` returns after the claim.
EndTrapClaimOnly(s) ==
  /\ pc[s] = "trapClaim"
  /\ WriteClaim(s)
  /\ Exit(s, "working")
  /\ UNCHANGED <<lockVars, githubVars>>

EndTrapClaim(s) ==
  /\ pc[s] = "trapClaim"
  /\ WriteClaim(s)
  /\ Goto(s, "trapLock")
  /\ UNCHANGED <<lockVars, githubVars>>

\* A completed claim is returned as it is, and the lock is released next.
TrapKeepsCompleted(s) ==
  /\ pc[s] = "trapClaim" /\ boardCall[s] = None
  /\ Completed(task[s])
  /\ Goto(s, "trapLock")
  /\ UNCHANGED <<boardVars, lockVars, githubVars>>

\* The claim file is gone: release raises before it comes to the lock.
TrapFails(s) ==
  /\ pc[s] = "trapClaim" /\ boardCall[s] = None
  /\ ~Readable(task[s])
  /\ Exit(s, "working")
  /\ UNCHANGED <<boardVars, lockVars, githubVars>>

\* Second half of complete and of the trap: MergeLock.release.
AfterUnlock(s) == IF pc[s] = "unlocking" THEN "idle" ELSE "working"

BeginUnlock(s) ==
  /\ pc[s] \in {"unlocking", "trapLock"}
  /\ ReadForRelease(s, token[s])
  /\ UNCHANGED <<sessionVars, boardVars, githubVars>>

EndUnlock(s) ==
  /\ pc[s] \in {"unlocking", "trapLock"}
  /\ Unlink(s)
  /\ Exit(s, AfterUnlock(s))
  /\ UNCHANGED <<boardVars, githubVars>>

\* The lock file is missing ("missing"), torn or another session's (LockBusy;
\* `complete` then exits into the trap, which ends with the same refusal).
NothingToUnlock(s) ==
  /\ pc[s] \in {"unlocking", "trapLock"} /\ lockCall[s] = None
  /\ ~(Holds(token[s]) /\ lock.written)
  /\ Exit(s, IF lock = None THEN AfterUnlock(s) ELSE "working")
  /\ UNCHANGED <<boardVars, lockVars, githubVars>>

-----------------------------------------------------------------------------
\* The environment of the sessions.

\* SIGKILL of the session and of the script it runs: no trap.
Kill(s) ==
  /\ pc[s] # "dead"
  /\ DropBoardCall(s)
  /\ DropLockCall(s)
  /\ Exit(s, "dead")
  /\ UNCHANGED githubVars

\* GitHub carries out an auto-merge, however long ago it was requested.
LateMerge(pr) ==
  /\ pr \in scheduled
  /\ scheduled' = scheduled \ {pr}
  /\ merged' = merged \cup {pr}
  /\ UNCHANGED <<guarded, boardVars, lockVars, sessionVars>>

LockAges == Age /\ UNCHANGED <<boardVars, sessionVars, githubVars>>

\* wave-reclaim: the code asks only that the claim is not completed.  The
\* operator has checked that its session no longer works on the task, except for
\* claims in a state of ReclaimLive.
BeginReclaim(o, t) ==
  /\ lockCall[o] = None
  /\ ReadClaim(o, "reclaim", t)
  /\ claims[t].state \in ReclaimLive \/ pc[claims[t].owner] \in {"idle", "dead"}
  /\ UNCHANGED <<lockVars, sessionVars, githubVars>>

EndReclaim(o) ==
  /\ WriteClaim(o)
  /\ UNCHANGED <<lockVars, sessionVars, githubVars>>

\* merge-lock break, by an operator who has checked that the holder is dead.
BeginBreak(o) ==
  /\ boardCall[o] = None
  /\ ReadForBreak(o)
  /\ pc[lock.owner] = "dead"
  /\ UNCHANGED <<boardVars, sessionVars, githubVars>>

EndBreak(o) ==
  /\ Unlink(o)
  /\ UNCHANGED <<boardVars, sessionVars, githubVars>>

-----------------------------------------------------------------------------
Finalize(s) ==
  \/ OrderProven(s) \/ OrderBlocked(s) \/ Acquire(s) \/ LockBusy(s)
  \/ FillAcquired(s) \/ RequestMerge(s) \/ FailFinalize(s) \/ SeeMerged(s)
  \/ BeginComplete(s) \/ EndComplete(s) \/ CompleteFails(s)
  \/ BeginTrapClaim(s) \/ EndTrapClaim(s) \/ TrapKeepsCompleted(s)
  \/ TrapFails(s) \/ BeginUnlock(s) \/ EndUnlock(s) \/ NothingToUnlock(s)

ImplLoop(s) ==
  \/ \E t \in Tasks : StartSerial(s, t) \/ StartPeer(s, t)
  \/ FinishClaim(s) \/ BeginBoardCall(s) \/ EndBoardCall(s) \/ Abandon(s)
  \/ FinalizeSerial(s) \/ FindClaim(s)

Recovery(o) ==
  \/ \E t \in Tasks : BeginReclaim(o, t)
  \/ EndReclaim(o) \/ BeginBreak(o) \/ EndBreak(o)

Next ==
  \/ \E s \in Sessions : ImplLoop(s) \/ Finalize(s) \/ Kill(s)
  \/ \E o \in Operators : Recovery(o)
  \/ \E pr \in PullRequest : LateMerge(pr)
  \/ LockAges

Spec == Init /\ [][Next]_vars

\* A script that runs goes on; a lock left by a dead session grows old and the
\* operator, busy with other claims or not, comes to break it at last.
Fairness ==
  /\ \A s \in Sessions : WF_vars(Finalize(s))
  /\ WF_vars(LockAges)
  /\ \A o \in Operators :
       /\ SF_vars(BeginBreak(o))
       /\ WF_vars(EndReclaim(o) \/ EndBreak(o))

FairSpec == Spec /\ Fairness

-----------------------------------------------------------------------------
\* The running pr-finalize.sh of s has a MERGE_LOCK_TOKEN.
InMergeStage(s) == token[s] # None

\* The merge stage is serialized (parallel-policy.md section 5): two sessions
\* are never both in it, whatever is killed, reclaimed, broken or merged late.
MutualExclusion ==
  \A s1, s2 \in Sessions :
    InMergeStage(s1) /\ InMergeStage(s2) => s1 = s2

\* The lock file of a session in the merge stage is there and is its own: no
\* unlink that follows an old read has removed or replaced it.
StageHoldsLock == \A s \in Sessions : InMergeStage(s) => Holds(token[s])

\* The order gate is checked before the lock is taken and never again; it must
\* still hold when the pull request is handed to GitHub.
GuardedMergesInOrder ==
  \A t \in guarded : \A u \in Prior[t] : Merged(u)

\* A completed claim, which unblocks later tasks, is evidence of a merge.
CompletedIsMerged == \A t \in Tasks : Completed(t) => Merged(t)

\* A lock file belongs to a script that will still release it, or to a dead
\* session whose lock an operator may break: no way out of the script or its
\* trap, whatever happened to the claim, skips the release.
NoLeakedLock ==
  lock # None => token[lock.owner] = lock.token \/ pc[lock.owner] = "dead"

\* A lock that was written out is freed at last, by its script or an operator.
LockEventuallyFreed ==
  \A k \in Tokens : (Holds(k) /\ lock.written) ~> ~Holds(k)

\* Every task on the board merges after its prior tasks, however it merges.
RegisteredMergesInOrder ==
  \A pr \in merged : pr[2] \in Registered => \A u \in Prior[pr[2]] : Merged(u)

\* The owner of the lock file is the session in the abstract merge stage; every
\* step of files, calls and crashes is a step of the serialized merge or none.
Serial == INSTANCE SerialMerge
            WITH holder <- IF lock = None THEN None ELSE lock.owner,
                 requested <- guarded

SerialSpec == Serial!Spec
==============================================================================

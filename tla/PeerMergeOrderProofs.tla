------------------------- MODULE PeerMergeOrderProofs ------------------------
(***************************************************************************)
(* The order gate of the merge guard, and PeerMerge as an implementation   *)
(* of SerialMerge.                                                         *)
(***************************************************************************)
EXTENDS PeerMergeProofs

\* The evidence the order gate relies on is sound: a completed claim, or a call
\* that is about to write one, is about a task that is merged.
CompletingMerged ==
  \A p \in Procs :
    boardCall[p] # None =>
      LET c == boardCall[p]
      IN  \/ c.op = "complete"
          \/ c.op = "heartbeat" /\ c.rec.state = "completed"
          => Merged(c.task)

SeenMerged == \A s \in Sessions : pc[s] = "completing" => Merged(task[s])

\* What the gate has established stays true until the merge is requested.
OrderKept ==
  \A s \in Sessions :
    \/ pc[s] \in {"locking", "filling"}
    \/ pc[s] = "checking" /\ mode[s] = "peer"
    => \A u \in Prior[task[s]] : Merged(u)

OrderInv ==
  /\ CompletedIsMerged
  /\ CompletingMerged
  /\ SeenMerged
  /\ OrderKept
  /\ GuardedMergesInOrder

LEMMA OrderInit == Init => OrderInv
BY BoardConstants DEF Init, BoardInit, LockInit, OrderInv, CompletedIsMerged, Completed,
   CompletingMerged, SeenMerged, OrderKept, GuardedMergesInOrder

\* Nothing is ever unmerged.
LEMMA MergedGrows ==
  ASSUME [Next]_vars
  PROVE  merged \subseteq merged'
<1>1. ASSUME NEW s \in Sessions, ImplLoop(s) PROVE merged' = merged
  BY <1>1 DEF ImplLoop, StartSerial, StartPeer, FinishClaim, BeginBoardCall,
     EndBoardCall, Abandon, FinalizeSerial, FindClaim, githubVars
<1>2. ASSUME NEW s \in Sessions, Finalize(s) PROVE merged \subseteq merged'
  <2>1. CASE RequestMerge(s)
    BY <2>1 DEF RequestMerge
  <2>2. CASE ~RequestMerge(s)
    BY <1>2, <2>2 DEF Finalize, OrderProven, OrderBlocked, Acquire, LockBusy,
       FillAcquired, FailFinalize, SeeMerged, BeginComplete, EndComplete,
       CompleteFails, BeginTrapClaim, EndTrapClaim, TrapKeepsCompleted,
       TrapFails, BeginUnlock, EndUnlock, NothingToUnlock, githubVars
  <2>3. QED
    BY <2>1, <2>2
<1>3. ASSUME NEW s \in Sessions, Kill(s) PROVE merged' = merged
  BY <1>3 DEF Kill, githubVars
<1>4. ASSUME NEW o \in Operators, Recovery(o) PROVE merged' = merged
  BY <1>4 DEF Recovery, BeginReclaim, EndReclaim, BeginBreak, EndBreak, githubVars
<1>5. ASSUME NEW pr \in PullRequest, LateMerge(pr) PROVE merged \subseteq merged'
  BY <1>5 DEF LateMerge
<1>6. CASE LockAges \/ UNCHANGED vars
  BY <1>6 DEF LockAges, vars, githubVars
<1>7. QED
  BY <1>1, <1>2, <1>3, <1>4, <1>5, <1>6 DEF Next

\* The board keeps its part of the invariant: a read copies a sound record, a
\* write stores "completed" only for a merged task.
BoardInv == CompletedIsMerged /\ CompletingMerged

LEMMA ReadClaimSound ==
  ASSUME TypeInv, BoardInv, merged \subseteq merged',
         NEW p \in Procs, NEW op \in BoardOp, NEW t \in Tasks,
         op = "complete" => Merged(t),
         ReadClaim(p, op, t)
  PROVE  BoardInv'
<1> USE DEF TypeInv, TypeOK, BoardTypeOK
<1>1. CompletedIsMerged'
  BY DEF BoardInv, CompletedIsMerged, Completed, Merged, ReadClaim
<1>2. ASSUME NEW q \in Procs, q # p, boardCall'[q] # None
      PROVE  boardCall'[q] = boardCall[q]
  BY <1>2 DEF ReadClaim
<1>3. boardCall'[p] = [op |-> op, task |-> t, rec |-> claims[t]]
  BY DEF ReadClaim
<1>4. claims[t].state = "completed" => Merged(t)
  BY DEF BoardInv, CompletedIsMerged, Completed, ReadClaim, Accepts, Readable
<1>5. CompletingMerged'
  BY <1>2, <1>3, <1>4 DEF BoardInv, CompletingMerged, Merged
<1>6. QED
  BY <1>1, <1>5 DEF BoardInv

LEMMA WriteClaimSound ==
  ASSUME TypeInv, BoardInv, merged \subseteq merged',
         NEW p \in Procs, WriteClaim(p)
  PROVE  BoardInv'
<1> USE DEF TypeInv, TypeOK, BoardTypeOK
<1> DEFINE c == boardCall[p]
<1>1. c \in BoardCall
  BY DEF WriteClaim
<1>2. ClaimAfter(c) # None /\ ClaimAfter(c).state = "completed" => Merged(c.task)
  BY <1>1 DEF ClaimAfter, StateAfter, BoardCall, BoardOp, Claim, ClaimState,
              BoardInv, CompletingMerged, WriteClaim
<1>3. CompletedIsMerged'
  BY <1>1, <1>2 DEF WriteClaim, BoardInv, CompletedIsMerged, Completed, Merged,
                    BoardCall
<1>4. CompletingMerged'
  BY DEF WriteClaim, BoardInv, CompletingMerged, Merged
<1>5. QED
  BY <1>3, <1>4 DEF BoardInv

LEMMA BoardFrame ==
  ASSUME BoardInv, merged \subseteq merged', UNCHANGED boardVars
  PROVE  BoardInv'
BY DEF BoardInv, CompletedIsMerged, Completed, CompletingMerged, Merged, boardVars

LEMMA ImplLoopOrder ==
  ASSUME TypeInv, OrderInv, merged \subseteq merged',
         NEW s \in Sessions, ImplLoop(s)
  PROVE  OrderInv'
<1> USE DEF TypeInv, TypeOK, SessionTypeOK, sessionVars, githubVars, Goto, Exit
<1>p. s \in Procs
  BY DEF Procs
<1>i. BoardInv
  BY DEF OrderInv, BoardInv
<1>1. BoardInv'
  <2>1. ASSUME NEW t \in Tasks, StartPeer(s, t) PROVE BoardInv'
    BY <2>1, <1>p, <1>i DEF StartPeer, CreateClaim, BoardInv, CompletedIsMerged,
       Completed, CompletingMerged, Merged, BoardTypeOK
  <2>2. CASE FinishClaim(s) \/ EndBoardCall(s)
    BY <2>2, <1>p, <1>i, WriteClaimSound DEF FinishClaim, EndBoardCall
  <2>3. CASE BeginBoardCall(s)
    <3>1. PICK op \in {"heartbeat", "fail", "release", "complete"} :
            /\ ReadClaim(s, op, task[s])
            /\ op = "complete" => <<s, task[s]>> \in merged
      BY <2>3 DEF BeginBoardCall
    <3>2. task[s] \in Tasks /\ op \in BoardOp /\ (op = "complete" => Merged(task[s]))
      BY <2>3, <3>1 DEF BeginBoardCall, HasTask, BoardOp, Merged
    <3>3. QED
      BY <3>1, <3>2, <1>p, <1>i, ReadClaimSound
  <2>4. CASE \/ Abandon(s) \/ FinalizeSerial(s) \/ FindClaim(s)
             \/ \E t \in Tasks : StartSerial(s, t)
    BY <2>4, <1>i, BoardFrame DEF Abandon, FinalizeSerial, FindClaim, StartSerial
  <2>5. QED
    BY <2>1, <2>2, <2>3, <2>4 DEF ImplLoop
<1>2. /\ pc'[s] \notin {"completing", "locking", "filling"}
      /\ pc'[s] = "checking" => mode'[s] # "peer"
      /\ UNCHANGED githubVars
      /\ \A r \in Sessions \ {s} :
           pc'[r] = pc[r] /\ task'[r] = task[r] /\ mode'[r] = mode[r]
  BY DEF ImplLoop, StartSerial, StartPeer, FinishClaim, BeginBoardCall,
     EndBoardCall, Abandon, FinalizeSerial, FindClaim
<1>3. SeenMerged' /\ OrderKept' /\ GuardedMergesInOrder'
  BY <1>2 DEF OrderInv, SeenMerged, OrderKept, GuardedMergesInOrder, Merged
<1>4. QED
  BY <1>1, <1>3 DEF OrderInv, BoardInv

LEMMA FinalizeBoard ==
  ASSUME TypeInv, OrderInv, merged \subseteq merged',
         NEW s \in Sessions, Finalize(s)
  PROVE  BoardInv'
<1> USE DEF TypeInv, TypeOK
<1>p. s \in Procs
  BY DEF Procs
<1>i. BoardInv
  BY DEF OrderInv, BoardInv
<1>1. CASE BeginComplete(s)
  <2>1. task[s] \in Tasks /\ Merged(task[s])
    BY <1>1 DEF BeginComplete, HasTask, OrderInv, SeenMerged
  <2>2. QED
    BY <1>1, <2>1, <1>p, <1>i, ReadClaimSound DEF BeginComplete, BoardOp
<1>2. CASE BeginTrapClaim(s)
  <2>1. task[s] \in Tasks
    BY <1>2 DEF BeginTrapClaim, HasTask
  <2>2. QED
    BY <1>2, <2>1, <1>p, <1>i, ReadClaimSound DEF BeginTrapClaim, BoardOp
<1>3. CASE EndComplete(s) \/ EndTrapClaim(s)
  BY <1>3, <1>p, <1>i, WriteClaimSound DEF EndComplete, EndTrapClaim
<1>4. CASE \/ OrderProven(s) \/ OrderBlocked(s) \/ Acquire(s) \/ LockBusy(s)
           \/ FillAcquired(s) \/ RequestMerge(s) \/ FailFinalize(s)
           \/ SeeMerged(s) \/ CompleteFails(s) \/ TrapKeepsCompleted(s)
           \/ TrapFails(s) \/ BeginUnlock(s) \/ EndUnlock(s)
           \/ NothingToUnlock(s)
  BY <1>4, <1>i, BoardFrame DEF OrderProven, OrderBlocked, Acquire, LockBusy,
     FillAcquired, RequestMerge, FailFinalize, SeeMerged, CompleteFails,
     TrapKeepsCompleted, TrapFails, BeginUnlock, EndUnlock, NothingToUnlock
<1>5. QED
  BY <1>1, <1>2, <1>3, <1>4 DEF Finalize

LEMMA FinalizeOrder ==
  ASSUME TypeInv, OrderInv, merged \subseteq merged',
         NEW s \in Sessions, Finalize(s)
  PROVE  OrderInv'
<1> USE DEF TypeInv, TypeOK, SessionTypeOK, sessionVars, githubVars, Goto, Exit
<1>1. BoardInv'
  BY FinalizeBoard
<1>m. ASSUME NEW t, Merged(t) PROVE Merged(t)'
  BY <1>m DEF Merged
<1>2. ASSUME NEW r \in Sessions, r # s
      PROVE  pc'[r] = pc[r] /\ task'[r] = task[r] /\ mode'[r] = mode[r]
  BY <1>2 DEF Finalize, OrderProven, OrderBlocked, Acquire, LockBusy,
     FillAcquired, RequestMerge, FailFinalize, SeeMerged, BeginComplete,
     EndComplete, CompleteFails, BeginTrapClaim, EndTrapClaim,
     TrapKeepsCompleted, TrapFails, BeginUnlock, EndUnlock, NothingToUnlock
<1>3. SeenMerged'
  <2>1. pc'[s] = "completing" => Merged(task'[s])
    <3>1. CASE SeeMerged(s)
      BY <3>1 DEF SeeMerged, Merged
    <3>2. CASE BeginComplete(s)
      BY <3>2 DEF BeginComplete, OrderInv, SeenMerged
    <3>3. CASE ~SeeMerged(s) /\ ~BeginComplete(s)
      BY <3>3 DEF Finalize, OrderProven, OrderBlocked, Acquire, LockBusy,
         FillAcquired, RequestMerge, FailFinalize, EndComplete, CompleteFails,
         BeginTrapClaim, EndTrapClaim, TrapKeepsCompleted, TrapFails,
         BeginUnlock, EndUnlock, NothingToUnlock, AfterUnlock
    <3>4. QED
      BY <3>1, <3>2, <3>3
  <2>2. QED
    BY <2>1, <1>2, <1>m DEF OrderInv, SeenMerged, Merged
<1>4. OrderKept'
  <2>1. ASSUME \/ pc'[s] \in {"locking", "filling"}
               \/ pc'[s] = "checking" /\ mode'[s] = "peer"
        PROVE  \A u \in Prior[task'[s]] : Merged(u)
    <3>1. CASE OrderProven(s)
      <4>1. task[s] \in Tasks
        BY <3>1 DEF OrderProven, HasTask
      <4>2. \A u \in Prior[task[s]] : u \in Tasks
        BY <4>1, PeerConstants
      <4>3. QED
        BY <3>1, <4>2 DEF OrderProven, OrderInv, CompletedIsMerged
    <3>2. CASE Acquire(s) \/ FillAcquired(s)
      BY <3>2 DEF Acquire, FillAcquired, OrderInv, OrderKept
    <3>3. CASE ~(OrderProven(s) \/ Acquire(s) \/ FillAcquired(s))
      BY <2>1, <3>3 DEF Finalize, OrderBlocked, LockBusy, RequestMerge,
         FailFinalize, SeeMerged, BeginComplete, EndComplete, CompleteFails,
         BeginTrapClaim, EndTrapClaim, TrapKeepsCompleted, TrapFails,
         BeginUnlock, EndUnlock, NothingToUnlock, AfterUnlock
    <3>4. QED
      BY <3>1, <3>2, <3>3
  <2>2. QED
    BY <2>1, <1>2, <1>m DEF OrderInv, OrderKept
<1>5. GuardedMergesInOrder'
  <2>1. CASE RequestMerge(s)
    BY <2>1, <1>m DEF RequestMerge, OrderInv, OrderKept, GuardedMergesInOrder
  <2>2. CASE ~RequestMerge(s)
    <3>1. guarded' = guarded
      BY <2>2 DEF Finalize, OrderProven, OrderBlocked, Acquire, LockBusy,
         FillAcquired, FailFinalize, SeeMerged, BeginComplete, EndComplete,
         CompleteFails, BeginTrapClaim, EndTrapClaim, TrapKeepsCompleted,
         TrapFails, BeginUnlock, EndUnlock, NothingToUnlock
    <3>2. QED
      BY <3>1, <1>m DEF OrderInv, GuardedMergesInOrder
  <2>3. QED
    BY <2>1, <2>2
<1>6. QED
  BY <1>1, <1>3, <1>4, <1>5 DEF OrderInv, BoardInv

LEMMA EnvironmentOrder ==
  ASSUME TypeInv, OrderInv, merged \subseteq merged',
         \/ \E s \in Sessions : Kill(s)
         \/ \E o \in Operators : Recovery(o)
         \/ \E pr \in PullRequest : LateMerge(pr)
         \/ LockAges
         \/ UNCHANGED vars
  PROVE  OrderInv'
<1> USE DEF TypeInv, TypeOK, SessionTypeOK, sessionVars, githubVars
<1>i. BoardInv
  BY DEF OrderInv, BoardInv
<1>m. ASSUME NEW t, Merged(t) PROVE Merged(t)'
  BY <1>m DEF Merged
<1>f. ASSUME BoardInv', guarded' = guarded, UNCHANGED <<pc, task, mode>>
      PROVE  OrderInv'
  BY <1>f, <1>m DEF OrderInv, BoardInv, SeenMerged, OrderKept, GuardedMergesInOrder
<1>1. ASSUME NEW s \in Sessions, Kill(s) PROVE OrderInv'
  <2>1. BoardInv'
    BY <1>1, <1>i, <1>m DEF Kill, DropBoardCall, BoardInv, CompletedIsMerged,
       Completed, CompletingMerged, Procs, BoardTypeOK
  <2>2. SeenMerged' /\ OrderKept' /\ GuardedMergesInOrder'
    BY <1>1, <1>m DEF Kill, Exit, OrderInv, SeenMerged, OrderKept,
       GuardedMergesInOrder
  <2>3. QED
    BY <2>1, <2>2 DEF OrderInv, BoardInv
<1>2. ASSUME NEW o \in Operators, Recovery(o) PROVE OrderInv'
  <2>p. o \in Procs
    BY DEF Procs
  <2>1. ASSUME NEW t \in Tasks, BeginReclaim(o, t) PROVE OrderInv'
    BY <2>1, <2>p, <1>i, <1>f, ReadClaimSound DEF BeginReclaim, BoardOp
  <2>2. CASE EndReclaim(o)
    BY <2>2, <2>p, <1>i, <1>f, WriteClaimSound DEF EndReclaim
  <2>3. CASE BeginBreak(o) \/ EndBreak(o)
    BY <2>3, <1>i, <1>f, BoardFrame DEF BeginBreak, EndBreak
  <2>4. QED
    BY <1>2, <2>1, <2>2, <2>3 DEF Recovery
<1>3. ASSUME NEW pr \in PullRequest, LateMerge(pr) PROVE OrderInv'
  BY <1>3, <1>i, <1>f, BoardFrame DEF LateMerge
<1>4. CASE LockAges
  BY <1>4, <1>i, <1>f, BoardFrame DEF LockAges
<1>5. CASE UNCHANGED vars
  BY <1>5, <1>i, <1>f, BoardFrame DEF vars
<1>6. QED
  BY <1>1, <1>2, <1>3, <1>4, <1>5

LEMMA OrderInvariant == Spec => []OrderInv
<1>1. TypeInv /\ OrderInv /\ [Next]_vars => OrderInv'
  BY MergedGrows, ImplLoopOrder, FinalizeOrder, EnvironmentOrder DEF Next
<1>2. QED
  BY OrderInit, TypeInvariant, <1>1, PTL DEF Spec

\* A claim is recorded as completed only for a task whose pull request merged,
\* so the evidence that unblocks later tasks is never premature.
THEOREM CompletedEvidenceSound == Spec => []CompletedIsMerged
BY OrderInvariant, PTL DEF OrderInv

\* A task handed to GitHub under the guard comes after its prior tasks, although
\* the gate is evaluated before the lock is taken and never again.
THEOREM GuardKeepsOrder == Spec => []GuardedMergesInOrder
BY OrderInvariant, PTL DEF OrderInv

-----------------------------------------------------------------------------
\* Operators reclaim no claim whose session is still at work on the task.
CarefulOperator == ReclaimLive = {}

AtWork(s) == pc[s] \notin {"idle", "dead"} /\ task[s] \in Registered

\* The claim of a session at work stays there and stays its own ...
ClaimStays ==
  \A s \in Sessions :
    AtWork(s) => /\ claims[task[s]] # None /\ claims[task[s]].owner = s
                 /\ pc[s] # "claiming" => claims[task[s]].state # "torn"

OnBoard == \A t \in Tasks : claims[t] # None => t \in Registered

\* ... because its own calls keep it, save for a release before the script ...
OwnCalls ==
  \A s \in Sessions :
    LET c == boardCall[s]
    IN  c # None => /\ AtWork(s) /\ c.task = task[s] /\ c.rec.owner = s
                    /\ c.op # "reclaim"
                    /\ pc[s] \in {"claiming", "working", "completing", "trapClaim"}
                    /\ c.op = "release" => pc[s] = "working"
                    /\ c.rec.state = "torn" => c.op = "claim"

\* ... and a reclaim in progress is about a claim that nobody can take up again.
ReclaimsIdle ==
  \A o \in Operators :
    LET c == boardCall[o]
    IN  c # None => /\ c.op = "reclaim" /\ claims[c.task] # None
                    /\ \A s \in Sessions : AtWork(s) => task[s] # c.task

\* The script is under the guard exactly when the task is on the board.
ScriptMode ==
  \A s \in Sessions :
    /\ mode[s] = "peer" => AtWork(s)
    /\ token[s] # None => mode[s] = "peer"
    /\ pc[s] \in {"ordering", "locking", "filling", "completing", "unlocking",
                  "trapClaim", "trapLock"} => mode[s] = "peer"
    /\ pc[s] \in {"checking", "polling"} /\ task[s] \in Registered => mode[s] = "peer"

ClaimInv == ClaimStays /\ OnBoard /\ OwnCalls /\ ReclaimsIdle /\ ScriptMode

\* What GitHub has of a task on the board it has under the guard.
RequestsGuarded ==
  \A pr \in scheduled \cup merged : pr[2] \in Registered => pr[2] \in guarded

StageLockWritten ==
  \A s \in Sessions : token[s] # None /\ pc[s] # "filling" => lock.written

LEMMA ClaimInit == Init => ClaimInv /\ RequestsGuarded /\ StageLockWritten /\ NoLeakedLock
BY DEF Init, BoardInit, LockInit, Procs, ClaimInv, ClaimStays, OnBoard, OwnCalls,
   ReclaimsIdle, ScriptMode, AtWork, RequestsGuarded, StageLockWritten, NoLeakedLock

\* A session that moves with its task, or leaves it, and writes no claim.
LEMMA MoveKeepsClaims ==
  ASSUME TypeInv, ClaimInv, NEW s \in Sessions, NEW l \in Location,
         UNCHANGED boardVars,
         pc' = [pc EXCEPT ![s] = l], pc[s] # "claiming", l # "claiming",
         boardCall[s] = None,
         \A r \in Sessions : token'[r] # None => mode'[r] = "peer",
         \/ /\ l \notin {"idle", "dead"} /\ pc[s] \notin {"idle", "dead"}
            /\ task' = task /\ mode' \in {mode, [mode EXCEPT ![s] = "serial"]}
            /\ mode[s] = "peer" /\ l # "working" => mode' = mode
            /\ l \in {"ordering", "locking", "filling", "completing", "unlocking",
                      "trapClaim", "trapLock"} => mode[s] = "peer"
            /\ l \in {"checking", "polling"} /\ task[s] \in Registered => mode[s] = "peer"
         \/ l = "idle" /\ task' = [task EXCEPT ![s] = None] /\ mode' = [mode EXCEPT ![s] = "serial"]
  PROVE  ClaimInv'
<1> USE DEF TypeInv, TypeOK, SessionTypeOK, boardVars, AtWork
<1>r. ASSUME NEW r \in Sessions, r # s
      PROVE  pc'[r] = pc[r] /\ task'[r] = task[r] /\ mode'[r] = mode[r]
  BY <1>r
<1>s. /\ pc'[s] = l
      /\ task'[s] = task[s] \/ l = "idle"
      /\ mode'[s] = mode[s] \/ mode'[s] = "serial"
  OBVIOUS
<1>w. \A r \in Sessions : AtWork(r)' => AtWork(r) /\ task'[r] = task[r]
  BY <1>r, <1>s
<1>1. ClaimStays' /\ OnBoard'
  BY <1>r, <1>s, <1>w DEF ClaimInv, ClaimStays, OnBoard
<1>2. OwnCalls'
  BY <1>r DEF ClaimInv, OwnCalls
<1>3. ReclaimsIdle'
  BY <1>w DEF ClaimInv, ReclaimsIdle
<1>4. ScriptMode'
  BY <1>r, <1>s DEF ClaimInv, ScriptMode
<1>5. QED
  BY <1>1, <1>2, <1>3, <1>4 DEF ClaimInv

\* The first half of a session's call about its own task.
LEMMA ReadKeepsClaims ==
  ASSUME TypeInv, ClaimInv, NEW s \in Sessions, NEW op \in BoardOp,
         ReadClaim(s, op, task[s]), UNCHANGED sessionVars,
         AtWork(s), pc[s] \in {"working", "completing", "trapClaim"},
         op \notin {"reclaim", "claim"}, op = "release" => pc[s] = "working"
  PROVE  ClaimInv'
<1> USE DEF TypeInv, TypeOK, SessionTypeOK, BoardTypeOK, AtWork, sessionVars
<1>p. /\ s \in Procs /\ \A r \in Sessions : r \in Procs
      /\ \A o \in Operators : o \in Procs /\ o # s
  BY ActorsAssumption DEF Procs
<1>1. /\ claims' = claims
      /\ boardCall' = [boardCall EXCEPT ![s] =
                         [op |-> op, task |-> task[s], rec |-> claims[task[s]]]]
      /\ claims[task[s]].state # "torn"
  BY DEF ReadClaim, Accepts, Readable
<1>2. ClaimStays' /\ OnBoard' /\ ScriptMode'
  BY <1>1 DEF ClaimInv, ClaimStays, OnBoard, ScriptMode
<1>3. OwnCalls'
  BY <1>1, <1>p DEF ClaimInv, OwnCalls, ClaimStays
<1>4. ReclaimsIdle'
  BY <1>1, <1>p DEF ClaimInv, ReclaimsIdle
<1>5. QED
  BY <1>2, <1>3, <1>4 DEF ClaimInv

\* The second half of a call that keeps the claim.
LEMMA WriteKeepsClaims ==
  ASSUME TypeInv, ClaimInv, NEW s \in Sessions, NEW l \in Location,
         WriteClaim(s), boardCall[s].op # "release",
         pc' = [pc EXCEPT ![s] = l], UNCHANGED <<task, mode, token>>,
         l \notin {"idle", "dead", "claiming"},
         l \in {"ordering", "locking", "filling", "completing", "unlocking",
                "trapClaim", "trapLock"} => mode[s] = "peer",
         l \notin {"checking", "polling"}
  PROVE  ClaimInv'
<1> USE DEF TypeInv, TypeOK, SessionTypeOK, BoardTypeOK, AtWork
<1> DEFINE c == boardCall[s]
<1>p. /\ s \in Procs /\ \A r \in Sessions : r \in Procs
      /\ \A o \in Operators : o \in Procs /\ o # s
  BY ActorsAssumption DEF Procs
<1>1. c \in BoardCall /\ c # None
  BY <1>p DEF WriteClaim
<1>2. /\ AtWork(s) /\ c.task = task[s] /\ c.rec.owner = s
      /\ c.op \in {"claim", "heartbeat", "complete", "fail"}
      /\ c.rec.state = "torn" => c.op = "claim"
  BY <1>1 DEF ClaimInv, OwnCalls, BoardCall, BoardOp
<1>3. ClaimAfter(c) \in Claim /\ ClaimAfter(c).owner = s /\ ClaimAfter(c).state # "torn"
  BY <1>1, <1>2 DEF ClaimAfter, StateAfter, BoardCall, Claim, ClaimState
<1>4. /\ claims' = [claims EXCEPT ![task[s]] = ClaimAfter(c)]
      /\ boardCall' = [boardCall EXCEPT ![s] = None]
  BY <1>2 DEF WriteClaim
<1>5. \A r \in Sessions : r # s /\ AtWork(r) => task[r] # task[s]
  BY <1>2 DEF ClaimInv, ClaimStays
<1>n. ClaimAfter(c) # None
  BY <1>3, BoardConstants
<1>t. task[s] \in Tasks
  BY <1>1, <1>2 DEF BoardCall
<1>6. ClaimStays'
  BY <1>2, <1>3, <1>4, <1>5, <1>n, <1>t DEF ClaimInv, ClaimStays
<1>7. OnBoard'
  BY <1>2, <1>4 DEF ClaimInv, OnBoard
<1>8. OwnCalls'
  BY <1>4, <1>p DEF ClaimInv, OwnCalls
<1>9. ReclaimsIdle'
  BY <1>2, <1>4, <1>p DEF ClaimInv, ReclaimsIdle
<1>10. ScriptMode'
  BY <1>2 DEF ClaimInv, ScriptMode
<1>11. QED
  BY <1>6, <1>7, <1>8, <1>9, <1>10 DEF ClaimInv

LEMMA ImplLoopClaims ==
  ASSUME TypeInv, ClaimInv, NEW s \in Sessions, ImplLoop(s)
  PROVE  ClaimInv'
<1> USE DEF TypeInv, TypeOK, SessionTypeOK, BoardTypeOK, sessionVars, Goto, Exit
<1>t. \A r \in Sessions : token[r] # None => mode[r] = "peer"
  BY DEF ClaimInv, ScriptMode
<1>p. /\ s \in Procs /\ \A r \in Sessions : r \in Procs
      /\ \A o \in Operators : o \in Procs /\ o # s
  BY ActorsAssumption DEF Procs
<1>1. ASSUME NEW t \in Tasks, StartSerial(s, t) PROVE ClaimInv'
  <2>1. boardCall[s] = None
    BY <1>1 DEF StartSerial, ClaimInv, OwnCalls, AtWork
  <2>2. \A r \in Sessions : AtWork(r)' <=> AtWork(r)
    BY <1>1 DEF StartSerial, AtWork
  <2>3. \A r \in Sessions : AtWork(r) => task'[r] = task[r] /\ pc'[r] = pc[r]
    BY <1>1 DEF StartSerial, AtWork
  <2>4. UNCHANGED <<claims, boardCall, mode, token>>
    BY <1>1 DEF StartSerial, boardVars
  <2>5. ClaimStays' /\ OnBoard' /\ OwnCalls' /\ ReclaimsIdle'
    BY <2>2, <2>3, <2>4 DEF ClaimInv, ClaimStays, OnBoard, OwnCalls, ReclaimsIdle
  <2>6. ScriptMode'
    BY <1>1, <2>2, <2>4 DEF StartSerial, ClaimInv, ScriptMode
  <2>7. QED
    BY <2>5, <2>6 DEF ClaimInv
<1>2. ASSUME NEW t \in Tasks, StartPeer(s, t) PROVE ClaimInv'
  <2> DEFINE rec == [owner |-> s, state |-> "torn"]
  <2>1. /\ claims[t] = None /\ t \in Registered /\ pc[s] = "idle"
        /\ claims' = [claims EXCEPT ![t] = rec]
        /\ boardCall' = [boardCall EXCEPT ![s] = [op |-> "claim", task |-> t, rec |-> rec]]
        /\ task' = [task EXCEPT ![s] = t]
        /\ pc' = [pc EXCEPT ![s] = "claiming"]
        /\ UNCHANGED <<mode, token>>
    BY <1>2 DEF StartPeer, CreateClaim
  <2>n. rec # None
    BY BoardConstants DEF Claim, ClaimState
  <2>2. \A r \in Sessions : AtWork(r) => task[r] # t
    BY <2>1 DEF ClaimInv, ClaimStays
  <2>3. ClaimStays'
    BY <2>1, <2>2, <2>n DEF ClaimInv, ClaimStays, AtWork
  <2>4. OnBoard'
    BY <2>1 DEF ClaimInv, OnBoard
  <2>5. OwnCalls'
    BY <2>1, <1>p DEF ClaimInv, OwnCalls, AtWork
  <2>6. ReclaimsIdle'
    BY <2>1, <2>n, <1>p DEF ClaimInv, ReclaimsIdle, AtWork
  <2>7. ScriptMode'
    BY <2>1 DEF ClaimInv, ScriptMode, AtWork
  <2>8. QED
    BY <2>3, <2>4, <2>5, <2>6, <2>7 DEF ClaimInv
<1>3. CASE FinishClaim(s)
  <2>1. boardCall[s].op # "release"
    BY <1>3 DEF FinishClaim, WriteClaim, ClaimInv, OwnCalls
  <2>2. QED
    BY <1>3, <2>1, WriteKeepsClaims DEF FinishClaim, Location
<1>4. CASE BeginBoardCall(s)
  <2>1. task[s] \in Tasks /\ AtWork(s)
    BY <1>4 DEF BeginBoardCall, OwnClaim, Readable, HasTask, ClaimInv, OnBoard, AtWork
  <2>2. QED
    BY <1>4, <2>1, ReadKeepsClaims DEF BeginBoardCall, BoardOp
<1>5. CASE EndBoardCall(s)
  <2>1. CASE boardCall[s].op # "release"
    BY <1>5, <2>1, WriteKeepsClaims DEF EndBoardCall, Location
  <2>2. CASE boardCall[s].op = "release"
    <3>1. /\ AtWork(s) /\ boardCall[s].task = task[s]
      BY <1>5, <2>2 DEF EndBoardCall, WriteClaim, ClaimInv, OwnCalls
    <3>2. /\ claims' = [claims EXCEPT ![task[s]] = None]
          /\ boardCall' = [boardCall EXCEPT ![s] = None]
          /\ pc' = [pc EXCEPT ![s] = "idle"]
          /\ task' = [task EXCEPT ![s] = None]
          /\ mode' = [mode EXCEPT ![s] = "serial"]
          /\ token' = [token EXCEPT ![s] = None]
      BY <1>5, <2>2, <3>1 DEF EndBoardCall, WriteClaim, ClaimAfter
    <3>3. \A r \in Sessions : r # s /\ AtWork(r) => task[r] # task[s]
      BY <3>1 DEF ClaimInv, ClaimStays
    <3>4. \A r \in Sessions : AtWork(r)' <=> AtWork(r) /\ r # s
      BY <3>2 DEF AtWork
    <3>5. ClaimStays' /\ OnBoard'
      BY <3>2, <3>3, <3>4 DEF ClaimInv, ClaimStays, OnBoard
    <3>6. OwnCalls'
      BY <3>2, <3>4, <1>p DEF ClaimInv, OwnCalls
    <3>7. ReclaimsIdle'
      BY <3>1, <3>2, <3>4, <1>p DEF ClaimInv, ReclaimsIdle
    <3>8. ScriptMode'
      BY <3>2, <3>4 DEF ClaimInv, ScriptMode
    <3>9. QED
      BY <3>5, <3>6, <3>7, <3>8 DEF ClaimInv
  <2>3. QED
    BY <2>1, <2>2
<1>6. CASE Abandon(s)
  BY <1>6, <1>t, MoveKeepsClaims DEF Abandon, Location
<1>7. CASE FinalizeSerial(s)
  <2>1. task[s] \notin Registered
    BY <1>7 DEF FinalizeSerial, OwnClaim, Readable, ClaimInv, ClaimStays, AtWork
  <2>2. mode[s] # "peer"
    BY <2>1 DEF ClaimInv, ScriptMode, AtWork
  <2>3. QED
    BY <1>7, <1>t, <2>1, <2>2, MoveKeepsClaims DEF FinalizeSerial, Location
<1>8. CASE FindClaim(s)
  <2>1. AtWork(s)
    BY <1>8 DEF FindClaim, OwnClaim, Readable, HasTask, ClaimInv, OnBoard, AtWork
  <2>2. \A r \in Sessions : AtWork(r)' <=> AtWork(r)
    BY <1>8, <2>1 DEF FindClaim, AtWork
  <2>3. UNCHANGED <<claims, boardCall, task, token>>
    BY <1>8 DEF FindClaim, boardVars
  <2>4. ClaimStays' /\ OnBoard' /\ ReclaimsIdle'
    BY <1>8, <2>2, <2>3 DEF FindClaim, ClaimInv, ClaimStays, OnBoard, ReclaimsIdle
  <2>5. OwnCalls'
    BY <1>8, <2>2, <2>3 DEF FindClaim, ClaimInv, OwnCalls
  <2>6. ScriptMode'
    BY <1>8, <2>1, <2>2 DEF FindClaim, ClaimInv, ScriptMode
  <2>7. QED
    BY <2>4, <2>5, <2>6 DEF ClaimInv
<1>9. QED
  BY <1>1, <1>2, <1>3, <1>4, <1>5, <1>6, <1>7, <1>8 DEF ImplLoop

LEMMA FinalizeClaims ==
  ASSUME TypeInv, ClaimInv, NEW s \in Sessions, Finalize(s)
  PROVE  ClaimInv'
<1> USE DEF TypeInv, TypeOK, SessionTypeOK, sessionVars, Goto, Exit
<1>c. pc[s] \notin {"claiming", "working", "completing", "trapClaim"} => boardCall[s] = None
  BY DEF ClaimInv, OwnCalls
<1>t. \A r \in Sessions : token[r] # None => mode[r] = "peer"
  BY DEF ClaimInv, ScriptMode
<1>m. /\ pc[s] \in {"ordering", "locking", "filling", "completing", "unlocking",
                    "trapClaim", "trapLock"} => mode[s] = "peer"
      /\ pc[s] \in {"checking", "polling"} /\ task[s] \in Registered => mode[s] = "peer"
      /\ mode[s] = "peer" => AtWork(s) /\ task[s] \in Tasks
  BY BoardConstants DEF ClaimInv, ScriptMode, AtWork
<1>1. CASE OrderProven(s) \/ OrderBlocked(s) \/ Acquire(s) \/ LockBusy(s) \/ FillAcquired(s)
  BY <1>1, <1>c, <1>t, <1>m, MoveKeepsClaims
  DEF OrderProven, OrderBlocked, Acquire, LockBusy, FillAcquired, Location
<1>2. CASE RequestMerge(s)
  BY <1>2, <1>c, <1>t, <1>m, MoveKeepsClaims DEF RequestMerge, Location
<1>3. CASE FailFinalize(s)
  BY <1>3, <1>c, <1>t, <1>m, MoveKeepsClaims DEF FailFinalize, Location
<1>4. CASE SeeMerged(s)
  BY <1>4, <1>c, <1>t, <1>m, MoveKeepsClaims DEF SeeMerged, Location
<1>5. CASE CompleteFails(s) \/ TrapKeepsCompleted(s) \/ TrapFails(s)
  BY <1>5, <1>t, <1>m, MoveKeepsClaims DEF CompleteFails, TrapKeepsCompleted, TrapFails, Location
<1>6. CASE BeginComplete(s)
  BY <1>6, <1>m, ReadKeepsClaims DEF BeginComplete, BoardOp
<1>7. CASE BeginTrapClaim(s)
  BY <1>7, <1>m, ReadKeepsClaims DEF BeginTrapClaim, BoardOp
<1>8. CASE EndComplete(s) \/ EndTrapClaim(s)
  <2>1. boardCall[s].op # "release"
    BY <1>8 DEF EndComplete, EndTrapClaim, WriteClaim, ClaimInv, OwnCalls
  <2>2. QED
    BY <1>8, <1>m, <2>1, WriteKeepsClaims DEF EndComplete, EndTrapClaim, Location
<1>9. CASE BeginUnlock(s)
  BY <1>9 DEF BeginUnlock, boardVars, ClaimInv, ClaimStays, OnBoard, OwnCalls,
     ReclaimsIdle, ScriptMode, AtWork
<1>10. CASE EndUnlock(s) \/ NothingToUnlock(s)
  BY <1>10, <1>c, <1>t, <1>m, MoveKeepsClaims DEF EndUnlock, NothingToUnlock, AfterUnlock, Location
<1>11. QED
  BY <1>1, <1>2, <1>3, <1>4, <1>5, <1>6, <1>7, <1>8, <1>9, <1>10 DEF Finalize

LEMMA EnvironmentClaims ==
  ASSUME OneOperator, CarefulOperator, TypeInv, ClaimInv,
         \/ \E s \in Sessions : Kill(s)
         \/ \E o \in Operators : Recovery(o)
         \/ \E pr \in PullRequest : LateMerge(pr)
         \/ LockAges
         \/ UNCHANGED vars
  PROVE  ClaimInv'
<1> USE DEF TypeInv, TypeOK, SessionTypeOK, BoardTypeOK, sessionVars, boardVars
<1>p. /\ \A r \in Sessions : r \in Procs
      /\ \A o \in Operators : o \in Procs /\ o \notin Sessions
  BY ActorsAssumption DEF Procs
<1>f. ASSUME UNCHANGED <<boardVars, sessionVars>> PROVE ClaimInv'
  BY <1>f DEF ClaimInv, ClaimStays, OnBoard, OwnCalls, ReclaimsIdle, ScriptMode, AtWork
<1>1. ASSUME NEW s \in Sessions, Kill(s) PROVE ClaimInv'
  <2>1. /\ claims' = claims
        /\ boardCall' = [boardCall EXCEPT ![s] = None]
        /\ pc' = [pc EXCEPT ![s] = "dead"]
        /\ task' = [task EXCEPT ![s] = None]
        /\ mode' = [mode EXCEPT ![s] = "serial"]
        /\ token' = [token EXCEPT ![s] = None]
    BY <1>1 DEF Kill, DropBoardCall, Exit
  <2>2. \A r \in Sessions : AtWork(r)' <=> AtWork(r) /\ r # s
    BY <2>1 DEF AtWork
  <2>3. ClaimStays' /\ OnBoard'
    BY <2>1, <2>2 DEF ClaimInv, ClaimStays, OnBoard
  <2>4. OwnCalls'
    BY <2>1, <2>2, <1>p DEF ClaimInv, OwnCalls
  <2>5. ReclaimsIdle'
    BY <2>1, <2>2, <1>p DEF ClaimInv, ReclaimsIdle
  <2>6. ScriptMode'
    BY <2>1, <2>2 DEF ClaimInv, ScriptMode
  <2>7. QED
    BY <2>3, <2>4, <2>5, <2>6 DEF ClaimInv
<1>2. ASSUME NEW o \in Operators, NEW t \in Tasks, BeginReclaim(o, t) PROVE ClaimInv'
  <2>1. /\ claims[t] # None /\ pc[claims[t].owner] \in {"idle", "dead"}
        /\ claims' = claims
        /\ boardCall' = [boardCall EXCEPT ![o] =
                           [op |-> "reclaim", task |-> t, rec |-> claims[t]]]
        /\ UNCHANGED sessionVars
    BY <1>2 DEF BeginReclaim, ReadClaim, Accepts, Readable, CarefulOperator
  <2>2. \A s \in Sessions : AtWork(s) => task[s] # t
    BY <2>1 DEF ClaimInv, ClaimStays, AtWork
  <2>3. ClaimStays' /\ OnBoard' /\ ScriptMode'
    BY <2>1 DEF ClaimInv, ClaimStays, OnBoard, ScriptMode, AtWork
  <2>4. OwnCalls'
    BY <2>1, <1>p DEF ClaimInv, OwnCalls, AtWork
  <2>5. ReclaimsIdle'
    BY <2>1, <2>2, <1>p DEF ClaimInv, ReclaimsIdle, AtWork
  <2>6. QED
    BY <2>3, <2>4, <2>5 DEF ClaimInv
<1>3. ASSUME NEW o \in Operators, EndReclaim(o) PROVE ClaimInv'
  <2> DEFINE c == boardCall[o]
  <2>1. /\ c # None /\ c \in BoardCall /\ c.op = "reclaim"
        /\ \A s \in Sessions : AtWork(s) => task[s] # c.task
    BY <1>3, <1>p DEF EndReclaim, WriteClaim, ClaimInv, ReclaimsIdle
  <2>2. /\ claims' = [claims EXCEPT ![c.task] = None]
        /\ boardCall' = [boardCall EXCEPT ![o] = None]
        /\ UNCHANGED sessionVars
    BY <1>3, <2>1 DEF EndReclaim, WriteClaim, ClaimAfter
  <2>3. ClaimStays' /\ OnBoard'
    BY <2>1, <2>2 DEF ClaimInv, ClaimStays, OnBoard, AtWork
  <2>4. OwnCalls'
    BY <2>2, <1>p DEF ClaimInv, OwnCalls, AtWork
  <2>5. ReclaimsIdle'
    BY <2>2, <1>p DEF OneOperator, ReclaimsIdle
  <2>6. ScriptMode'
    BY <2>2 DEF ClaimInv, ScriptMode, AtWork
  <2>7. QED
    BY <2>3, <2>4, <2>5, <2>6 DEF ClaimInv
<1>4. ASSUME NEW o \in Operators, BeginBreak(o) \/ EndBreak(o) PROVE ClaimInv'
  BY <1>4, <1>f DEF BeginBreak, EndBreak
<1>5. CASE LockAges \/ UNCHANGED vars \/ \E pr \in PullRequest : LateMerge(pr)
  BY <1>5, <1>f DEF LockAges, LateMerge, vars
<1>6. QED
  BY <1>1, <1>2, <1>3, <1>4, <1>5 DEF Recovery

LEMMA ClaimInvariant ==
  ASSUME OneOperator, CarefulOperator
  PROVE  Spec => []ClaimInv
<1>1. TypeInv /\ ClaimInv /\ [Next]_vars => ClaimInv'
  BY ImplLoopClaims, FinalizeClaims, EnvironmentClaims, OneOperator, CarefulOperator DEF Next
<1>2. QED
  BY ClaimInit, TypeInvariant, <1>1, PTL DEF Spec

\* What GitHub has of a task on the board it has under the guard: no script of
\* such a task runs in serial mode.
LEMMA RequestsStep ==
  ASSUME TypeInv, ClaimInv, RequestsGuarded, [Next]_vars
  PROVE  RequestsGuarded'
<1>1. ASSUME NEW s \in Sessions, RequestMerge(s) PROVE RequestsGuarded'
  <2>1. task[s] \in Registered => mode[s] = "peer"
    BY <1>1 DEF RequestMerge, ClaimInv, ScriptMode
  <2>2. /\ guarded \subseteq guarded'
        /\ task[s] \in Registered => task[s] \in guarded'
        /\ scheduled' \cup merged' \subseteq (scheduled \cup merged) \cup {<<s, task[s]>>}
    BY <1>1, <2>1 DEF RequestMerge
  <2>3. QED
    BY <2>2 DEF RequestsGuarded
<1>2. ASSUME NEW pr \in PullRequest, LateMerge(pr) PROVE RequestsGuarded'
  BY <1>2 DEF LateMerge, RequestsGuarded
<1>3. CASE UNCHANGED githubVars
  BY <1>3 DEF githubVars, RequestsGuarded
<1>4. ASSUME NEW s \in Sessions, ImplLoop(s) \/ Kill(s) PROVE UNCHANGED githubVars
  BY <1>4 DEF Kill, ImplLoop, StartSerial, StartPeer, FinishClaim, BeginBoardCall,
     EndBoardCall, Abandon, FinalizeSerial, FindClaim
<1>5. ASSUME NEW s \in Sessions, Finalize(s), ~RequestMerge(s) PROVE UNCHANGED githubVars
  BY <1>5 DEF Finalize, OrderProven, OrderBlocked, Acquire, LockBusy, FillAcquired,
     FailFinalize, SeeMerged, BeginComplete, EndComplete, CompleteFails, BeginTrapClaim,
     EndTrapClaim, TrapKeepsCompleted, TrapFails, BeginUnlock, EndUnlock, NothingToUnlock
<1>6. ASSUME NEW o \in Operators, Recovery(o) PROVE UNCHANGED githubVars
  BY <1>6 DEF Recovery, BeginReclaim, EndReclaim, BeginBreak, EndBreak
<1>7. CASE LockAges \/ UNCHANGED vars
  BY <1>3, <1>7 DEF LockAges, vars
<1>8. QED
  BY <1>1, <1>2, <1>3, <1>4, <1>5, <1>6, <1>7 DEF Next

\* Every task on the board merges after its prior tasks: its claim keeps every
\* script of the task under the guard, however late GitHub merges.
THEOREM BoardMergesInOrder ==
  ASSUME OneOperator, CarefulOperator
  PROVE  Spec => []RegisteredMergesInOrder
<1>1. OrderInv /\ RequestsGuarded => RegisteredMergesInOrder
  BY DEF OrderInv, GuardedMergesInOrder, RequestsGuarded, RegisteredMergesInOrder
<1>2. Spec => []RequestsGuarded
  BY ClaimInit, RequestsStep, TypeInvariant, ClaimInvariant, OneOperator, CarefulOperator, PTL
  DEF Spec
<1>3. QED
  BY <1>1, <1>2, OrderInvariant, PTL

-----------------------------------------------------------------------------
\* No lock is left by a live script: the claim that the trap asks for first is
\* always there, and the lock is written before the release looks for it.

Kept == StageLockWritten /\ NoLeakedLock

\* A step that leaves the lock alone, and the token of every session that owns it.
LEMMA KeptFrame ==
  ASSUME TypeInv, LockInv, Kept, NEW s \in Sessions,
         lock' = lock,
         token' = token \/ (token[s] = None /\ token' = [token EXCEPT ![s] = None]),
         \E l \in Location : pc' = [pc EXCEPT ![s] = l] /\ (l = "filling" <=> pc[s] = "filling"),
         pc[s] # "dead"
  PROVE  Kept'
<1> USE DEF TypeInv, TypeOK, SessionTypeOK
<1>1. \A r \in Sessions : token'[r] = token[r] /\ (pc'[r] = "filling" <=> pc[r] = "filling")
                          /\ (pc[r] = "dead" => pc'[r] = "dead")
  OBVIOUS
<1>2. lock # None => lock.owner \in Sessions
  BY DEF LockTypeOK, LockRecord
<1>3. QED
  BY <1>1, <1>2 DEF Kept, StageLockWritten, NoLeakedLock

LEMMA KeptStep ==
  ASSUME TypeInv, LockInv, ClaimInv, Kept, [Next]_vars
  PROVE  Kept'
<1> USE DEF TypeInv, TypeOK, SessionTypeOK, sessionVars, lockVars, Goto, Exit
<1>l. lock # None => lock \in LockRecord
  BY DEF LockTypeOK
<1>1. ASSUME NEW s \in Sessions, ImplLoop(s) PROVE Kept'
  <2>1. pc[s] \in {"idle", "claiming", "working"} /\ token[s] = None
    BY <1>1 DEF ImplLoop, StartSerial, StartPeer, FinishClaim, BeginBoardCall, EndBoardCall,
       Abandon, FinalizeSerial, FindClaim, HasToken
  <2>2. /\ lock' = lock
        /\ token' = token \/ token' = [token EXCEPT ![s] = None]
        /\ \E l \in Location : pc' = [pc EXCEPT ![s] = l] /\ l # "filling"
    BY <1>1, <2>1 DEF ImplLoop, StartSerial, StartPeer, FinishClaim, BeginBoardCall,
       EndBoardCall, Abandon, FinalizeSerial, FindClaim, Location
  <2>3. QED
    BY <2>1, <2>2, KeptFrame
<1>2. ASSUME NEW s \in Sessions, Finalize(s) PROVE Kept'
  <2>1. CASE Acquire(s)
    <3>1. PICK k \in Tokens : CreateLock(s, k) /\ token' = [token EXCEPT ![s] = k]
      BY <2>1 DEF Acquire
    <3>2. \A r \in Sessions : token[r] = None
      BY <3>1 DEF CreateLock, LockInv, StageOwnsLock, Holds
    <3>3. lock' = [token |-> k, owner |-> s, written |-> FALSE, stale |-> FALSE]
      BY <3>1 DEF CreateLock
    <3>4. NoLeakedLock'
      BY <3>1, <3>3 DEF NoLeakedLock
    <3>5. StageLockWritten'
      BY <2>1, <3>1, <3>2 DEF Acquire, StageLockWritten
    <3>6. QED
      BY <3>4, <3>5 DEF Kept
  <2>2. CASE FillAcquired(s)
    <3>1. token[s] # None
      BY <2>2 DEF FillAcquired, HasToken
    <3>2. Holds(token[s]) /\ lock.owner = s
      BY <3>1 DEF LockInv, StageOwnsLock
    <3>3. lock' = [lock EXCEPT !.written = TRUE]
      BY <2>2, <3>2 DEF FillAcquired, FillLock
    <3>4. lock \in LockRecord /\ lock'.written = TRUE /\ lock'.owner = lock.owner
          /\ lock'.token = lock.token
      BY <1>l, <3>2, <3>3 DEF Holds, LockRecord
    <3>5. QED
      BY <2>2, <3>2, <3>4 DEF FillAcquired, Kept, StageLockWritten, NoLeakedLock, Holds
  <2>3. CASE BeginUnlock(s)
    BY <2>3 DEF BeginUnlock, ReadForRelease, Kept, StageLockWritten, NoLeakedLock
  <2>4. CASE EndUnlock(s)
    <3>1. token[s] # None /\ lock' = None
      BY <2>4 DEF EndUnlock, Unlink, HasToken
    <3>2. \A r \in Sessions : token'[r] = None
      BY <2>4, <3>1 DEF EndUnlock, LockInv, StageOwnsLock
    <3>3. QED
      BY <3>1, <3>2 DEF Kept, StageLockWritten, NoLeakedLock
  <2>5. CASE NothingToUnlock(s) \/ TrapFails(s)
    <3>1. ~NothingToUnlock(s)
      BY DEF NothingToUnlock, HasToken, LockInv, StageOwnsLock, Kept, StageLockWritten
    <3>2. ~TrapFails(s)
      BY DEF TrapFails, Readable, ClaimInv, ScriptMode, ClaimStays, AtWork
    <3>3. QED
      BY <2>5, <3>1, <3>2
  <2>6. CASE \/ OrderProven(s) \/ OrderBlocked(s) \/ LockBusy(s) \/ RequestMerge(s)
             \/ FailFinalize(s) \/ SeeMerged(s) \/ BeginComplete(s) \/ EndComplete(s)
             \/ CompleteFails(s) \/ BeginTrapClaim(s) \/ EndTrapClaim(s)
             \/ TrapKeepsCompleted(s)
    <3>1. pc[s] \notin {"dead", "filling"} /\ lock' = lock
      BY <2>6 DEF OrderProven, OrderBlocked, LockBusy, RequestMerge, FailFinalize, SeeMerged,
         BeginComplete, EndComplete, CompleteFails, BeginTrapClaim, EndTrapClaim,
         TrapKeepsCompleted
    <3>2. token' = token \/ (token[s] = None /\ token' = [token EXCEPT ![s] = None])
      <4>1. token[s] # None => mode[s] = "peer"
        BY DEF ClaimInv, ScriptMode
      <4>2. QED
        BY <2>6, <4>1 DEF OrderProven, OrderBlocked, LockBusy, RequestMerge, FailFinalize,
           SeeMerged, BeginComplete, EndComplete, CompleteFails, BeginTrapClaim,
           EndTrapClaim, TrapKeepsCompleted, HasToken
    <3>3. \E l \in Location : pc' = [pc EXCEPT ![s] = l] /\ l # "filling"
      BY <2>6 DEF OrderProven, OrderBlocked, LockBusy, RequestMerge, FailFinalize, SeeMerged,
         BeginComplete, EndComplete, CompleteFails, BeginTrapClaim, EndTrapClaim,
         TrapKeepsCompleted, Location
    <3>4. QED
      BY <3>1, <3>2, <3>3, KeptFrame
  <2>7. QED
    BY <1>2, <2>1, <2>2, <2>3, <2>4, <2>5, <2>6 DEF Finalize
<1>3. ASSUME NEW s \in Sessions, Kill(s) PROVE Kept'
  <2>1. /\ lock' = lock /\ pc' = [pc EXCEPT ![s] = "dead"]
        /\ token' = [token EXCEPT ![s] = None]
    BY <1>3 DEF Kill, DropLockCall
  <2>2. lock # None => lock.owner \in Sessions
    BY <1>l DEF LockRecord
  <2>3. QED
    BY <2>1, <2>2 DEF Kept, StageLockWritten, NoLeakedLock
<1>4. ASSUME NEW o \in Operators, Recovery(o) PROVE Kept'
  <2>1. CASE EndBreak(o)
    <3>1. lock # None /\ pc[lock.owner] = "dead"
      BY <2>1 DEF EndBreak, Unlink, LockInv, BreakingDeadLock
    <3>2. \A s \in Sessions : token[s] = None
      BY <3>1 DEF LockInv, StageOwnsLock, HasToken
    <3>3. QED
      BY <2>1, <3>2 DEF EndBreak, Unlink, Kept, StageLockWritten, NoLeakedLock
  <2>2. CASE ~EndBreak(o)
    BY <1>4, <2>2 DEF Recovery, BeginReclaim, EndReclaim, BeginBreak, ReadForBreak, Kept,
       StageLockWritten, NoLeakedLock
  <2>3. QED
    BY <2>1, <2>2
<1>5. CASE LockAges
  <2>1. lock # None /\ lock' # None /\ lock'.written = lock.written
        /\ lock'.owner = lock.owner /\ lock'.token = lock.token
    BY <1>5, <1>l, LockConstants DEF LockAges, Age, LockRecord
  <2>2. QED
    BY <1>5, <2>1 DEF LockAges, Kept, StageLockWritten, NoLeakedLock
<1>6. CASE UNCHANGED vars \/ \E pr \in PullRequest : LateMerge(pr)
  BY <1>6 DEF vars, LateMerge, Kept, StageLockWritten, NoLeakedLock
<1>7. QED
  BY <1>1, <1>2, <1>3, <1>4, <1>5, <1>6 DEF Next

\* A lock file belongs to a script that will still release it, or to the dead:
\* no way out of pr-finalize.sh or of its trap skips the release.
THEOREM LockNeverLeaks ==
  ASSUME OneOperator, CarefulOperator
  PROVE  Spec => []NoLeakedLock
<1>1. Spec => []Kept
  BY ClaimInit, KeptStep, TypeInvariant, LockInvariant, ClaimInvariant, OneOperator,
     CarefulOperator, PTL DEF Spec, Kept
<1>2. QED
  BY <1>1, PTL DEF Kept

-----------------------------------------------------------------------------
\* PeerMerge implements SerialMerge: the owner of the lock file is the holder.

Holder == IF lock = None THEN None ELSE lock.owner

SerialStep == Serial!Next \/ UNCHANGED <<Holder, guarded, merged>>

\* A step that moves neither the lock's owner nor GitHub is a stutter.
LEMMA StutterStep ==
  ASSUME UNCHANGED lock, UNCHANGED <<merged, guarded>>
  PROVE  SerialStep
BY DEF SerialStep, Holder

LEMMA FinalizeRefines ==
  ASSUME TypeInv, LockInv, OrderInv, NEW s \in Sessions, Finalize(s)
  PROVE  SerialStep
<1> USE DEF TypeInv, TypeOK, sessionVars, githubVars, lockVars
<1>n. s # None
  BY ActorsAssumption
<1>l. lock # None => lock \in LockRecord
  BY DEF LockTypeOK
<1>1. CASE Acquire(s)
  <2>1. PICK k \in Tokens : CreateLock(s, k)
    BY <1>1 DEF Acquire
  <2>2. lock' = [token |-> k, owner |-> s, written |-> FALSE, stale |-> FALSE]
    BY <2>1 DEF CreateLock
  <2>3. lock' \in LockRecord
    BY <2>2 DEF LockRecord
  <2>a. lock' # None /\ lock'.owner = s
    BY <2>2, <2>3, LockConstants
  <2>b. lock = None
    BY <2>1 DEF CreateLock
  <2>4. Holder = None /\ Holder' = s
    BY <2>a, <2>b DEF Holder
  <2>5. Serial!Enter(s)
    BY <1>1, <2>4 DEF Acquire, Serial!Enter, Holder
  <2>6. QED
    BY <2>5 DEF SerialStep, Serial!Next
<1>2. CASE FillAcquired(s)
  <2>1. Holder' = Holder
    BY <1>2, <1>l, LockConstants DEF FillAcquired, FillLock, Holds, Holder, LockRecord
  <2>2. QED
    BY <1>2, <2>1 DEF FillAcquired, SerialStep
<1>3. CASE EndUnlock(s)
  <2>1. lock # None /\ lock.owner = s
    BY <1>3 DEF EndUnlock, Unlink, LockInv, ReleasingInStage, StageOwnsLock,
       HasToken, Holds
  <2>2. Serial!Leave
    BY <1>3, <2>1, <1>n DEF EndUnlock, Unlink, Serial!Leave
  <2>3. QED
    BY <2>2 DEF SerialStep, Serial!Next
<1>4. CASE RequestMerge(s)
  <2> DEFINE pr == <<s, task[s]>>
  <2>1. task[s] \in Tasks /\ pr \in PullRequest
    BY <1>4 DEF RequestMerge, HasTask, PullRequest
  <2>2. UNCHANGED lock /\ merged' \in {merged, merged \cup {pr}}
    BY <1>4 DEF RequestMerge
  <2>3. CASE mode[s] = "peer"
    <3>1. token[s] # None
      BY <1>4, <2>3 DEF RequestMerge, HasToken
    <3>2. lock # None /\ lock.owner = s
      BY <3>1 DEF LockInv, StageOwnsLock, Holds
    <3>3. \A u \in Prior[task[s]] : Merged(u)
      BY <1>4, <2>3 DEF RequestMerge, OrderInv, OrderKept
    <3>4. guarded' = guarded \cup {task[s]}
      BY <1>4, <2>3 DEF RequestMerge
    <3>5. Serial!Request(s, task[s])
      BY <2>2, <3>2, <3>3, <3>4 DEF Serial!Request, Serial!Done, Merged
    <3>6. QED
      BY <2>1, <3>5 DEF SerialStep, Serial!Next
  <2>4. CASE mode[s] # "peer"
    <3>1. guarded' = guarded
      BY <1>4, <2>4 DEF RequestMerge
    <3>2. CASE merged' = merged
      BY <2>2, <3>1, <3>2, StutterStep
    <3>3. CASE merged' = merged \cup {pr}
      <4>1. Serial!Merge(pr)
        BY <2>2, <3>1, <3>3 DEF Serial!Merge
      <4>2. QED
        BY <2>1, <4>1 DEF SerialStep, Serial!Next, Serial!PullRequest, PullRequest
    <3>4. QED
      BY <2>2, <3>2, <3>3
  <2>5. QED
    BY <2>3, <2>4
<1>5. CASE ~(Acquire(s) \/ FillAcquired(s) \/ EndUnlock(s) \/ RequestMerge(s))
  <2>1. UNCHANGED lock /\ UNCHANGED <<merged, guarded>>
    BY <1>5 DEF Finalize, OrderProven, OrderBlocked, LockBusy, FailFinalize,
       SeeMerged, BeginComplete, EndComplete, CompleteFails, BeginTrapClaim,
       EndTrapClaim, TrapKeepsCompleted, TrapFails, BeginUnlock,
       NothingToUnlock, ReadForRelease
  <2>2. QED
    BY <2>1, StutterStep
<1>6. QED
  BY <1>1, <1>2, <1>3, <1>4, <1>5

LEMMA StepRefines ==
  ASSUME TypeInv, LockInv, OrderInv, [Next]_vars
  PROVE  SerialStep
<1> USE DEF TypeInv, TypeOK, githubVars, lockVars
<1>1. ASSUME NEW s \in Sessions, ImplLoop(s) PROVE SerialStep
  <2>1. UNCHANGED lock /\ UNCHANGED <<merged, guarded>>
    BY <1>1 DEF ImplLoop, StartSerial, StartPeer, FinishClaim, BeginBoardCall,
       EndBoardCall, Abandon, FinalizeSerial, FindClaim
  <2>2. QED
    BY <2>1, StutterStep
<1>2. ASSUME NEW s \in Sessions, Finalize(s) PROVE SerialStep
  BY <1>2, FinalizeRefines
<1>3. ASSUME NEW s \in Sessions, Kill(s) PROVE SerialStep
  BY <1>3, StutterStep DEF Kill, DropLockCall
<1>4. ASSUME NEW o \in Operators, Recovery(o) PROVE SerialStep
  <2>1. CASE EndBreak(o)
    <3>1. lock # None /\ lock.owner # None
      BY <2>1, ActorsAssumption DEF EndBreak, Unlink, LockInv, BreakingDeadLock,
         LockTypeOK, LockRecord
    <3>2. Serial!Leave
      BY <2>1, <3>1 DEF EndBreak, Unlink, Serial!Leave
    <3>3. QED
      BY <3>2 DEF SerialStep, Serial!Next
  <2>2. CASE ~EndBreak(o)
    BY <1>4, <2>2, StutterStep DEF Recovery, BeginReclaim, EndReclaim, BeginBreak,
       ReadForBreak
  <2>3. QED
    BY <2>1, <2>2
<1>5. ASSUME NEW pr \in PullRequest, LateMerge(pr) PROVE SerialStep
  <2>1. Serial!Merge(pr)
    BY <1>5 DEF LateMerge, Serial!Merge
  <2>2. QED
    BY <2>1 DEF SerialStep, Serial!Next, Serial!PullRequest, PullRequest
<1>6. CASE LockAges
  <2>1. lock # None /\ lock' \in LockRecord /\ lock'.owner = lock.owner
    BY <1>6 DEF LockAges, Age, LockTypeOK, LockRecord
  <2>2. QED
    BY <1>6, <2>1, LockConstants DEF LockAges, SerialStep, Holder
<1>7. CASE UNCHANGED vars
  BY <1>7, StutterStep DEF vars
<1>8. QED
  BY <1>1, <1>2, <1>3, <1>4, <1>5, <1>6, <1>7 DEF Next

\* The files, calls, crashes and recoveries of PeerMerge implement the serialized
\* merge stage: it is entered by creating the lock file and left by unlinking it.
THEOREM ImplementsSerialMerge ==
  ASSUME OneOperator
  PROVE  Spec => SerialSpec
<1>1. Init => Serial!Init
  BY DEF Init, BoardInit, LockInit, Serial!Init
<1>2. TypeInv /\ LockInv /\ OrderInv /\ [Next]_vars
        => [Serial!Next]_(Serial!vars)
  BY StepRefines DEF SerialStep, Holder, Serial!vars
<1>3. QED
  BY <1>1, <1>2, TypeInvariant, LockInvariant, OrderInvariant, OneOperator, PTL
  DEF Spec, SerialSpec, Serial!Spec
==============================================================================

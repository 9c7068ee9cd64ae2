--------------------------- MODULE PeerMergeProofs ---------------------------
(***************************************************************************)
(* Theorems of PeerMerge for any sessions, tasks, tokens and story order.  *)
(***************************************************************************)
EXTENDS PeerMerge, TLAPS

-----------------------------------------------------------------------------
\* The steps of the two components keep the types of their variables.

LEMMA ReadClaimType ==
  ASSUME BoardTypeOK, NEW p \in Procs, NEW op \in BoardOp, NEW t \in Tasks,
         ReadClaim(p, op, t)
  PROVE  BoardTypeOK'
<1>1. claims[t] \in Claim
  BY DEF BoardTypeOK, ReadClaim, Accepts, Readable
<1>2. [op |-> op, task |-> t, rec |-> claims[t]] \in BoardCall
  BY <1>1 DEF BoardCall
<1>3. QED
  BY <1>2 DEF BoardTypeOK, ReadClaim

LEMMA WriteClaimType ==
  ASSUME BoardTypeOK, NEW p \in Procs, WriteClaim(p)
  PROVE  BoardTypeOK'
<1>1. boardCall[p] \in BoardCall
  BY DEF BoardTypeOK, WriteClaim
<1>2. ClaimAfter(boardCall[p]) \in Claim \cup {None}
  BY <1>1 DEF ClaimAfter, StateAfter, BoardCall, BoardOp, Claim, ClaimState
<1>3. QED
  BY <1>1, <1>2 DEF BoardTypeOK, WriteClaim

LEMMA LockStepType ==
  ASSUME LockTypeOK, NEW p \in Procs,
         \/ ReadForBreak(p)
         \/ Unlink(p)
         \/ Age
         \/ DropLockCall(p)
         \/ \E k \in Tokens \cup {None} : FillLock(k) \/ ReadForRelease(p, k)
  PROVE  LockTypeOK'
<1>1. lock # None => lock \in LockRecord
  BY DEF LockTypeOK
<1>2. CASE Unlink(p) \/ DropLockCall(p)
  BY <1>2 DEF Unlink, DropLockCall, LockTypeOK
<1>3. CASE ReadForBreak(p) \/ \E k \in Tokens \cup {None} : ReadForRelease(p, k)
  BY <1>1, <1>3 DEF ReadForBreak, ReadForRelease, Holds, LockTypeOK
<1>4. CASE Age
  BY <1>1, <1>4 DEF Age, LockTypeOK, LockRecord
<1>5. CASE \E k \in Tokens \cup {None} : FillLock(k)
  BY <1>1, <1>5 DEF FillLock, Holds, LockTypeOK, LockRecord
<1>6. QED
  BY <1>2, <1>3, <1>4, <1>5

LEMMA CreateLockType ==
  ASSUME LockTypeOK, NEW s \in Sessions, NEW k \in Tokens, CreateLock(s, k)
  PROVE  LockTypeOK'
BY DEF CreateLock, LockTypeOK, LockRecord

LEMMA GotoType ==
  ASSUME SessionTypeOK, NEW s \in Sessions, NEW l \in Location,
         Goto(s, l) \/ Exit(s, l)
  PROVE  SessionTypeOK'
BY DEF SessionTypeOK, Goto, Exit

\* A session that runs the finalize script works on a task.
HasTask == \A s \in Sessions : pc[s] \notin {"idle", "dead"} => task[s] \in Tasks

\* A session past the acquisition of the lock has a token.
HasToken ==
  \A s \in Sessions :
    IF token[s] = None
    THEN \/ pc[s] \in {"idle", "claiming", "working", "ordering", "locking", "dead"}
         \/ pc[s] \in {"checking", "polling"} /\ mode[s] = "serial"
    ELSE pc[s] \in {"filling", "checking", "polling", "completing", "unlocking",
                    "trapClaim", "trapLock"}

TypeInv == TypeOK /\ HasTask /\ HasToken
LEMMA TypeInit == Init => TypeInv
BY BoardConstants, LockConstants, PeerConstants, ActorsAssumption
DEF Init, BoardInit, LockInit, TypeInv, TypeOK, BoardTypeOK, LockTypeOK,
    SessionTypeOK, GithubTypeOK, HasTask, HasToken, Location, Procs, PullRequest

LEMMA ImplLoopType ==
  ASSUME TypeInv, NEW s \in Sessions, ImplLoop(s)
  PROVE  TypeInv'
<1> USE DEF TypeInv, TypeOK, HasTask, HasToken
<1> USE DEF boardVars, lockVars, githubVars, sessionVars
<1>p. s \in Procs
  BY DEF Procs
<1>a. ASSUME UNCHANGED lockVars PROVE LockTypeOK'
  BY <1>a DEF LockTypeOK
<1>b. ASSUME UNCHANGED githubVars PROVE GithubTypeOK'
  BY <1>b DEF GithubTypeOK
<1>c. ASSUME UNCHANGED boardVars PROVE BoardTypeOK'
  BY <1>c DEF BoardTypeOK
<1>d. SessionTypeOK
  OBVIOUS
<1>1. ASSUME NEW t \in Tasks, StartSerial(s, t) PROVE TypeInv'
  BY <1>1, <1>a, <1>b, <1>c, PeerConstants DEF StartSerial, SessionTypeOK, Location
<1>2. ASSUME NEW t \in Tasks, StartPeer(s, t) PROVE TypeInv'
  <2>1. BoardTypeOK'
    BY <1>p, <1>2 DEF StartPeer, CreateClaim, BoardTypeOK, Claim, ClaimState,
                      BoardCall, BoardOp
  <2>2. QED
    BY <1>2, <2>1, <1>a, <1>b DEF StartPeer, SessionTypeOK, Location
<1>3. CASE FinishClaim(s)
  <2>1. BoardTypeOK'
    BY <1>p, <1>3, WriteClaimType DEF FinishClaim
  <2>2. QED
    BY <1>3, <2>1, <1>a, <1>b DEF FinishClaim, Goto, SessionTypeOK, Location
<1>4. CASE BeginBoardCall(s)
  <2>1. task[s] \in Tasks
    BY <1>4 DEF BeginBoardCall
  <2>2. BoardTypeOK'
    BY <1>p, <1>4, <2>1, ReadClaimType DEF BeginBoardCall, BoardOp
  <2>3. QED
    BY <1>4, <2>2, <1>a, <1>b DEF BeginBoardCall, SessionTypeOK
<1>5. CASE EndBoardCall(s)
  <2>1. BoardTypeOK'
    BY <1>p, <1>5, WriteClaimType DEF EndBoardCall
  <2>2. QED
    BY <1>5, <2>1, <1>a, <1>b DEF EndBoardCall, Goto, Exit, SessionTypeOK, Location
<1>6. CASE Abandon(s)
  <2>1. SessionTypeOK'
    BY <1>6 DEF Abandon, Exit, SessionTypeOK, Location
  <2>2. HasTask' /\ HasToken'
    BY <1>6 DEF Abandon, Exit, SessionTypeOK
  <2>3. QED
    BY <1>6, <2>1, <2>2, <1>a, <1>b, <1>c DEF Abandon
<1>7. CASE FinalizeSerial(s)
  BY <1>7, <1>a, <1>b, <1>c DEF FinalizeSerial, Goto, SessionTypeOK, Location
<1>8. CASE FindClaim(s)
  BY <1>8, <1>a, <1>b, <1>c DEF FindClaim, SessionTypeOK, Location
<1>9. QED
  BY <1>1, <1>2, <1>3, <1>4, <1>5, <1>6, <1>7, <1>8 DEF ImplLoop
LEMMA FinalizeType ==
  ASSUME TypeInv, NEW s \in Sessions, Finalize(s)
  PROVE  TypeInv'
<1> USE DEF TypeInv, TypeOK, HasTask, HasToken
<1> USE DEF boardVars, lockVars, githubVars, sessionVars
<1>p. s \in Procs
  BY DEF Procs
<1>a. ASSUME UNCHANGED lockVars PROVE LockTypeOK'
  BY <1>a DEF LockTypeOK
<1>b. ASSUME UNCHANGED githubVars PROVE GithubTypeOK'
  BY <1>b DEF GithubTypeOK
<1>c. ASSUME UNCHANGED boardVars PROVE BoardTypeOK'
  BY <1>c DEF BoardTypeOK
<1>t. pc[s] \notin {"idle", "dead"} => task[s] \in Tasks
  OBVIOUS
<1>k. token[s] \in Tokens \cup {None}
  BY DEF SessionTypeOK
<1>1. CASE OrderProven(s)
  BY <1>1, <1>a, <1>b, <1>c DEF OrderProven, Goto, SessionTypeOK, Location
<1>2. CASE OrderBlocked(s)
  BY <1>2, <1>a, <1>b, <1>c DEF OrderBlocked, Exit, SessionTypeOK, Location
<1>3. CASE Acquire(s)
  <2>1. LockTypeOK'
    BY <1>3, CreateLockType DEF Acquire
  <2>2. QED
    BY <1>3, <2>1, <1>b, <1>c, LockConstants
    DEF Acquire, SessionTypeOK, Location
<1>4. CASE LockBusy(s)
  BY <1>4, <1>a, <1>b, <1>c DEF LockBusy, Exit, SessionTypeOK, Location
<1>5. CASE FillAcquired(s)
  <2>1. LockTypeOK'
    BY <1>p, <1>k, <1>5, LockStepType DEF FillAcquired
  <2>2. QED
    BY <1>5, <2>1, <1>b, <1>c DEF FillAcquired, Goto, SessionTypeOK, Location
<1>6. CASE RequestMerge(s)
  <2>1. task[s] \in Tasks /\ <<s, task[s]>> \in PullRequest
    BY <1>6, <1>t DEF RequestMerge, PullRequest
  <2>2. GithubTypeOK'
    BY <1>6, <2>1 DEF RequestMerge, GithubTypeOK
  <2>3. QED
    BY <1>6, <2>2, <1>a, <1>c DEF RequestMerge, Goto, SessionTypeOK, Location
<1>7. CASE FailFinalize(s)
  BY <1>7, <1>a, <1>b, <1>c DEF FailFinalize, Goto, Exit, SessionTypeOK, Location
<1>8. CASE SeeMerged(s)
  BY <1>8, <1>a, <1>b, <1>c DEF SeeMerged, Goto, Exit, SessionTypeOK, Location
<1>9. CASE BeginComplete(s)
  <2>1. BoardTypeOK'
    BY <1>p, <1>9, <1>t, ReadClaimType DEF BeginComplete, BoardOp
  <2>2. QED
    BY <1>9, <2>1, <1>a, <1>b DEF BeginComplete, SessionTypeOK
<1>10. CASE EndComplete(s)
  <2>1. BoardTypeOK'
    BY <1>p, <1>10, WriteClaimType DEF EndComplete
  <2>2. QED
    BY <1>10, <2>1, <1>a, <1>b DEF EndComplete, Goto, SessionTypeOK, Location
<1>11. CASE CompleteFails(s)
  BY <1>11, <1>a, <1>b, <1>c DEF CompleteFails, Goto, SessionTypeOK, Location
<1>12. CASE BeginTrapClaim(s)
  <2>1. BoardTypeOK'
    BY <1>p, <1>12, <1>t, ReadClaimType DEF BeginTrapClaim, BoardOp
  <2>2. QED
    BY <1>12, <2>1, <1>a, <1>b DEF BeginTrapClaim, SessionTypeOK
<1>13. CASE EndTrapClaim(s)
  <2>1. BoardTypeOK'
    BY <1>p, <1>13, WriteClaimType DEF EndTrapClaim
  <2>2. QED
    BY <1>13, <2>1, <1>a, <1>b DEF EndTrapClaim, Goto, SessionTypeOK, Location
<1>14. CASE TrapKeepsCompleted(s)
  BY <1>14, <1>a, <1>b, <1>c DEF TrapKeepsCompleted, Goto, SessionTypeOK, Location
<1>15. CASE TrapFails(s)
  BY <1>15, <1>a, <1>b, <1>c DEF TrapFails, Exit, SessionTypeOK, Location
<1>16. CASE BeginUnlock(s)
  <2>1. LockTypeOK'
    BY <1>p, <1>k, <1>16, LockStepType DEF BeginUnlock
  <2>2. QED
    BY <1>16, <2>1, <1>b, <1>c DEF BeginUnlock, SessionTypeOK
<1>17. CASE EndUnlock(s)
  <2>1. LockTypeOK'
    BY <1>p, <1>17, LockStepType DEF EndUnlock
  <2>2. QED
    BY <1>17, <2>1, <1>b, <1>c
    DEF EndUnlock, AfterUnlock, Exit, SessionTypeOK, Location
<1>18. CASE NothingToUnlock(s)
  BY <1>18, <1>a, <1>b, <1>c
  DEF NothingToUnlock, AfterUnlock, Exit, SessionTypeOK, Location
<1>19. QED
  BY <1>1, <1>2, <1>3, <1>4, <1>5, <1>6, <1>7, <1>8, <1>9, <1>10, <1>11, <1>12,
     <1>13, <1>14, <1>15, <1>16, <1>17, <1>18 DEF Finalize

LEMMA EnvironmentType ==
  ASSUME TypeInv,
         \/ \E s \in Sessions : Kill(s)
         \/ \E o \in Operators : Recovery(o)
         \/ \E pr \in PullRequest : LateMerge(pr)
         \/ LockAges
         \/ UNCHANGED vars
  PROVE  TypeInv'
<1> USE DEF TypeInv, TypeOK, HasTask, HasToken
<1> USE DEF boardVars, lockVars, githubVars, sessionVars
<1>1. ASSUME NEW s \in Sessions, Kill(s) PROVE TypeInv'
  <2>1. BoardTypeOK' /\ LockTypeOK' /\ GithubTypeOK'
    BY <1>1 DEF Kill, DropBoardCall, DropLockCall, BoardTypeOK, LockTypeOK,
                GithubTypeOK
  <2>2. SessionTypeOK'
    BY <1>1, GotoType DEF Kill, Location
  <2>3. HasTask' /\ HasToken'
    BY <1>1 DEF Kill, Exit, SessionTypeOK
  <2>4. QED
    BY <2>1, <2>2, <2>3
<1>2. ASSUME NEW o \in Operators, Recovery(o) PROVE TypeInv'
  <2>p. o \in Procs
    BY DEF Procs
  <2>1. ASSUME NEW t \in Tasks, BeginReclaim(o, t) PROVE TypeInv'
    <3>1. BoardTypeOK'
      BY <2>p, <2>1, ReadClaimType DEF BeginReclaim, BoardOp
    <3>2. QED
      BY <2>1, <3>1 DEF BeginReclaim, LockTypeOK, SessionTypeOK, GithubTypeOK
  <2>2. CASE EndReclaim(o)
    <3>1. BoardTypeOK'
      BY <2>p, <2>2, WriteClaimType DEF EndReclaim
    <3>2. QED
      BY <2>2, <3>1 DEF EndReclaim, LockTypeOK, SessionTypeOK, GithubTypeOK
  <2>3. CASE BeginBreak(o) \/ EndBreak(o)
    <3>1. LockTypeOK'
      BY <2>p, <2>3, LockStepType DEF BeginBreak, EndBreak
    <3>2. QED
      BY <2>3, <3>1 DEF BeginBreak, EndBreak, BoardTypeOK, SessionTypeOK,
                        GithubTypeOK
  <2>4. QED
    BY <1>2, <2>1, <2>2, <2>3 DEF Recovery
<1>3. ASSUME NEW pr \in PullRequest, LateMerge(pr) PROVE TypeInv'
  BY <1>3 DEF LateMerge, BoardTypeOK, LockTypeOK, SessionTypeOK, GithubTypeOK
<1>4. CASE LockAges
  <2>1. LockTypeOK'
    BY <1>4 DEF LockAges, Age, LockTypeOK, LockRecord
  <2>2. QED
    BY <1>4, <2>1 DEF LockAges, BoardTypeOK, SessionTypeOK, GithubTypeOK
<1>5. CASE UNCHANGED vars
  BY <1>5 DEF vars, BoardTypeOK, LockTypeOK, SessionTypeOK, GithubTypeOK
<1>6. QED
  BY <1>1, <1>2, <1>3, <1>4, <1>5

LEMMA TypeInvariant == Spec => []TypeInv
<1>1. TypeInv /\ [Next]_vars => TypeInv'
  BY ImplLoopType, FinalizeType, EnvironmentType DEF Next
<1>2. QED
  BY TypeInit, <1>1, PTL DEF Spec

\* Every variable keeps its type, through every interleaving of the calls.
THEOREM TypeCorrect == Spec => []TypeOK
BY TypeInvariant, PTL DEF TypeInv

-----------------------------------------------------------------------------
\* With one operator, who breaks only dead holders' locks, no unlink removes a
\* lock that somebody still relies on.

OneOperator == \A o1, o2 \in Operators : o1 = o2

StageOwnsLock ==
  \A s \in Sessions : token[s] # None => Holds(token[s]) /\ lock.owner = s

\* A session unlinks only while it is in the stage ...
ReleasingInStage ==
  \A s \in Sessions : lockCall[s] # None => pc[s] \in {"unlocking", "trapLock"}

\* ... and an operator only while the lock of a dead session is still there.
BreakingDeadLock ==
  \A o \in Operators :
    lockCall[o] # None => lock # None /\ pc[lock.owner] = "dead"

LockInv == StageOwnsLock /\ ReleasingInStage /\ BreakingDeadLock

LEMMA LockInvInit == Init => LockInv
BY LockConstants DEF Init, BoardInit, LockInit, LockInv, StageOwnsLock,
   ReleasingInStage, BreakingDeadLock, Procs

\* Steps that leave the lock alone and move a session within or outside the
\* merge stage.
LEMMA LockInvFrame ==
  ASSUME TypeInv, LockInv, NEW s \in Sessions, NEW l \in Location,
         UNCHANGED lockVars, pc' = [pc EXCEPT ![s] = l],
         token' = token \/ token' = [token EXCEPT ![s] = None],
         pc[s] # "dead",
         lockCall[s] = None \/ l = pc[s]
  PROVE  LockInv'
<1> USE DEF lockVars, TypeInv, TypeOK, SessionTypeOK
<1>1. StageOwnsLock'
  BY DEF LockInv, StageOwnsLock, Holds
<1>2. ReleasingInStage'
  BY DEF LockInv, ReleasingInStage
<1>3. BreakingDeadLock'
  BY DEF LockInv, BreakingDeadLock, LockTypeOK, LockRecord
<1>4. QED
  BY <1>1, <1>2, <1>3 DEF LockInv

LEMMA ImplLoopLock ==
  ASSUME TypeInv, LockInv, NEW s \in Sessions, ImplLoop(s)
  PROVE  LockInv'
<1> USE DEF TypeInv, TypeOK, SessionTypeOK, sessionVars, Goto, Exit
<1>1. pc[s] \in {"idle", "claiming", "working"}
  BY DEF ImplLoop, StartSerial, StartPeer, FinishClaim, BeginBoardCall,
         EndBoardCall, Abandon, FinalizeSerial, FindClaim
<1>2. lockCall[s] = None
  BY <1>1 DEF LockInv, ReleasingInStage
<1>3. UNCHANGED lockVars
  BY DEF ImplLoop, StartSerial, StartPeer, FinishClaim, BeginBoardCall,
         EndBoardCall, Abandon, FinalizeSerial, FindClaim, lockVars
<1>4. \E l \in Location : pc' = [pc EXCEPT ![s] = l]
  BY DEF ImplLoop, StartSerial, StartPeer, FinishClaim, BeginBoardCall,
         EndBoardCall, Abandon, FinalizeSerial, FindClaim, Location
<1>5. token' = token \/ token' = [token EXCEPT ![s] = None]
  BY DEF ImplLoop, StartSerial, StartPeer, FinishClaim, BeginBoardCall,
         EndBoardCall, Abandon, FinalizeSerial, FindClaim
<1>6. QED
  BY <1>1, <1>2, <1>3, <1>4, <1>5, LockInvFrame

\* The steps of pr-finalize.sh that do not touch the lock file.
OffLock(s) ==
  \/ OrderProven(s) \/ OrderBlocked(s) \/ LockBusy(s) \/ RequestMerge(s)
  \/ FailFinalize(s) \/ SeeMerged(s) \/ BeginComplete(s) \/ EndComplete(s)
  \/ CompleteFails(s) \/ BeginTrapClaim(s) \/ EndTrapClaim(s)
  \/ TrapKeepsCompleted(s) \/ TrapFails(s) \/ NothingToUnlock(s)

LEMMA OffLockLock ==
  ASSUME TypeInv, LockInv, NEW s \in Sessions, OffLock(s)
  PROVE  LockInv'
<1> USE DEF TypeInv, TypeOK, SessionTypeOK, sessionVars, Goto, Exit, OffLock
<1> USE DEF OrderProven, OrderBlocked, LockBusy, RequestMerge, FailFinalize,
            SeeMerged, BeginComplete, EndComplete, CompleteFails,
            BeginTrapClaim, EndTrapClaim, TrapKeepsCompleted, TrapFails,
            NothingToUnlock, AfterUnlock
<1>1. pc[s] # "dead"
  OBVIOUS
<1>2. lockCall[s] = None
  BY DEF LockInv, ReleasingInStage
<1>3. UNCHANGED lockVars
  BY DEF lockVars
<1>4. \E l \in Location : pc' = [pc EXCEPT ![s] = l]
  BY DEF Location
<1>5. token' = token \/ token' = [token EXCEPT ![s] = None]
  OBVIOUS
<1>6. QED
  BY <1>1, <1>2, <1>3, <1>4, <1>5, LockInvFrame

LEMMA OnLockLock ==
  ASSUME TypeInv, LockInv, NEW s \in Sessions,
         Acquire(s) \/ FillAcquired(s) \/ BeginUnlock(s) \/ EndUnlock(s)
  PROVE  LockInv'
<1> USE DEF TypeInv, TypeOK, SessionTypeOK
<1>p. s \in Procs /\ \A o \in Operators : o \in Procs /\ o # s
  BY ActorsAssumption DEF Procs
<1>q. \A r \in Sessions : r \in Procs
  BY DEF Procs
<1>1. CASE Acquire(s)
  <2>1. PICK k \in Tokens : /\ CreateLock(s, k)
                            /\ token' = [token EXCEPT ![s] = k]
    BY <1>1 DEF Acquire
  <2>2. \A r \in Sessions : token[r] = None
    BY <2>1 DEF CreateLock, LockInv, StageOwnsLock, Holds
  <2>r. lock' = [token |-> k, owner |-> s, written |-> FALSE, stale |-> FALSE]
    BY <2>1 DEF CreateLock
  <2>n. lock' \in LockRecord
    BY <2>r DEF LockRecord
  <2>a. lock' # None /\ lock'.token = k /\ lock'.owner = s
    BY <2>n, <2>r, LockConstants
  <2>3. StageOwnsLock'
    BY <2>1, <2>2, <2>a DEF StageOwnsLock, Holds
  <2>4. ReleasingInStage'
    BY <1>1, <2>1 DEF Acquire, CreateLock, LockInv, ReleasingInStage
  <2>5. BreakingDeadLock'
    BY <2>1 DEF CreateLock, LockInv, BreakingDeadLock
  <2>6. QED
    BY <2>3, <2>4, <2>5 DEF LockInv
<1>2. CASE FillAcquired(s)
  <2>1. lock # None => lock \in LockRecord
    BY DEF LockTypeOK
  <2>2. StageOwnsLock' /\ BreakingDeadLock'
    BY <1>2, <2>1, LockConstants DEF FillAcquired, FillLock, Goto, Holds, LockInv,
       StageOwnsLock, BreakingDeadLock, LockRecord
  <2>3. ReleasingInStage'
    BY <1>2 DEF FillAcquired, FillLock, Goto, LockInv, ReleasingInStage
  <2>4. QED
    BY <2>2, <2>3 DEF LockInv
<1>3. CASE BeginUnlock(s)
  BY <1>3, <1>p, <1>q DEF BeginUnlock, ReadForRelease, sessionVars, LockInv,
     StageOwnsLock, Holds, ReleasingInStage, BreakingDeadLock, LockTypeOK
<1>4. CASE EndUnlock(s)
  <2>1. token[s] # None /\ lock.owner = s /\ pc[s] # "dead"
    BY <1>4 DEF EndUnlock, Unlink, LockInv, StageOwnsLock, HasToken
  <2>2. \A r \in Sessions : r # s => token[r] = None
    BY <2>1 DEF LockInv, StageOwnsLock
  <2>3. \A o \in Operators : lockCall[o] = None
    BY <2>1 DEF LockInv, BreakingDeadLock
  <2>4. StageOwnsLock'
    BY <1>4, <2>2 DEF EndUnlock, Exit, StageOwnsLock
  <2>5. ReleasingInStage'
    BY <1>4, <1>p, <1>q DEF EndUnlock, Unlink, Exit, LockInv, ReleasingInStage,
       LockTypeOK
  <2>6. BreakingDeadLock'
    BY <1>4, <1>p, <2>3 DEF EndUnlock, Unlink, BreakingDeadLock, LockTypeOK
  <2>7. QED
    BY <2>4, <2>5, <2>6 DEF LockInv
<1>5. QED
  BY <1>1, <1>2, <1>3, <1>4

LEMMA EnvironmentLock ==
  ASSUME OneOperator, TypeInv, LockInv,
         \/ \E s \in Sessions : Kill(s)
         \/ \E o \in Operators : Recovery(o)
         \/ \E pr \in PullRequest : LateMerge(pr)
         \/ LockAges
         \/ UNCHANGED vars
  PROVE  LockInv'
<1> USE DEF TypeInv, TypeOK, SessionTypeOK
<1>p. /\ \A s \in Sessions : s \in Procs
      /\ \A o \in Operators : o \in Procs /\ o \notin Sessions
  BY ActorsAssumption DEF Procs
<1>l. lock # None => lock \in LockRecord
  BY DEF LockTypeOK
<1>1. ASSUME NEW s \in Sessions, Kill(s) PROVE LockInv'
  <2>1. StageOwnsLock'
    BY <1>1 DEF Kill, Exit, DropLockCall, LockInv, StageOwnsLock, Holds
  <2>2. ReleasingInStage'
    BY <1>1, <1>p DEF Kill, Exit, DropLockCall, LockInv, ReleasingInStage, LockTypeOK
  <2>3. BreakingDeadLock'
    BY <1>1, <1>p, <1>l DEF Kill, Exit, DropLockCall, LockInv, BreakingDeadLock,
       LockTypeOK, LockRecord
  <2>4. QED
    BY <2>1, <2>2, <2>3 DEF LockInv
<1>2. ASSUME NEW o \in Operators, Recovery(o) PROVE LockInv'
  <2>1. CASE EndReclaim(o) \/ \E t \in Tasks : BeginReclaim(o, t)
    BY <2>1 DEF EndReclaim, BeginReclaim, lockVars, sessionVars, LockInv,
       StageOwnsLock, Holds, ReleasingInStage, BreakingDeadLock
  <2>2. CASE BeginBreak(o)
    BY <2>2, <1>p DEF BeginBreak, ReadForBreak, sessionVars, LockInv,
       StageOwnsLock, Holds, ReleasingInStage, BreakingDeadLock, LockTypeOK
  <2>3. CASE EndBreak(o)
    <3>1. lock # None /\ pc[lock.owner] = "dead"
      BY <2>3 DEF EndBreak, Unlink, LockInv, BreakingDeadLock
    <3>2. \A s \in Sessions : token[s] = None
      BY <3>1 DEF LockInv, StageOwnsLock, HasToken
    <3>3. StageOwnsLock'
      BY <2>3, <3>2 DEF EndBreak, sessionVars, StageOwnsLock
    <3>4. ReleasingInStage'
      BY <2>3, <1>p DEF EndBreak, Unlink, sessionVars, LockInv, ReleasingInStage,
         LockTypeOK
    <3>5. BreakingDeadLock'
      BY <2>3, <1>p DEF EndBreak, Unlink, BreakingDeadLock, OneOperator, LockTypeOK
    <3>6. QED
      BY <3>3, <3>4, <3>5 DEF LockInv
  <2>4. QED
    BY <1>2, <2>1, <2>2, <2>3 DEF Recovery
<1>3. ASSUME NEW pr \in PullRequest, LateMerge(pr) PROVE LockInv'
  BY <1>3 DEF LateMerge, lockVars, sessionVars, LockInv, StageOwnsLock, Holds,
     ReleasingInStage, BreakingDeadLock
<1>4. CASE LockAges
  <2>1. /\ lock # None /\ lock' # None
        /\ lock'.token = lock.token /\ lock'.owner = lock.owner
    BY <1>4, <1>l, LockConstants DEF LockAges, Age, LockRecord
  <2>2. UNCHANGED <<pc, token, lockCall>>
    BY <1>4 DEF LockAges, Age, sessionVars
  <2>3. QED
    BY <2>1, <2>2 DEF LockInv, StageOwnsLock, Holds, ReleasingInStage,
       BreakingDeadLock
<1>5. CASE UNCHANGED vars
  BY <1>5 DEF vars, lockVars, sessionVars, LockInv, StageOwnsLock, Holds,
     ReleasingInStage, BreakingDeadLock
<1>6. QED
  BY <1>1, <1>2, <1>3, <1>4, <1>5

LEMMA LockInvariant ==
  ASSUME OneOperator
  PROVE  Spec => []LockInv
<1>1. TypeInv /\ LockInv /\ [Next]_vars => LockInv'
  <2> SUFFICES ASSUME TypeInv, LockInv, [Next]_vars PROVE LockInv'
    OBVIOUS
  <2>1. ASSUME NEW s \in Sessions, Finalize(s) PROVE LockInv'
    BY <2>1, OffLockLock, OnLockLock DEF Finalize, OffLock
  <2>2. QED
    BY <2>1, ImplLoopLock, EnvironmentLock, OneOperator DEF Next
<1>2. QED
  BY LockInvInit, TypeInvariant, <1>1, PTL DEF Spec

\* A session in the merge stage has the lock file, and it is its own.
THEOREM StageKeepsLock ==
  ASSUME OneOperator
  PROVE  Spec => []StageHoldsLock
<1>1. LockInv => StageHoldsLock
  BY DEF LockInv, StageOwnsLock, StageHoldsLock, InMergeStage
<1>2. QED
  BY LockInvariant, <1>1, PTL

\* The merge stage is serialized: acquire's O_EXCL, the token check of release
\* and the dead-holder rule of break together leave one session in the stage.
THEOREM MergeStageExclusive ==
  ASSUME OneOperator
  PROVE  Spec => []MutualExclusion
<1>1. LockInv => MutualExclusion
  BY DEF LockInv, StageOwnsLock, MutualExclusion, InMergeStage
<1>2. QED
  BY LockInvariant, <1>1, PTL
==============================================================================

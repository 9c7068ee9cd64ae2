-------------------------- MODULE CloseSequenceProofs ------------------------
(***************************************************************************)
(* Proofs about CloseSequence, for any steps, commits and reports and for  *)
(* runs of any length: types; what the Stop hook needs to end a run; the   *)
(* boundary BLOCK under kills.  The candidate of a receipt is recorded     *)
(* from whatever step is current, so the first of them rests on an         *)
(* invariant that ties candidates to the commits the steps were begun on,  *)
(* and on a main session that ends the steps it began.                     *)
(***************************************************************************)
EXTENDS CloseSequence, TLAPS

\* What the receipts say is where the steps were begun.
FrozenTrue ==
  /\ step # None => step.fresh /\ (step.cand # None => step.from = step.cand)
  /\ \A k \in Kinds :
       last[k] # None /\ last[k].cand # None => last[k].from = last[k].cand

LEMMA CloseTypes == Init => TypeOK
<1>1. [started |-> {}, decision |-> "none", merged |-> {}, finished |-> FALSE] \in Logged
  BY DEF Logged
<1>. QED
  BY <1>1, CloseConstants DEF Init, TypeOK

\* The variables keep their types.  A step is a record of the step's type, and so
\* is a receipt.
LEMMA CloseTypesStep == TypeOK /\ [Next]_vars => TypeOK'
<1>. SUFFICES ASSUME TypeOK, [Next]_vars PROVE TypeOK'
  OBVIOUS
<1>. USE CloseConstants DEF TypeOK
<1>1. CASE Edit
  BY <1>1 DEF Edit, slot, receipts
<1>2. ASSUME NEW h \in Heads, Commit(h) PROVE TypeOK'
  BY <1>2 DEF Commit, slot, receipts
<1>3. CASE RecordMerge
  BY <1>3 DEF RecordMerge, slot, receipts, Logged
<1>4. CASE RemoveWorktree
  BY <1>4 DEF RemoveWorktree, slot, receipts
<1>5. CASE MarkRequired
  BY <1>5 DEF MarkRequired, receipts
<1>6. ASSUME NEW k \in Kinds, BeginStep(k) PROVE TypeOK'
  <2>1. step' \in Step
    BY <1>6 DEF BeginStep, Step, Freezes, CloseKinds
  <2>2. logged' \in Logged
    BY <1>6 DEF BeginStep, Logged, CloseKinds
  <2>. QED
    BY <1>6, <2>1, <2>2 DEF BeginStep, receipts, Open
<1>7. ASSUME NEW k \in Kinds, NEW t \in Texts, EndStep(k, t) PROVE TypeOK'
  <2>. DEFINE r == [cand |-> IF step = None THEN None ELSE step.cand, text |-> t,
                    from |-> IF step # None /\ step.kind = k THEN step.from ELSE None]
  <2>1. r \in Receipt
    BY DEF Receipt, Step
  <2>2. last' = [last EXCEPT ![k] = r]
    BY <1>7 DEF EndStep
  <2>3. last' \in [Kinds -> Receipt \cup {None}]
    BY <2>1, <2>2
  <2>4. step' \in Step \cup {None}
    BY <1>7 DEF EndStep, Step
  <2>5. first' \in [Kinds \ {"validator"} -> Texts \cup {None}]
    BY <1>7 DEF EndStep
  <2>6. logged' \in Logged
    BY <1>7 DEF EndStep, Logged
  <2>. QED
    BY <1>7, <2>3, <2>4, <2>5, <2>6 DEF EndStep, Open
<1>8. ASSUME NEW torn \in BOOLEAN, BoundaryBlock(torn) PROVE TypeOK'
  BY <1>8 DEF BoundaryBlock, receipts, Logged
<1>9. ASSUME NEW torn \in BOOLEAN, AcceptBlock(torn) PROVE TypeOK'
  BY <1>9 DEF AcceptBlock, receipts, Logged
<1>10. ASSUME NEW by \in {"main", "stop"}, NEW torn \in BOOLEAN, Open, Complete(by, torn)
       PROVE TypeOK'
  BY <1>10 DEF Complete, receipts, Logged, Open
<1>11. CASE UNCHANGED vars
  BY <1>11 DEF vars, slot, receipts
<1>. QED
  BY <1>1, <1>2, <1>3, <1>4, <1>5, <1>6, <1>7, <1>8, <1>9, <1>10, <1>11
     DEF Next, AgentsWork, Main, Stop, EndRun, StopCloses, StopDecides

\* The slot, the answers of the ledger and the worktree keep their types.
THEOREM CloseTypeCorrect == Spec => []TypeOK
BY CloseTypes, CloseTypesStep, PTL DEF Spec

-----------------------------------------------------------------------------
\* A receipt of a main session that ends the steps it began names the commit on
\* which its step was begun.
LEMMA FrozenStep ==
  ASSUME Careless = FALSE, TypeOK, FrozenTrue, [Next]_vars
  PROVE  FrozenTrue'
<1>. USE CloseConstants DEF TypeOK, FrozenTrue
<1>1. ASSUME UNCHANGED <<step, last>> PROVE FrozenTrue'
  BY <1>1
<1>2. ASSUME NEW k \in Kinds, BeginStep(k) PROVE FrozenTrue'
  BY <1>2 DEF BeginStep, Freezes, receipts
<1>3. ASSUME NEW k \in Kinds, NEW t \in Texts, EndStep(k, t) PROVE FrozenTrue'
  <2>1. step # None /\ step.kind = k
    BY <1>3 DEF EndStep
  <2>2. last' = [last EXCEPT ![k] = [cand |-> step.cand, text |-> t, from |-> step.from]]
    BY <1>3, <2>1 DEF EndStep
  <2>3. step' = None
    BY <1>3, <2>1 DEF EndStep
  <2>4. \A j \in Kinds : j # k => last'[j] = last[j]
    BY <2>2
  <2>5. last'[k].from = step.from /\ last'[k].cand = step.cand
    BY <2>2
  <2>. QED
    BY <2>1, <2>3, <2>4, <2>5
<1>4. ASSUME NEW by \in {"main", "stop"}, NEW torn \in BOOLEAN, Complete(by, torn)
      PROVE FrozenTrue'
  BY <1>4 DEF Complete, receipts
<1>. QED
  BY <1>1, <1>2, <1>3, <1>4
     DEF Next, AgentsWork, Main, Stop, EndRun, StopCloses, vars, slot, receipts,
         Edit, Commit, RecordMerge, RemoveWorktree, MarkRequired, BoundaryBlock, AcceptBlock

LEMMA FrozenAlways ==
  ASSUME Careless = FALSE
  PROVE  Spec => [](TypeOK /\ FrozenTrue)
<1>1. Init => FrozenTrue
  BY DEF Init, FrozenTrue
<1>2. TypeOK /\ FrozenTrue /\ [Next]_vars => FrozenTrue'
  BY FrozenStep
<1>. QED
  BY <1>1, <1>2, CloseTypes, CloseTypesStep, PTL DEF Spec

\* The Stop hook ends a run that needs acceptance only on the evidence of one
\* commit: its last review and its last acceptance were begun there, both say
\* PASS, and the worktree holds it or it was merged.
THEOREM CloseIsVerified ==
  ASSUME Careless = FALSE
  PROVE  Spec => CloseVerified
<1>. DEFINE Evidence ==
       StopEndsRun /\ required =>
         \E h \in Heads :
           /\ \A k \in CloseKinds :
                /\ last[k] # None
                /\ last[k].from = h
                /\ Verdict[last[k].text] = "PASS"
           /\ tree = h \/ (tree = "gone" /\ h \in logged.merged)
<1>1. ASSUME TypeOK, FrozenTrue, [Next]_vars, StopEndsRun, required PROVE Evidence
  <2>1. PICK probe \in BOOLEAN, torn \in BOOLEAN : StopCloses(probe, torn)
    BY <1>1 DEF Next, AgentsWork, Main, Stop, StopEndsRun, Edit, Commit, RecordMerge,
       RemoveWorktree, MarkRequired, BeginStep, EndStep, BoundaryBlock, AcceptBlock,
       EndRun, Complete, vars
  <2>2. Judged /\ CloseStatus(probe) = "pass"
    BY <1>1, <2>1 DEF StopCloses, Judged
  <2>. DEFINE v == last["validator"]
              a == last["acceptance"]
  <2>3. /\ v # None /\ a # None
        /\ Verdict[v.text] = "PASS" /\ Verdict[a.text] = "PASS"
        /\ v.cand # None /\ v.cand = a.cand
        /\ WorkspaceStatus(v.cand, probe) = "pass"
    BY <2>2 DEF CloseStatus
  <2>4. tree = v.cand \/ (tree = "gone" /\ v.cand \in logged.merged)
    BY <2>3 DEF WorkspaceStatus
  <2>5. v.cand \in Heads
    BY <1>1, <2>3, CloseConstants DEF TypeOK, Receipt, CloseKinds
  <2>6. v.from = v.cand /\ a.from = v.cand
    BY <1>1, <2>3, CloseConstants DEF FrozenTrue, CloseKinds
  <2>. QED
    BY <2>3, <2>4, <2>5, <2>6 DEF CloseKinds
<1>2. TypeOK /\ FrozenTrue /\ [Next]_vars => [Evidence]_vars
  BY <1>1
<1>3. Spec => [](TypeOK /\ FrozenTrue)
  BY FrozenAlways
<1>. QED
  BY <1>2, <1>3, PTL DEF Spec, CloseVerified

\* The Stop hook never ends a run in the middle of a step.
THEOREM StopLeavesWorkAlone ==
  ASSUME Careless = FALSE
  PROVE  Spec => StopLeavesWork
<1>1. TypeOK /\ FrozenTrue /\ [Next]_vars => [StopEndsRun => step = None]_vars
  BY DEF FrozenTrue, Next, AgentsWork, Main, Stop, StopEndsRun, Edit, Commit, RecordMerge,
     RemoveWorktree, MarkRequired, BeginStep, EndStep, BoundaryBlock, AcceptBlock,
     EndRun, Complete, StopCloses, StopDecides, AtRest, vars
<1>2. Spec => [](TypeOK /\ FrozenTrue)
  BY FrozenAlways
<1>. QED
  BY <1>1, <1>2, PTL DEF Spec, StopLeavesWork

\* Between a boundary BLOCK and the user's decision no step begins, whichever of
\* the processes that recorded them was killed between ledger and slot.
THEOREM BoundaryIsRespected == Spec => BoundaryRespected
<1>1. TypeOK /\ [Next]_vars =>
        [step' # step /\ step' # None /\ step'.fresh => logged.decision # "blocked"]_vars
  <2>. SUFFICES ASSUME TypeOK, Next, step' # step, step' # None, step'.fresh
                PROVE  logged.decision # "blocked"
    BY DEF vars
  <2>1. \A k \in Kinds, t \in Texts : ~EndStep(k, t)
    BY DEF EndStep, TypeOK, Step
  <2>2. PICK k \in Kinds : BeginStep(k)
    BY <2>1 DEF Next, AgentsWork, Main, Stop, Edit, Commit, RecordMerge, RemoveWorktree,
       MarkRequired, BoundaryBlock, AcceptBlock, EndRun, Complete, StopCloses, slot
  <2>. QED
    BY <2>2 DEF BeginStep, GateAllows, BoundaryBlocked
<1>. QED
  BY <1>1, CloseTypeCorrect, PTL DEF Spec, BoundaryRespected
==============================================================================

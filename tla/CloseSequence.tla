----------------------------- MODULE CloseSequence ---------------------------
(***************************************************************************)
(* The end of an impl run: the order gate and the candidate freeze of      *)
(* begin-step, end-step, the boundary BLOCK of a headless worker and its   *)
(* acceptance, and the Stop hook, which ends a run by itself when the      *)
(* review and the acceptance of one frozen candidate have passed           *)
(* (harness/session_state.py, session_state_cli.py, hooks.py).             *)
(*                                                                         *)
(* Workspace, commits and merges belong to the agents and to git; the      *)
(* program only probes them.  A candidate (HEAD, tree and root) is one     *)
(* commit of the run's worktree, and a worktree with tracked changes has   *)
(* none.  The ledger, which only grows, is kept as *)
(* the answers that are drawn from it, so runs of any length are covered.  *)
(* `from` is what the code does not record: the commit on which a step was *)
(* begun, whatever its receipt says.                                       *)
(***************************************************************************)
EXTENDS FiniteSets, Verdicts

CONSTANTS
  None,
  Kinds,        \* the steps of this run
  Heads,        \* commits of the worktree
  Texts,        \* the reports that agents write
  LaneLite,     \* the run was begun with --lane lite or a design document
  Careless      \* main may end a step that it did not begin

VARIABLES
  tree,                \* the worktree: a clean commit, "dirty" or "gone"
  required,            \* slot.acceptance_required
  step,                \* slot.current_step, or None
  blocked,             \* slot.blocked
  completed,           \* slot.completed_at
  last,                \* last[k]: the last receipt of step k, or None
  first,               \* first[k]: the report of its first receipt, or None (k is
                       \* not the validator, whose first report nobody reads)
  latest,              \* the step of the last receipt of all, or None
  logged,              \* the other answers of the ledger
  closer               \* who ended the run: "nobody", "main" or "stop"

slot == <<required, step, blocked, completed>>
receipts == <<last, first, latest>>
vars == <<tree, slot, receipts, logged, closer>>

CloseKinds == {"validator", "acceptance"}
AllKinds == CloseKinds \cup {"sanity", "architect", "worker"}

\* A step is fresh until a receipt follows it (steps_count_at_begin).
Step == [kind : Kinds, cand : Heads \cup {None}, fresh : BOOLEAN,
         from : Heads \cup {None}]

Receipt == [cand : Heads \cup {None}, text : Texts, from : Heads \cup {None}]

\* started: the close steps with a step_started; decision: the last word on a
\* boundary BLOCK; merged: what pr_merged names after the last acceptance;
\* finished: there is a run_finished.
Logged == [started : SUBSET CloseKinds, decision : {"none", "blocked", "accepted"},
           merged : SUBSET Heads, finished : BOOLEAN]

ASSUME CloseConstants ==
  /\ CloseKinds \subseteq Kinds /\ Kinds \subseteq AllKinds /\ None \notin Kinds
  /\ Heads \cap {"dirty", "gone", None} = {} /\ None \notin Texts
  /\ None \notin Step /\ None \notin Receipt
  /\ LaneLite \in BOOLEAN /\ Careless \in BOOLEAN

\* The slot, the ledger's answers and the workspace stay within their types; a
\* completed slot has no step.
TypeOK ==
  /\ tree \in Heads \cup {"dirty", "gone"}
  /\ required \in BOOLEAN /\ blocked \in BOOLEAN
  /\ step \in Step \cup {None}
  /\ completed \in BOOLEAN
  /\ last \in [Kinds -> Receipt \cup {None}]
  /\ first \in [Kinds \ {"validator"} -> Texts \cup {None}]
  /\ latest \in Kinds \cup {None}
  /\ logged \in Logged
  /\ closer \in {"nobody", "main", "stop"}
  /\ completed => step = None

Init ==
  /\ tree \in Heads
  /\ required \in BOOLEAN
  /\ step = None /\ blocked = FALSE
  /\ completed = FALSE
  /\ last = [k \in Kinds |-> None]
  /\ first = [k \in Kinds \ {"validator"} |-> None]
  /\ latest = None
  /\ logged = [started |-> {}, decision |-> "none", merged |-> {}, finished |-> FALSE]
  /\ closer = "nobody"

\* What the gate and the Stop hook read in a report.
Verdict == [t \in Texts |-> Conclusion(t)]

\* Commands resolve to the run while its slot is not completed.
Open == ~completed

-----------------------------------------------------------------------------
\* The agents' work, and what pr-finalize does at the end.  None of it asks the
\* run; what happens to the worktree of a completed run is left out.

Edit ==
  /\ Open /\ tree \in Heads
  /\ tree' = "dirty"
  /\ UNCHANGED <<slot, receipts, logged, closer>>

Commit(h) ==
  /\ Open /\ tree \notin {h, "gone"}
  /\ tree' = h
  /\ UNCHANGED <<slot, receipts, logged, closer>>

\* ledger-event pr_merged --head-sha
RecordMerge ==
  /\ Open /\ tree \in Heads
  /\ logged' = [logged EXCEPT !.merged = @ \cup {tree}]
  /\ UNCHANGED <<tree, slot, receipts, closer>>

RemoveWorktree ==
  /\ Open /\ tree \in Heads
  /\ tree' = "gone"
  /\ UNCHANGED <<slot, receipts, logged, closer>>

\* acceptance_required_marked: a story chain takes over a run begun elsewhere.
MarkRequired ==
  /\ Open /\ ~required
  /\ required' = TRUE
  /\ UNCHANGED <<tree, step, blocked, completed, receipts, logged, closer>>

-----------------------------------------------------------------------------
\* begin-step

\* Mutant of BoundaryBlocked: the slot alone is asked.
BoundaryBlockedSlot == blocked

\* _run_worker_boundary_block_marker: the slot, else the ledger's last word.
BoundaryBlocked == blocked \/ logged.decision = "blocked"

\* The close fail-fast: the last review passed, on this candidate if it has one.
ReviewPassed(c) ==
  LET v == last["validator"]
  IN  v # None /\ Verdict[v.text] = "PASS" /\ v.cand \in {None, c}

\* _run_has_module_architect_pass looks for the word in any report of the agent.
ShowsPass(t) ==
  \E p \in DOMAIN t : \E line \in ToSet(t[p]) : "PASS" \in ToSet(line.words)

\* An implementation starts from a design, unless the run was begun without one.
HasDesign ==
  \/ LaneLite
  \/ /\ "architect" \in Kinds /\ last["architect"] # None
     /\ ShowsPass(first["architect"]) \/ ShowsPass(last["architect"].text)

\* evaluate_order_gate_for_step, for candidate c
GateAllows(k, c) ==
  /\ ~BoundaryBlocked
  /\ k = "acceptance" /\ required => ReviewPassed(c)
  /\ k = "worker" => HasDesign

Freezes(k) == k \in CloseKinds /\ required

\* _cli_begin_step: a close step freezes the clean HEAD; whatever step was
\* current is replaced.
BeginStep(k) ==
  LET c == IF Freezes(k) THEN tree ELSE None
  IN  /\ Open /\ tree # "gone"
      /\ Freezes(k) => tree \in Heads
      /\ GateAllows(k, c)
      /\ step' = [kind |-> k, cand |-> c, fresh |-> TRUE,
                  from |-> IF k \in CloseKinds /\ tree \in Heads THEN tree ELSE None]
      /\ logged' = [logged EXCEPT !.started = @ \cup ({k} \cap CloseKinds)]
      /\ UNCHANGED <<tree, required, blocked, completed, receipts, closer>>

-----------------------------------------------------------------------------
\* end-step: the receipt takes the candidate of whatever step is current.
EndStep(k, t) ==
  LET ends == step # None /\ step.kind = k
  IN  /\ Open /\ (Careless \/ ends)
      /\ last' = [last EXCEPT ![k] =
                    [cand |-> IF step = None THEN None ELSE step.cand, text |-> t,
                     from |-> IF ends THEN step.from ELSE None]]
      /\ first' = [j \in DOMAIN first |-> IF j = k /\ first[j] = None THEN t ELSE first[j]]
      /\ latest' = k
      /\ step' = IF ends \/ step = None THEN None ELSE [step EXCEPT !.fresh = FALSE]
      /\ logged' = IF k = "acceptance" THEN [logged EXCEPT !.merged = {}] ELSE logged
      /\ UNCHANGED <<tree, required, blocked, completed, closer>>

\* run_blocked by a headless worker that left its boundary.  As every transition
\* it appends to the ledger first: a process killed before it writes the slot
\* leaves it as it was (torn).
BoundaryBlock(torn) ==
  /\ Open /\ step # None /\ step.kind = "worker"
  /\ logged' = [logged EXCEPT !.decision = "blocked"]
  /\ blocked' = (blocked \/ ~torn)
  /\ UNCHANGED <<tree, required, step, completed, receipts, closer>>

\* accept-boundary-block: the user takes the result as it is.
AcceptBlock(torn) ==
  /\ Open /\ BoundaryBlocked
  /\ logged' = [logged EXCEPT !.decision = "accepted"]
  /\ blocked' = (blocked /\ torn)
  /\ UNCHANGED <<tree, required, step, completed, receipts, closer>>

-----------------------------------------------------------------------------
\* end-run: finalize-run first, when that was not done (finalized_at is older than
\* any run_finished, so that who asks for both asks for the second), then
\* run_completed.
Complete(by, torn) ==
  /\ logged' = [logged EXCEPT !.finished = TRUE]
  /\ completed' = ~torn
  /\ step' = IF torn THEN step ELSE None
  /\ closer' = IF torn THEN closer ELSE by
  /\ UNCHANGED <<tree, required, blocked, receipts>>

EndRun(torn) == Open /\ Complete("main", torn)

-----------------------------------------------------------------------------
\* The Stop hook

\* Mutant of WorkspaceStatus: the worktree is not looked at again.
WorkspaceStatusFrozen(c, probe) == "pass"

\* _current_tracked_candidate and what becomes of it; the probe may fail.
WorkspaceStatus(c, probe) ==
  IF probe THEN IF tree = c THEN "pass" ELSE "current_drift"
  ELSE IF tree = "gone" /\ c \in logged.merged THEN "pass"
  ELSE "workspace_unverified"

\* Runs without a mark and without a frozen candidate are not asked for one.
Judged == required \/ \E k \in CloseKinds : last[k] # None /\ last[k].cand # None

\* _close_validation_sequence_status
CloseStatus(probe) ==
  LET v == last["validator"]
      a == last["acceptance"]
  IN  IF v = None THEN "validator_missing"
      ELSE IF \E k \in CloseKinds \ logged.started : last[k] # None
      THEN "receipt_start_missing"
      ELSE IF Verdict[v.text] # "PASS" THEN "validator_failed"
      ELSE IF a = None THEN "acceptance_missing"
      ELSE IF None \in {v.cand, a.cand} THEN "receipt_identity_unrecorded"
      ELSE IF v.cand # a.cand THEN "receipt_mismatch"
      ELSE IF Verdict[a.text] # "PASS" THEN "acceptance_failed"
      ELSE WorkspaceStatus(v.cand, probe)

\* _CONTINUE_ENUMS
Continues == {"PASS", "UX_FLOW_READY", "VALIDATION_BLOCKED"}

\* A run that is not judged (so not marked): the review ends it; any other step
\* does unless its report says go on.  The report is looked for under the name of
\* the first one.
EndsUnjudged ==
  latest # "validator" => Verdict[first[latest]] \notin Continues

\* Mutant of AtRest: only the receipts decide.
AtRestAlways == TRUE

\* The step that is current was begun before the last receipt.
AtRest == step # None => ~step.fresh

\* Mutant of StopDecides: a run that was ever blocked is left alone.
StopDecidesUnblocked ==
  Open /\ latest # None /\ AtRest /\ ~logged.finished /\ logged.decision = "none"

\* handle_stop, up to its decision.  A run that its ledger calls finished is left
\* alone.  Unless it ends the run, the hook changes nothing (the notices that it
\* counts, two of each kind, are what main reads: they decide nothing).
StopDecides == Open /\ latest # None /\ AtRest /\ ~logged.finished

StopCloses(probe, torn) ==
  /\ StopDecides /\ (probe => tree # "gone")
  /\ IF Judged THEN CloseStatus(probe) = "pass" ELSE EndsUnjudged
  /\ Complete("stop", torn)

-----------------------------------------------------------------------------
AgentsWork == Edit \/ (\E h \in Heads : Commit(h)) \/ RecordMerge \/ RemoveWorktree

Main ==
  \/ MarkRequired
  \/ \E k \in Kinds : BeginStep(k) \/ \E t \in Texts : EndStep(k, t)
  \/ \E torn \in BOOLEAN : BoundaryBlock(torn) \/ AcceptBlock(torn) \/ EndRun(torn)

Stop == \E probe, torn \in BOOLEAN : StopCloses(probe, torn)

Next == AgentsWork \/ Main \/ Stop

Spec == Init /\ [][Next]_vars

\* Claude Code runs the Stop hook at the end of every answer; its probes work
\* when the worktree is there, and not every one of its processes is killed.
Fairness == WF_vars(StopCloses(tree # "gone", FALSE))

FairSpec == Spec /\ Fairness

-----------------------------------------------------------------------------
StopEndsRun == closer = "nobody" /\ closer' = "stop"

\* The Stop hook ends a run that needs acceptance only if its last review and
\* its last acceptance were begun on one and the same clean commit, both reports
\* say PASS, and that commit is what the worktree holds, clean, or what was
\* merged since.
CloseVerified ==
  [][StopEndsRun /\ required =>
       \E h \in Heads :
         /\ \A k \in CloseKinds :
              /\ last[k] # None
              /\ last[k].from = h
              /\ Verdict[last[k].text] = "PASS"
         /\ tree = h \/ (tree = "gone" /\ h \in logged.merged)]_vars

\* No step begins between a boundary BLOCK and the user's decision on it, even
\* when the process that recorded the one or the other was killed half way.
BoundaryRespected ==
  [][step' # step /\ step' # None /\ step'.fresh => logged.decision # "blocked"]_vars

\* The Stop hook never ends a run in the middle of a step.
StopLeavesWork == [][StopEndsRun => step = None]_vars

\* A story that stays verified is closed at last: an accepted
\* BLOCK or a failed round before do not keep the hook from it.  (Only
\* an end-run that was killed does: its ledger says that the run is finished.)
ReadyToClose ==
  /\ Open /\ required /\ step = None
  /\ tree # "gone" /\ ~logged.finished
  /\ CloseStatus(TRUE) = "pass"

VerifiedRunCloses == <>[]ReadyToClose => <>completed

\* "terminal PASS": the Stop hook does not end a run whose review or acceptance
\* ends in a failure.
ClosedAsJudged ==
  [][StopEndsRun /\ required =>
       \A k \in CloseKinds : FinalConclusion(last[k].text) \notin FailClass]_vars

\* A run whose last step asks to go on is held open by the Stop hook.
ContinuingRunHeld ==
  [][StopEndsRun /\ latest \notin CloseKinds => Verdict[last[latest].text] \notin Continues]_vars
==============================================================================

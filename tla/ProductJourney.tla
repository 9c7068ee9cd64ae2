---------------------------- MODULE ProductJourney ---------------------------
(***************************************************************************)
(* The product journey (harness/product_journey.py, epic_outcome.py): one  *)
(* run of a project's contract leaves a receipt, the receipts decide       *)
(* whether an epic may close, and a skip record names the PASS that a run  *)
(* not made relies on.                                                     *)
(*                                                                         *)
(* A contract (manifest) either has scenarios, each of which owns some     *)
(* acceptance criteria, or one journey command, the target Whole.  It is   *)
(* edited between runs, while a run is under way, and after its receipt.   *)
(* For boundary "ui" it declares screens: each is captured by a scenario,  *)
(* shows some criteria and has a layout report that judges some of them.   *)
(* Receipts are numbered in the order of measured_at, finished_at and file *)
(* time.                                                                   *)
(***************************************************************************)
EXTENDS Integers, FiniteSets, SequencesExt

CONSTANTS
  None,
  Whole,         \* _WHOLE_JOURNEY
  Manifests,     \* the contracts that the project goes through
  ScreenStates,  \* what may become of the screen of a scenario that ran
  MaxReceipts,   \* bound: journeys run in all
  MaxDamaged     \* bound: receipts whose evidence changes

VARIABLES
  manifest,      \* the contract on disk, or None before the project has one
  receipts       \* the receipts on disk

vars == <<manifest, receipts>>

\* An evidence file may be empty or missing, and an element of the layout outside
\* the safe area or covered by another.
Screen == {"shown", "covered", "empty", "missing"}

JourneyConstants ==
  /\ None \notin Manifests /\ ScreenStates \subseteq Screen
  /\ MaxReceipts \in Nat /\ MaxDamaged \in Nat

Scenarios(m) == DOMAIN m.owns
HasScenarios(m) == m.scenarios
Targets(m) == IF HasScenarios(m) THEN Scenarios(m) ELSE {Whole}
Owners(m, ac) == {t \in Scenarios(m) : ac \in m.owns[t]}
ScreensOf(m, selected) == {c \in DOMAIN m.screens : m.screens[c].by \in selected}

\* Every criterion has an owner.
Declares(m) ==
  /\ HasScenarios(m) => Scenarios(m) # {}
  /\ \A s \in Scenarios(m) : m.owns[s] # {} /\ m.owns[s] \subseteq m.target
  /\ HasScenarios(m) => UNION {m.owns[s] : s \in Scenarios(m)} = m.target

\* Each screen is captured by a scenario that owns what it shows, the final ones
\* cover the target, and their layout judges all they show.
DeclaresScreens(m) ==
  /\ m.boundary = "ui" <=> m.screens # <<>>
  /\ \A c \in DOMAIN m.screens :
       LET screen == m.screens[c]
       IN /\ screen.shows # {} /\ screen.judges \subseteq screen.shows
          /\ screen.by \in Targets(m)
          /\ screen.shows \subseteq (IF HasScenarios(m) THEN m.owns[screen.by] ELSE m.target)
          /\ screen.final => screen.judges = screen.shows
  /\ m.boundary = "ui" =>
       UNION {m.screens[c].shows : c \in {d \in DOMAIN m.screens : m.screens[d].final}} = m.target

Valid(m) ==
  /\ m # None /\ m.target # {}
  /\ m.boundary \in {"api", "cli", "integration", "mock", "ui"}
  /\ m.source \in {"journey_exit", "none"}
  /\ Declares(m) /\ DeclaresScreens(m)

\* --scenario: a re-run of some scenarios.  Without it every target runs.
Selectable(m, partial) ==
  IF partial THEN (IF HasScenarios(m) THEN SUBSET Scenarios(m) \ {{}} ELSE {})
             ELSE {Targets(m)}

-----------------------------------------------------------------------------
(* A run: r carries the contract it began with, the targets it selected, the  *)
(* phases that passed, what each target came to and the screens it left.      *)

\* Health is asked of an application that started, targets run in a healthy
\* one, whatever those before them came to, and cleanup follows every failure.
Phases == {p \in SUBSET {"start", "health", "cleanup"} : "health" \in p => "start" \in p}
Journey(p, selected) ==
  IF "health" \in p THEN [selected -> BOOLEAN] ELSE {<<>>}

\* What the files of a screen come to: there are none if its scenario did not run.
Judged(m, c, exit) ==
  IF m.screens[c].by \in DOMAIN exit THEN ScreenStates ELSE {"missing"}

\* A run judges the screens of the scenarios it selected.
Screens(m, selected, exit) ==
  {f \in [ScreensOf(m, selected) -> Screen] : \A c \in DOMAIN f : f[c] \in Judged(m, c, exit)}

Executed(r) == DOMAIN r.exit
Failed(r) == {t \in Executed(r) : ~r.exit[t]}

RunOk(r) ==
  /\ r.m.boundary # "mock" /\ r.m.source = "journey_exit"
  /\ {"start", "health", "cleanup"} = r.passed

\* Failed targets are one reason; nothing tells the others apart.
Failures(r) ==
  (IF Failed(r) # {} /\ r.m.source = "journey_exit" THEN {"journey_failed"} ELSE {})
    \cup (IF RunOk(r) /\ \A c \in DOMAIN r.screen : r.screen[c] = "shown"
          THEN {} ELSE {"run"})

ACResult(r, ac) ==
  LET owners == Owners(r.m, ac)
  IN IF \/ ~RunOk(r) \/ owners \cap Failed(r) # {}
        \/ \E c \in DOMAIN r.screen :
             \/ ac \in r.m.screens[c].shows /\ r.screen[c] \in {"empty", "missing"}
             \/ ac \in r.m.screens[c].judges /\ r.screen[c] # "shown"
     THEN "FAIL"
     ELSE IF owners \subseteq Executed(r) THEN "PASS" ELSE "NOT_RUN"

\* A re-run of some scenarios judges what it ran, a full run everything.
Passes(r) ==
  LET results == {ACResult(r, ac) : ac \in r.m.target}
  IN IF r.partial
     THEN Executed(r) # {} /\ Failed(r) = {} /\ r.m.source = "journey_exit" /\ "FAIL" \notin results
     ELSE Failures(r) = {} /\ (HasScenarios(r.m) => results = {"PASS"})

Init == manifest = None /\ receipts = <<>>

EditManifest(m) == manifest' = m /\ UNCHANGED receipts

\* run_from_config.  The contract is read once, before the first command; a
\* run that is killed leaves no receipt, and one in progress is not on disk.
RunJourney(partial, selected, passed, exit, screen) ==
  LET r == [m |-> manifest, partial |-> partial, passed |-> passed, exit |-> exit,
            screen |-> screen]
  IN /\ Len(receipts) < MaxReceipts
     /\ receipts' = Append(receipts,
          [m |-> manifest, partial |-> partial, exit |-> exit, screen |-> screen,
           failures |-> Failures(r), outcome |-> IF Passes(r) THEN "PASS" ELSE "FAIL",
           intact |-> TRUE])
     /\ UNCHANGED manifest

\* A log, screen or layout report changes after the receipt has hashed it.
DamageEvidence(i) ==
  /\ ~receipts[i].partial
  /\ Cardinality({j \in DOMAIN receipts : ~receipts[j].intact}) < MaxDamaged
  /\ receipts' = [receipts EXCEPT ![i].intact = FALSE]
  /\ UNCHANGED manifest

\* A run begins only under a valid contract.
Measure ==
  /\ Valid(manifest)
  /\ \E partial \in BOOLEAN : \E selected \in Selectable(manifest, partial) :
     \E passed \in Phases : \E exit \in Journey(passed, selected) :
     \E screen \in Screens(manifest, selected, exit) :
       RunJourney(partial, selected, passed, exit, screen)

Next ==
  \/ \E m \in Manifests : EditManifest(m)
  \/ Measure
  \/ \E i \in DOMAIN receipts : DamageEvidence(i)

Spec == Init /\ [][Next]_vars

-----------------------------------------------------------------------------
(* What readers make of the receipts.                                       *)

\* A screen file that is there but was counted as missing spoils the receipt.
UiAccepted(r) == \A c \in DOMAIN r.screen : r.screen[c] # "empty"

\* The layout is judged by the declaration of today's contract.
LayoutAccepted(r) ==
  /\ manifest.boundary = "ui" /\ DeclaresScreens(manifest)
  /\ manifest.target = r.m.target /\ manifest.screens = r.m.screens

\* Mutant: the re-run of some scenarios counts as a run.
ScenariosAcceptedPartial(r) ==
  /\ HasScenarios(manifest) /\ Declares(manifest)
  /\ manifest.target = r.m.target /\ manifest.owns = r.m.owns

ScenariosAccepted(r) ==
  /\ ~r.partial
  /\ HasScenarios(manifest) /\ Declares(manifest)
  /\ manifest.target = r.m.target /\ manifest.owns = r.m.owns

\* Every log still has the hash of its run.
EvidenceMatches(r) == r.intact

IsValidReceipt(r) ==
  /\ r.m.boundary = "ui" => UiAccepted(r) /\ LayoutAccepted(r)
  /\ HasScenarios(r.m) => ScenariosAccepted(r)
  /\ EvidenceMatches(r)

Accepted == {i \in DOMAIN receipts : IsValidReceipt(receipts[i])}

\* epic_outcome: the latest accepted run of the journey decides.
CloseReady ==
  Accepted # {} /\ receipts[Max(Accepted)].outcome = "PASS"

\* A failure that is not just the exit of some scenarios.
RunLevelFailure(r) ==
  /\ r.outcome = "FAIL"
  /\ ~HasScenarios(r.m) \/ Failed(r) = {} \/ ~(r.failures \subseteq {"journey_failed"})

\* Mutant: any run that passes clears every target.
MarkedByOutcome(failing, i, wanted) ==
  LET r == receipts[i]
  IN [t \in DOMAIN failing |->
        IF r.outcome = "PASS" THEN 0
        ELSE IF RunLevelFailure(r) \/ t \in Failed(r) THEN i ELSE failing[t]]

\* failing[t]: the receipt that last failed t without a pass since, or 0.
Marked(failing, i, wanted) ==
  LET r == receipts[i]
  IN [t \in DOMAIN failing |->
        IF RunLevelFailure(r)
        THEN (IF t \in wanted \cup Scenarios(r.m) THEN i ELSE failing[t])
        ELSE IF \/ t = Whole /\ r.outcome = "PASS" /\ ~HasScenarios(r.m)
                \/ HasScenarios(r.m) /\ t \in Executed(r) \ Failed(r)
             THEN 0
             ELSE IF HasScenarios(r.m) /\ t \in Failed(r) THEN i ELSE failing[t]]

\* The receipts after from, each marked in turn.
Failing(from, wanted) ==
  LET all == wanted \cup UNION {Scenarios(receipts[i].m) : i \in DOMAIN receipts}
      failing[n \in 0..(Len(receipts) - from)] ==
        IF n = 0 THEN [t \in all |-> 0] ELSE Marked(failing[n - 1], from + n, wanted)
  IN failing[Len(receipts) - from]

UnresolvedFailure(from, wanted) ==
  LET failing == Failing(from, wanted) IN Max({failing[t] : t \in wanted})

\* record_skip: the PASS that a skip of these targets relies on, or 0.  The record
\* itself is read by nobody.
SkipBasis(wanted) ==
  LET passes == {i \in Accepted : receipts[i].outcome = "PASS"}
  IN IF passes = {} THEN 0
     ELSE IF UnresolvedFailure(Max(passes), wanted) # 0 THEN 0 ELSE Max(passes)

-----------------------------------------------------------------------------
(* Properties.                                                              *)

\* A skip that names a PASS relies on a full one, and no run since then has
\* failed one of its targets, alone or with the whole run, without a later run
\* that passed the target itself.
SkipBacked ==
  Valid(manifest) =>
    \A wanted \in SUBSET Targets(manifest) \ {{}} :
      LET basis == SkipBasis(wanted)
      IN basis # 0 =>
         /\ ~receipts[basis].partial
         /\ \A t \in wanted :
              LET later == {i \in (basis + 1)..Len(receipts) :
                              t \in Executed(receipts[i]) \/ RunLevelFailure(receipts[i])}
              IN later # {} => LET r == receipts[Max(later)]
                               IN ~RunLevelFailure(r) /\ r.exit[t]

\* When an epic is told that it may close on a run with scenarios, every owner
\* that the contract names today, for every criterion it names today, ran and
\* passed in that run, against an application that was up and cleaned up after.
CloseReadySound ==
  CloseReady =>
    LET r == receipts[Max(Accepted)]
    IN HasScenarios(r.m) =>
         /\ r.failures = {}
         /\ \A ac \in manifest.target : \A t \in Owners(manifest, ac) :
              /\ t \in Executed(r) \ Failed(r)
              /\ \A c \in ScreensOf(manifest, {t}) :
                   r.m.boundary = "ui" => r.screen[c] = "shown"
=============================================================================

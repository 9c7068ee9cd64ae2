---------------------------- MODULE WavePlanProofs ----------------------------
(***************************************************************************)
(* The planner is right for batches of any size, with any dependencies and *)
(* scopes, high-risk tasks and cap.                                        *)
(***************************************************************************)
EXTENDS WavePlan, FiniteSetTheorems, WellFoundedInduction, TLAPS

\* A nonempty set of naturals has a least element, which First returns.
LEMMA FirstIsLeast ==
  ASSUME NEW S, S \subseteq Nat, S # {}
  PROVE  First(S) \in S /\ \A u \in S : First(S) <= u
<1> DEFINE R == OpToRel(<, Nat)
<1>1. \A a, b \in Nat : a < b => <<a, b>> \in R
  BY Zenon DEF OpToRel
<1> HIDE DEF R
<1>2. PICK x \in S : \A y \in S : <<y, x>> \notin R
  <2>1. IsWellFoundedOn(R, Nat)
    BY NatLessThanWellFounded DEF R
  <2>2. QED
    BY <2>1, WFMin
<1>3. \A a, b \in Nat : ~(b < a) => a <= b
  OBVIOUS
<1>4. \A y \in S : x <= y
  BY <1>1, <1>2, <1>3, Zenon
<1>5. QED
  BY <1>4 DEF First

LEMMA RemainingNumbers ==
  ASSUME TypeOK
  PROVE  remaining \subseteq Nat
<1>1. Task \subseteq Nat
  BY PlanConstants DEF Task
<1>2. QED
  BY <1>1 DEF TypeOK

LEMMA HeadIsFirst ==
  ASSUME TypeOK, Frontier # {}
  PROVE  /\ HeadTask \in remaining /\ Ready(HeadTask)
         /\ \A u \in remaining : Ready(u) => HeadTask <= u
<1>1. Frontier \subseteq Nat
  BY RemainingNumbers DEF Frontier
<1>2. HeadTask \in Frontier /\ \A u \in Frontier : HeadTask <= u
  BY <1>1, FirstIsLeast DEF HeadTask
<1>3. QED
  BY <1>2 DEF Frontier

LEMMA DepsType ==
  ASSUME TypeOK, NEW t \in Task
  PROVE  DepsOf(t) \subseteq Task
<1>1. batch[t].deps \in (SUBSET Task) \cup {Unknown}
  BY DEF TypeOK, ImplTask
<1>2. QED
  BY <1>1 DEF DepsOf

\* The members of a wave, head included, satisfy what the loop asks of each.
LEMMA WaveMembers ==
  ASSUME TypeOK, NEW h \in remaining, Ready(h), ~Serial(h)
  PROVE  /\ h \in Wave(h) /\ Wave(h) \subseteq remaining
         /\ \A t \in Wave(h) : Ready(t) /\ ~Serial(t)
         /\ \A t, u \in Wave(h) : t # u => Disjoint(t, u)
         /\ \A t \in Wave(h), u \in remaining \ Wave(h) : h <= u => t < u
<1>1. remaining \subseteq Nat
  BY RemainingNumbers
<1>2. h \in Wave(h) /\ Wave(h) \subseteq remaining
  BY <1>1 DEF Wave
<1>3. \A t \in Wave(h) : Ready(t) /\ ~Serial(t)
  BY <1>1 DEF Wave, Joins
<1>4. ASSUME NEW t \in Wave(h), NEW u \in Wave(h), t < u
      PROVE  Disjoint(t, u)
  <2>1. t \in WaveBefore(h, u) /\ h < u
    BY <1>1, <1>4 DEF Wave, WaveBefore
  <2>2. Joins(h, u)
    BY <1>1, <2>1 DEF Wave
  <2>3. QED
    BY <2>1, <2>2 DEF Joins, Disjoint
<1>5. \A t, u \in Wave(h) : t # u => Disjoint(t, u)
  <2>1. \A t, u \in Wave(h) : Disjoint(t, u) => Disjoint(u, t)
    BY DEF Disjoint
  <2>2. \A t, u \in Nat : t # u => t < u \/ u < t
    OBVIOUS
  <2>3. QED
    BY <1>1, <1>2, <1>4, <2>1, <2>2
<1>6. ASSUME NEW t \in Wave(h), NEW u \in remaining \ Wave(h), h <= u, ~(t < u)
      PROVE  FALSE
  <2>1. PICK c \in remaining : h < c /\ c <= u /\ ~Joins(h, c)
    BY <1>6 DEF Wave
  <2>2. c <= t
    BY <1>1, <1>6, <2>1 DEF Wave
  <2>3. QED
    BY <2>1, <2>2 DEF Wave
<1>7. QED
  BY <1>2, <1>3, <1>5, <1>6

-----------------------------------------------------------------------------
\* What a turn of the loop may plan next.
Plannable(S, mode) ==
  /\ S \subseteq remaining /\ S # {}
  /\ (\A t \in S : Ready(t)) \/ (mode = "serial" /\ Stuck(remaining))
  /\ mode = "parallel" =>
       /\ \A t \in S : ~Serial(t)
       /\ \A t, u \in S : t # u => Disjoint(t, u)

LEMMA SerialCauseType ==
  ASSUME NEW t PROVE SerialCause(t) \in Cause
BY DEF SerialCause, Cause

\* Every turn plans something plannable.
LEMMA NextPlans ==
  ASSUME TypeOK, Next
  PROVE  \E S, mode, cause :
           /\ mode \in {"parallel", "serial"} /\ cause \in Cause
           /\ Plannable(S, mode) /\ Plan(S, mode, cause)
<1>1. CASE PlanUnresolved
  <2>1. First(remaining) \in remaining
    BY <1>1, FirstIsLeast, RemainingNumbers DEF PlanUnresolved
  <2>2. Stuck(remaining)
    BY <1>1 DEF PlanUnresolved, Frontier, Ready, Stuck
  <2>3. Plannable({First(remaining)}, "serial")
    BY <2>1, <2>2 DEF Plannable
  <2>4. QED
    BY <1>1, <2>3 DEF PlanUnresolved, Cause
<1>2. CASE PlanSerial
  <2>1. Plannable({HeadTask}, "serial")
    BY <1>2, HeadIsFirst DEF PlanSerial, Plannable
  <2>2. QED
    BY <1>2, <2>1, SerialCauseType DEF PlanSerial
<1>3. CASE PlanWave
  <2>1. Plannable(Wave(HeadTask), "parallel")
    BY <1>3, HeadIsFirst, WaveMembers DEF PlanWave, Plannable
  <2>2. QED
    BY <1>3, <2>1 DEF PlanWave, Cause
<1>4. CASE PlanAlone
  <2>1. Plannable({HeadTask}, "serial")
    BY <1>4, HeadIsFirst DEF PlanAlone, Plannable
  <2>2. QED
    BY <1>4, <2>1 DEF PlanAlone, Cause
<1>5. QED
  BY <1>1, <1>2, <1>3, <1>4 DEF Next

\* Planning adds a step and leaves the earlier ones and the input alone.
LEMMA PlanFacts ==
  ASSUME TypeOK, NEW S \in SUBSET Task, NEW mode \in {"parallel", "serial"},
         NEW cause \in Cause, Plan(S, mode, cause)
  PROVE  /\ TypeOK'
         /\ DOMAIN steps = 1..Len(steps) /\ DOMAIN steps' = 1..(Len(steps) + 1)
         /\ Len(steps) \in Nat
         /\ \A i \in DOMAIN steps : steps'[i] = steps[i]
         /\ steps'[Len(steps) + 1] = [mode |-> mode, tasks |-> S, cause |-> cause]
<1> DEFINE e == [mode |-> mode, tasks |-> S, cause |-> cause]
<1>1. e \in WaveStep
  BY DEF WaveStep
<1>2. steps \in Seq(WaveStep) /\ steps' = Append(steps, e)
  BY DEF TypeOK, Plan
<1>3. QED
  BY <1>1, <1>2 DEF TypeOK, Plan, input

\* The variables keep their types in every plan.
THEOREM PlanTypeCorrect == Spec => []TypeOK
<1>1. Init => TypeOK
  <2> SUFFICES ASSUME Init PROVE TypeOK
    OBVIOUS
  <2>1. cap \in Nat \ {0}
    BY PlanConstants DEF Init, Clamp
  <2>2. files \in [Task -> TaskFile]
    <3>1. \A file \in TaskFile : NormalizeScope(file) \in TaskFile
      BY DEF TaskFile, NormalizeScope
    <3>2. PICK written \in [Task -> TaskFile], normalized \in SUBSET Task :
            files = [t \in Task |-> IF t \in normalized THEN NormalizeScope(written[t])
                                                      ELSE written[t]]
      BY PlanConstants DEF Init
    <3>3. QED
      BY <3>1, <3>2
  <2>3. batch \in [Task -> ImplTask]
    <3>1. ASSUME NEW file \in TaskFile PROVE ParseImplTask(file) \in ImplTask
      <4>1. /\ ParseDependsOn(file) \in (SUBSET Task) \cup {Unknown}
            /\ file.paths \in SUBSET Places
        BY DEF TaskFile, ParseDependsOn
      <4>2. ScopeUnclear(file) \in BOOLEAN /\ ForceSerial(file) \in BOOLEAN
        BY DEF TaskFile, ScopeUnclear, ForceSerial
      <4>3. QED
        BY <4>1, <4>2 DEF ParseImplTask, ImplTask
    <3>2. QED
      BY <2>2, <3>1 DEF Init
  <2>4. QED
    BY <2>1, <2>2, <2>3, PlanConstants DEF Init, TypeOK
<1>2. TypeOK /\ [Next]_vars => TypeOK'
  <2> SUFFICES ASSUME TypeOK, [Next]_vars PROVE TypeOK'
    OBVIOUS
  <2>1. CASE Next
    <3>1. PICK S, mode, cause :
            /\ mode \in {"parallel", "serial"} /\ cause \in Cause
            /\ Plannable(S, mode) /\ Plan(S, mode, cause)
      BY <2>1, NextPlans
    <3>2. S \in SUBSET Task
      BY <3>1 DEF Plannable, TypeOK
    <3>3. QED
      BY <3>1, <3>2, PlanFacts
  <2>2. CASE UNCHANGED vars
    BY <2>2 DEF vars, input, TypeOK
  <2>3. QED
    BY <2>1, <2>2
<1>3. QED
  BY <1>1, <1>2, PTL DEF Spec

-----------------------------------------------------------------------------
\* What the plan looks like after a turn, in terms of the plan before it.
LEMMA PlanGrows ==
  ASSUME TypeOK, NEW S \in SUBSET Task, NEW mode \in {"parallel", "serial"},
         NEW cause \in Cause, Plan(S, mode, cause), NEW last, last = Len(steps) + 1
  PROVE  /\ DOMAIN steps' = DOMAIN steps \cup {last} /\ last \notin DOMAIN steps
         /\ \A i \in DOMAIN steps :
              /\ steps[i].mode' = steps[i].mode /\ TasksOf(i)' = TasksOf(i)
              /\ PlannedBefore(i)' = PlannedBefore(i)
              /\ i < last
         /\ steps'[last].mode = mode /\ TasksOf(last)' = S
         /\ PlannedBefore(last)' = Planned
<1>1. /\ DOMAIN steps = 1..Len(steps) /\ DOMAIN steps' = 1..last
      /\ Len(steps) \in Nat
      /\ \A i \in DOMAIN steps : steps'[i] = steps[i]
      /\ steps'[last] = [mode |-> mode, tasks |-> S, cause |-> cause]
  BY PlanFacts
<1>2. DOMAIN steps' = DOMAIN steps \cup {last} /\ last \notin DOMAIN steps
  BY <1>1
<1>3. ASSUME NEW i \in DOMAIN steps
      PROVE  /\ steps[i].mode' = steps[i].mode /\ TasksOf(i)' = TasksOf(i)
             /\ PlannedBefore(i)' = PlannedBefore(i)
             /\ i < last
  <2>1. 1..(i - 1) \subseteq DOMAIN steps /\ i < last
    BY <1>1
  <2>2. \A j \in 1..(i - 1) : TasksOf(j)' = TasksOf(j)
    BY <1>1, <2>1 DEF TasksOf
  <2>3. PlannedBefore(i)' = PlannedBefore(i)
    BY <2>2 DEF PlannedBefore
  <2>4. QED
    BY <1>1, <2>1, <2>3 DEF TasksOf
<1>4. steps'[last].mode = mode /\ TasksOf(last)' = S
  BY <1>1 DEF TasksOf
<1>5. PlannedBefore(last)' = Planned
  <2>1. 1..(last - 1) = DOMAIN steps
    BY <1>1
  <2>2. QED
    BY <1>3, <2>1 DEF PlannedBefore, Planned
<1>6. QED
  BY <1>2, <1>3, <1>4, <1>5

\* What a task is does not change.
LEMMA InputKept ==
  ASSUME UNCHANGED input
  PROVE  /\ \A t : DepsOf(t)' = DepsOf(t) /\ Serial(t)' = Serial(t)
         /\ \A t, u : Disjoint(t, u)' = Disjoint(t, u)
         /\ Acyclic' = Acyclic /\ NamedInOrder' = NamedInOrder
<1>1. \A t : DepsOf(t)' = DepsOf(t)
  BY DEF input, DepsOf
<1>2. \A t, u : Disjoint(t, u)' = Disjoint(t, u)
  BY DEF input, Disjoint
<1>3. \A t : Serial(t)' = Serial(t)
  BY DEF input, Serial, SerialOnly
<1>4. Acyclic' = Acyclic
  BY <1>1 DEF Acyclic, Stuck
<1>5. NamedInOrder' = NamedInOrder
  BY <1>1 DEF NamedInOrder
<1>6. QED
  BY <1>1, <1>2, <1>3, <1>4, <1>5

\* The planner reads the files once.
Parsed == batch = [t \in Task |-> ParseImplTask(files[t])]

\* WavesIndependent in terms of what was parsed.
WavesJudged ==
  \A i \in DOMAIN steps : steps[i].mode = "parallel" =>
    /\ \A t \in TasksOf(i) : ~Serial(t) /\ DepsOf(t) \subseteq PlannedBefore(i)
    /\ \A t, u \in TasksOf(i) : t # u => Disjoint(t, u)

\* What the loop does not take for serial is settled in its file.
LEMMA JudgedIndependent ==
  ASSUME TypeOK, Parsed, WavesJudged
  PROVE  WavesIndependent
<1>1. ASSUME NEW t \in Task
      PROVE  /\ batch[t].deps = ParseDependsOn(files[t])
             /\ batch[t].scope = files[t].paths
             /\ batch[t].unclear = ScopeUnclear(files[t])
             /\ batch[t].forced = ForceSerial(files[t])
  BY DEF Parsed, ParseImplTask
<1>2. ASSUME NEW t \in Task, ~Serial(t)
      PROVE  Settled(files[t]) /\ t \notin highRisk /\ DepsOf(t) = files[t].deps
  <2>1. /\ t \notin highRisk /\ batch[t].deps # Unknown /\ ~batch[t].forced
        /\ ~batch[t].unclear /\ batch[t].scope # {}
    BY <1>2 DEF Serial, SerialOnly
  <2>2. files[t].listed /\ DepsOf(t) = files[t].deps
    BY <1>1, <2>1 DEF ParseDependsOn, DepsOf
  <2>3. QED
    BY <1>1, <2>1, <2>2 DEF Settled, ScopeUnclear, ForceSerial
<1>3. \A t, u \in Task : Disjoint(t, u) => files[t].paths \cap files[u].paths = {}
  BY <1>1 DEF Disjoint
<1>4. \A i \in DOMAIN steps : TasksOf(i) \subseteq Task
  <2>1. \A i \in DOMAIN steps : steps[i] \in WaveStep
    BY DEF TypeOK
  <2>2. QED
    BY <2>1 DEF TasksOf, WaveStep
<1>5. QED
  BY <1>2, <1>3, <1>4 DEF WavesJudged, WavesIndependent

\* EachOnce says where a task is, which makes "ready" mean "planned before".
PlanInv == TypeOK /\ Parsed /\ EachOnce /\ WavesJudged /\ DepsFirst

LEMMA PlanInvInit ==
  ASSUME Init
  PROVE  EachOnce /\ WavesJudged /\ DepsFirst
<1>1. DOMAIN steps = {}
  BY DEF Init
<1>2. Planned = {}
  BY <1>1 DEF Planned
<1>3. QED
  BY <1>1, <1>2 DEF Init, EachOnce, WavesJudged, DepsFirst

LEMMA PlanInvStep ==
  ASSUME PlanInv, Next
  PROVE  EachOnce' /\ WavesJudged' /\ DepsFirst'
<1>1. PICK S, mode, cause :
        /\ mode \in {"parallel", "serial"} /\ cause \in Cause
        /\ Plannable(S, mode) /\ Plan(S, mode, cause)
  BY NextPlans DEF PlanInv
<1>2. S \in SUBSET Task /\ S \subseteq remaining /\ remaining \subseteq Task
  BY <1>1 DEF Plannable, PlanInv, TypeOK
<1>0. PICK last : last = Len(steps) + 1
  OBVIOUS
<1>3. /\ DOMAIN steps' = DOMAIN steps \cup {last} /\ last \notin DOMAIN steps
      /\ \A i \in DOMAIN steps :
           /\ steps[i].mode' = steps[i].mode /\ TasksOf(i)' = TasksOf(i)
           /\ PlannedBefore(i)' = PlannedBefore(i)
      /\ steps'[last].mode = mode /\ TasksOf(last)' = S
      /\ PlannedBefore(last)' = Planned
      /\ Planned' = Planned \cup S
  <2>1. TypeOK
    BY DEF PlanInv
  <2>2. DOMAIN steps' = DOMAIN steps \cup {last} /\ last \notin DOMAIN steps
    BY <1>0, <1>1, <1>2, <2>1, PlanGrows
  <2>3. \A i \in DOMAIN steps :
          /\ steps[i].mode' = steps[i].mode /\ TasksOf(i)' = TasksOf(i)
          /\ PlannedBefore(i)' = PlannedBefore(i)
    BY <1>0, <1>1, <1>2, <2>1, PlanGrows
  <2>4. steps'[last].mode = mode /\ TasksOf(last)' = S
    BY <1>0, <1>1, <1>2, <2>1, PlanGrows
  <2>5. PlannedBefore(last)' = Planned
    BY <1>0, <1>1, <1>2, <2>1, PlanGrows
  <2>6. Planned' = Planned \cup S
    BY <2>2, <2>3, <2>4 DEF Planned
  <2>7. QED
    BY <2>2, <2>3, <2>4, <2>5, <2>6, Zenon
<1>4. /\ \A t : DepsOf(t)' = DepsOf(t) /\ Serial(t)' = Serial(t)
      /\ \A t, u : Disjoint(t, u)' = Disjoint(t, u)
      /\ Acyclic' = Acyclic
  BY <1>1, InputKept DEF Plan
<1>5. remaining = Task \ Planned /\ remaining' = remaining \ S
  BY <1>1 DEF PlanInv, EachOnce, Plan
<1>6. \A t \in S : Ready(t) => DepsOf(t) \subseteq Planned
  <2>1. \A t \in S : DepsOf(t) \subseteq Task
    BY <1>2, DepsType DEF PlanInv
  <2>2. QED
    BY <1>5, <2>1 DEF Ready
<1>7. EachOnce'
  <2>1. \A i \in DOMAIN steps : TasksOf(i) \cap S = {}
    BY <1>2, <1>5 DEF Planned
  <2>2. \A i, j \in DOMAIN steps : i # j => TasksOf(i) \cap TasksOf(j) = {}
    BY DEF PlanInv, EachOnce
  <2>3. \A i, j \in DOMAIN steps' : i # j => TasksOf(i)' \cap TasksOf(j)' = {}
    BY <1>3, <2>1, <2>2
  <2>4. remaining' = Task \ Planned'
    BY <1>3, <1>5
  <2>5. QED
    BY <2>3, <2>4 DEF EachOnce
<1>8. WavesJudged'
  <2>1. ASSUME NEW i \in DOMAIN steps', steps'[i].mode = "parallel"
        PROVE  /\ \A t \in TasksOf(i)' : ~Serial(t)' /\ DepsOf(t)' \subseteq PlannedBefore(i)'
               /\ \A t, u \in TasksOf(i)' : t # u => Disjoint(t, u)'
    <3>1. CASE i = last
      <4>1. mode = "parallel"
        BY <1>3, <2>1, <3>1
      <4>2. /\ \A t \in S : ~Serial(t) /\ Ready(t)
            /\ \A t, u \in S : t # u => Disjoint(t, u)
        BY <1>1, <4>1 DEF Plannable
      <4>3. QED
        BY <1>3, <1>4, <1>6, <3>1, <4>2
    <3>2. CASE i \in DOMAIN steps
      <4>1. steps[i].mode = "parallel"
        BY <1>3, <2>1, <3>2
      <4>2. /\ \A t \in TasksOf(i) : ~Serial(t) /\ DepsOf(t) \subseteq PlannedBefore(i)
            /\ \A t, u \in TasksOf(i) : t # u => Disjoint(t, u)
        BY <3>2, <4>1 DEF PlanInv, WavesJudged
      <4>3. QED
        BY <1>3, <1>4, <3>2, <4>2
    <3>3. QED
      BY <1>3, <3>1, <3>2
  <2>2. QED
    BY <2>1 DEF WavesJudged
<1>9. DepsFirst'
  <2> SUFFICES ASSUME Acyclic'
               PROVE  \A i \in DOMAIN steps' : \A t \in TasksOf(i)' :
                        DepsOf(t)' \subseteq PlannedBefore(i)'
    BY DEF DepsFirst
  <2>1. ~Stuck(remaining)
    BY <1>2, <1>4 DEF Acyclic
  <2>2. \A t \in S : Ready(t)
    BY <1>1, <2>1 DEF Plannable
  <2>3. \A i \in DOMAIN steps : \A t \in TasksOf(i) : DepsOf(t) \subseteq PlannedBefore(i)
    BY <1>4 DEF PlanInv, DepsFirst
  <2>4. QED
    BY <1>3, <1>4, <1>6, <2>2, <2>3
<1>10. QED
  BY <1>7, <1>8, <1>9

\* No task is lost or planned twice; waves can be worked on at the same time; and
\* no task goes before what it depends on.
THEOREM PlanSound == Spec => [](EachOnce /\ WavesIndependent /\ DepsFirst)
<1>1. Init /\ TypeOK => PlanInv
  BY PlanInvInit DEF PlanInv, Init, Parsed
<1>2. PlanInv /\ TypeOK' /\ [Next]_vars => PlanInv'
  <2> SUFFICES ASSUME PlanInv, TypeOK', [Next]_vars PROVE PlanInv'
    OBVIOUS
  <2>1. CASE Next
    <3>1. Parsed'
      BY <2>1 DEF PlanInv, Parsed, input, Next, PlanUnresolved, PlanSerial, PlanWave, PlanAlone, Plan
    <3>2. QED
      BY <2>1, <3>1, PlanInvStep DEF PlanInv
  <2>2. CASE UNCHANGED vars
    <3>1. UNCHANGED input
      BY <2>2 DEF vars
    <3>2. UNCHANGED <<steps, remaining>>
      BY <2>2 DEF vars
    <3>3. EachOnce'
      BY <3>2 DEF PlanInv, EachOnce, Planned, TasksOf
    <3>4. WavesJudged'
      BY <3>1, <3>2, InputKept DEF PlanInv, WavesJudged, PlannedBefore, TasksOf
    <3>5. DepsFirst'
      BY <3>1, <3>2, InputKept DEF PlanInv, DepsFirst, PlannedBefore, TasksOf
    <3>6. QED
      BY <3>1, <3>3, <3>4, <3>5 DEF PlanInv, Parsed, input
  <2>3. QED
    BY <2>1, <2>2
<1>3. PlanInv => EachOnce /\ WavesIndependent /\ DepsFirst
  BY JudgedIndependent DEF PlanInv
<1>4. QED
  BY <1>1, <1>2, <1>3, PlanTypeCorrect, PTL DEF Spec

\* No task is planned before what it depends on, even where a cycle or a missing
\* task makes compute_waves fall back to serial waves.
THEOREM PlanDepsFirst == Spec => []DepsFirst
BY PlanSound, PTL

-----------------------------------------------------------------------------
\* File names in topological order: the first task that remains is ready, so each
\* turn takes what is first.
LEMMA HeadIsFirstRemaining ==
  ASSUME TypeOK, NamedInOrder, remaining # {}
  PROVE  Frontier # {} /\ \A u \in remaining : HeadTask <= u
<1>1. remaining \subseteq Nat /\ remaining \subseteq Task
  BY RemainingNumbers DEF TypeOK
<1>2. PICK f \in remaining : \A u \in remaining : f <= u
  BY <1>1, FirstIsLeast
<1>3. Ready(f)
  <2>1. \A d \in DepsOf(f) : d < f
    BY <1>1, <1>2 DEF NamedInOrder
  <2>2. \A u \in remaining : ~(u < f)
    BY <1>1, <1>2
  <2>3. QED
    BY <2>1, <2>2 DEF Ready
<1>4. Frontier # {}
  BY <1>2, <1>3 DEF Frontier
<1>5. HeadTask \in remaining /\ HeadTask <= f
  BY <1>2, <1>3, <1>4, HeadIsFirst
<1>6. QED
  BY <1>1, <1>2, <1>4, <1>5

LEMMA NextTakesFirst ==
  ASSUME TypeOK, NamedInOrder, Next
  PROVE  \E S, mode, cause :
           /\ mode \in {"parallel", "serial"} /\ cause \in Cause
           /\ S \subseteq remaining /\ Plan(S, mode, cause)
           /\ \A t \in S, u \in remaining \ S : t < u
<1>1. remaining # {}
  BY DEF Next, PlanUnresolved, PlanSerial, PlanWave, PlanAlone, Frontier
<1>2. Frontier # {} /\ \A u \in remaining : HeadTask <= u
  BY <1>1, HeadIsFirstRemaining
<1>3. HeadTask \in remaining /\ Ready(HeadTask)
  BY <1>2, HeadIsFirst
<1>4. \A t \in {HeadTask}, u \in remaining \ {HeadTask} : t < u
  BY <1>2, <1>3, RemainingNumbers
<1>5. CASE PlanSerial
  BY <1>3, <1>4, <1>5, SerialCauseType DEF PlanSerial
<1>6. CASE PlanWave
  <2>1. /\ Wave(HeadTask) \subseteq remaining
        /\ \A t \in Wave(HeadTask), u \in remaining \ Wave(HeadTask) : t < u
    BY <1>2, <1>3, <1>6, WaveMembers DEF PlanWave
  <2>2. QED
    BY <1>6, <2>1 DEF PlanWave, Cause
<1>7. CASE PlanAlone
  BY <1>3, <1>4, <1>7 DEF PlanAlone, Cause
<1>8. QED
  BY <1>2, <1>5, <1>6, <1>7 DEF Next, PlanUnresolved

\* What is planned precedes what remains; without it InOrder is not inductive.
OrderInv ==
  /\ InOrder
  /\ NamedInOrder => \A t \in Planned, u \in remaining : t < u

LEMMA OrderStep ==
  ASSUME TypeOK, OrderInv, Next
  PROVE  OrderInv'
<1>0. NamedInOrder' = NamedInOrder
  BY InputKept DEF Next, PlanUnresolved, PlanSerial, PlanWave, PlanAlone, Plan
<1> SUFFICES ASSUME NamedInOrder
             PROVE  /\ \A i, j \in DOMAIN steps' : i < j =>
                         \A t \in TasksOf(i)', u \in TasksOf(j)' : t < u
                    /\ \A t \in Planned', u \in remaining' : t < u
  BY <1>0 DEF OrderInv, InOrder
<1>1. PICK S, mode, cause :
        /\ mode \in {"parallel", "serial"} /\ cause \in Cause
        /\ S \subseteq remaining /\ Plan(S, mode, cause)
        /\ \A t \in S, u \in remaining \ S : t < u
  BY NextTakesFirst
<1>2. S \in SUBSET Task
  BY <1>1 DEF TypeOK
<1>3. PICK last : last = Len(steps) + 1
  OBVIOUS
<1>4. /\ DOMAIN steps' = DOMAIN steps \cup {last}
      /\ \A i \in DOMAIN steps : TasksOf(i)' = TasksOf(i) /\ i < last
      /\ TasksOf(last)' = S
  BY <1>1, <1>2, <1>3, PlanGrows
<1>5. DOMAIN steps \subseteq Nat /\ last \in Nat
  BY <1>3 DEF TypeOK
<1>6. Planned' = Planned \cup S
  BY <1>4 DEF Planned
<1>7. \A t \in Planned, u \in S : t < u
  BY <1>1 DEF OrderInv
<1>8. \A i \in DOMAIN steps : TasksOf(i) \subseteq Planned
  BY DEF Planned
<1>9. ASSUME NEW i \in DOMAIN steps', NEW j \in DOMAIN steps', i < j,
             NEW t \in TasksOf(i)', NEW u \in TasksOf(j)'
      PROVE  t < u
  <2>1. i \in DOMAIN steps
    BY <1>4, <1>5, <1>9
  <2>2. CASE j \in DOMAIN steps
    BY <1>4, <1>9, <2>1, <2>2 DEF OrderInv, InOrder
  <2>3. CASE j = last
    BY <1>4, <1>7, <1>8, <1>9, <2>1, <2>3
  <2>4. QED
    BY <1>4, <2>2, <2>3
<1>10. \A t \in Planned', u \in remaining' : t < u
  BY <1>1, <1>6 DEF OrderInv, Plan
<1>11. QED
  BY <1>9, <1>10

\* Waves keep the order of the files.
THEOREM PlanInFileOrder == Spec => []InOrder
<1>1. Init => OrderInv
  BY DEF Init, OrderInv, InOrder, Planned
<1>2. TypeOK /\ OrderInv /\ [Next]_vars => OrderInv'
  <2> SUFFICES ASSUME TypeOK, OrderInv, [Next]_vars PROVE OrderInv'
    OBVIOUS
  <2>1. CASE UNCHANGED vars
    <3>1. NamedInOrder' = NamedInOrder /\ UNCHANGED <<steps, remaining>>
      BY <2>1, InputKept DEF vars
    <3>2. QED
      BY <3>1 DEF OrderInv, InOrder, Planned, TasksOf
  <2>2. QED
    BY <2>1, OrderStep
<1>3. QED
  BY <1>1, <1>2, PlanTypeCorrect, PTL DEF Spec, OrderInv

-----------------------------------------------------------------------------
\* The loop stops to gather at the cap: everything of a wave but its last member
\* was in it before the last one joined.
LEMMA WaveSize ==
  ASSUME TypeOK, NEW h \in remaining
  PROVE  IsFiniteSet(Wave(h)) /\ Cardinality(Wave(h)) <= cap
<1>1. remaining \subseteq Nat /\ remaining \subseteq 1..N /\ cap \in Nat \ {0} /\ N \in Nat
  BY RemainingNumbers, PlanConstants DEF TypeOK, Task
<1>2. Wave(h) \subseteq 1..N /\ h \in Wave(h)
  <2>1. h <= h /\ \A c \in remaining : ~(h < c /\ c <= h)
    BY <1>1
  <2>2. QED
    BY <1>1, <2>1 DEF Wave
<1>3. IsFiniteSet(1..N)
  BY <1>1, FS_Interval
<1>4. IsFiniteSet(Wave(h))
  BY <1>2, <1>3, FS_Subset
<1>5. PICK m \in Wave(h) : \A t \in Wave(h) : t <= m
  <2> DEFINE D == {N - t : t \in Wave(h)}
  <2>1. D \subseteq Nat /\ D # {}
    BY <1>1, <1>2
  <2>2. PICK d \in D : \A e \in D : d <= e
    BY <2>1, FirstIsLeast
  <2>3. PICK m \in Wave(h) : d = N - m
    BY <2>2
  <2>4. \A t \in Wave(h) : N - m <= N - t
    BY <2>2, <2>3
  <2>5. \A t \in Wave(h) : t <= m
    BY <1>1, <1>2, <2>4
  <2>6. QED
    BY <2>5
<1>6. WaveBefore(h, m) \subseteq 1..N /\ IsFiniteSet(WaveBefore(h, m))
  <2>1. WaveBefore(h, m) \subseteq 1..N
    BY <1>1 DEF WaveBefore
  <2>2. QED
    BY <1>3, <2>1, FS_Subset
<1>7. m \notin WaveBefore(h, m) /\ m \in Nat
  BY <1>1, <1>5, <1>2 DEF WaveBefore
<1>8. Wave(h) \subseteq WaveBefore(h, m) \cup {m}
  <2>1. \A t \in Wave(h) : t \in remaining /\ h <= t
    BY DEF Wave
  <2>2. \A a, b \in Nat : a <= b /\ a # b => a < b
    OBVIOUS
  <2>3. \A t \in Wave(h) : t # m => t < m
    BY <1>1, <1>5, <2>1, <2>2, Zenon
  <2>4. QED
    BY <2>1, <2>3 DEF WaveBefore
<1>9. /\ Cardinality(WaveBefore(h, m)) \in Nat
      /\ IsFiniteSet(WaveBefore(h, m) \cup {m})
      /\ Cardinality(WaveBefore(h, m) \cup {m}) = Cardinality(WaveBefore(h, m)) + 1
  BY <1>6, <1>7, FS_AddElement, FS_CardinalityType
<1>10. Cardinality(WaveBefore(h, m)) < cap
  <2>1. CASE h = m
    <3>1. WaveBefore(h, m) = {}
      <4>1. \A w \in remaining : ~(m <= w /\ w < m)
        BY <1>1, <1>7
      <4>2. QED
        BY <2>1, <4>1 DEF WaveBefore
    <3>2. QED
      BY <1>1, <3>1, FS_EmptySet
  <2>2. CASE h # m
    <3>1. h < m
      BY <1>1, <1>5, <2>2 DEF Wave
    <3>2. QED
      BY <3>1, <1>5 DEF Wave, Joins
  <2>3. QED
    BY <2>1, <2>2
<1>11. Cardinality(Wave(h)) <= Cardinality(WaveBefore(h, m) \cup {m}) /\ Cardinality(Wave(h)) \in Nat
  BY <1>4, <1>8, <1>9, FS_Subset, FS_CardinalityType
<1>12. QED
  BY <1>1, <1>4, <1>9, <1>10, <1>11

LEMMA NextWithinCap ==
  ASSUME TypeOK, Next
  PROVE  \E S, mode, cause :
           /\ mode \in {"parallel", "serial"} /\ cause \in Cause
           /\ S \subseteq remaining /\ Plan(S, mode, cause) /\ Cardinality(S) <= cap
<1>1. \A t : Cardinality({t}) <= cap
  <2>1. cap \in Nat \ {0}
    BY DEF TypeOK
  <2>2. 1 <= cap
    BY <2>1
  <2>3. QED
    BY <2>2, FS_Singleton
<1>2. CASE PlanUnresolved
  <2>1. First(remaining) \in remaining
    BY <1>2, FirstIsLeast, RemainingNumbers DEF PlanUnresolved
  <2>2. QED
    BY <1>1, <1>2, <2>1 DEF PlanUnresolved, Cause
<1>3. CASE PlanSerial
  BY <1>1, <1>3, HeadIsFirst, SerialCauseType DEF PlanSerial
<1>4. CASE PlanWave
  <2>1. HeadTask \in remaining
    BY <1>4, HeadIsFirst DEF PlanWave
  <2>2. Wave(HeadTask) \subseteq remaining /\ Cardinality(Wave(HeadTask)) <= cap
    BY <2>1, WaveSize DEF Wave
  <2>3. QED
    BY <1>4, <2>2 DEF PlanWave, Cause
<1>5. CASE PlanAlone
  BY <1>1, <1>5, HeadIsFirst DEF PlanAlone, Cause
<1>6. QED
  BY <1>2, <1>3, <1>4, <1>5 DEF Next

\* No wave is larger than the cap, whatever max_parallel_workers was asked for.
THEOREM PlanWithinCap == Spec => []WavesWithinCap
<1>1. Init => WavesWithinCap
  BY DEF Init, WavesWithinCap
<1>2. TypeOK /\ WavesWithinCap /\ [Next]_vars => WavesWithinCap'
  <2> SUFFICES ASSUME TypeOK, WavesWithinCap, [Next]_vars PROVE WavesWithinCap'
    OBVIOUS
  <2>1. CASE Next
    <3>1. PICK S, mode, cause :
            /\ mode \in {"parallel", "serial"} /\ cause \in Cause
            /\ S \subseteq remaining /\ Plan(S, mode, cause) /\ Cardinality(S) <= cap
      BY <2>1, NextWithinCap
    <3>2. S \in SUBSET Task /\ cap' = cap
      BY <3>1 DEF TypeOK, Plan, input
    <3>3. PICK last : last = Len(steps) + 1
      OBVIOUS
    <3>4. /\ DOMAIN steps' = DOMAIN steps \cup {last}
          /\ \A i \in DOMAIN steps : TasksOf(i)' = TasksOf(i)
          /\ TasksOf(last)' = S
      BY <3>1, <3>2, <3>3, PlanGrows
    <3>5. QED
      BY <3>1, <3>2, <3>4 DEF WavesWithinCap
  <2>2. CASE UNCHANGED vars
    BY <2>2 DEF vars, input, WavesWithinCap, TasksOf
  <2>3. QED
    BY <2>1, <2>2
<1>3. QED
  BY <1>1, <1>2, PlanTypeCorrect, PTL DEF Spec
==============================================================================

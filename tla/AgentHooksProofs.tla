--------------------------- MODULE AgentHooksProofs --------------------------
(***************************************************************************)
(* Proofs about AgentHooks, for any agent types, modes, calls and main     *)
(* kinds, whether hooks can be killed or not.                              *)
(***************************************************************************)
EXTENDS AgentHooks, FiniteSetTheorems, WellFoundedInduction,
        TLAPS

At(u, places) == hook[u] # None /\ hook[u].at \in places

\* The ranks of intents have a largest one.
RanksBounded == \E n \in Nat : \A w \in ToolUses : pending[w] # None => pending[w].at <= n

\* Claude Code waits for the hook of an event: where a hook can be, by its call.
Phased ==
  \A u \in ToolUses :
    /\ At(u, {"claim", "bind", "start"}) => call[u] = "running"
    /\ At(u, {"count", "write", "commit"}) => call[u] \in {"ended", "over"}
    /\ At(u, {"abort"}) => call[u] \in {"blank", "over"}
    /\ At(u, {"clear"}) => call[u] \in {"ended", "blank", "over"}
    /\ Async => call[u] \notin {"ended", "blank"}

\* Main launches one call at a time ...
OneLaunch == \A u, v \in ToolUses : Launching(u) /\ Launching(v) => u = v

\* ... and its intent is the newest until it is claimed.
LaunchedLast ==
  \A u \in ToolUses :
    call[u] = "allowed" \/ At(u, {"claim"}) =>
      /\ pending[u] # None /\ pending[u].agent = None /\ pending[u].kind.agent = agentOf[u]
      /\ \A w \in ToolUses \ {u} : pending[w] # None => pending[w].at < pending[u].at

\* So an intent is claimed by its own call, if by any.
IntentsOwn ==
  \A w \in ToolUses :
    pending[w] # None =>
      /\ call[w] # "unused"
      /\ pending[w].agent # None => pending[w].agent = w /\ call[w] # "allowed"

\* Every hook works for the call it was started for.
HooksOwn ==
  \A u \in ToolUses :
    /\ At(u, {"claim", "bind", "start", "count", "write", "commit"}) => hook[u].agent = u
    /\ At(u, {"bind", "start", "count", "write", "commit", "abort", "clear"}) => hook[u].tool = u
    /\ At(u, {"bind", "start", "count", "write", "commit", "abort"}) => hook[u].kind # None
    /\ At(u, {"bind", "start"}) => pending[u] # None /\ pending[u].agent = u
    /\ hook[u] # None => hook[u].agent \in {None, u}

CallInv ==
  TypeOK /\ RanksBounded /\ Phased /\ OneLaunch /\ LaunchedLast /\ IntentsOwn /\ HooksOwn

-----------------------------------------------------------------------------
\* What an appended event changes.
LEMMA Logged ==
  ASSUME ledger \in Seq(Event), NEW e \in Event, ledger' = Append(ledger, e)
  PROVE  /\ ledger' \in Seq(Event)
         /\ Len(ledger) \in Nat /\ Len(ledger') = Len(ledger) + 1
         /\ DOMAIN ledger = 1..Len(ledger) /\ DOMAIN ledger' = 1..(Len(ledger) + 1)
         /\ \A i \in DOMAIN ledger : ledger'[i] = ledger[i]
         /\ ledger'[Len(ledger) + 1] = e
         /\ \A t : Events(t)' = Events(t) \cup (IF e.type = t THEN {Len(ledger) + 1} ELSE {})
<1>1. /\ ledger' \in Seq(Event)
      /\ Len(ledger) \in Nat /\ Len(ledger') = Len(ledger) + 1
      /\ DOMAIN ledger = 1..Len(ledger) /\ DOMAIN ledger' = 1..(Len(ledger) + 1)
      /\ \A i \in DOMAIN ledger : ledger'[i] = ledger[i]
      /\ ledger'[Len(ledger) + 1] = e
  OBVIOUS
<1>2. ASSUME NEW t
      PROVE  Events(t)' = Events(t) \cup (IF e.type = t THEN {Len(ledger) + 1} ELSE {})
  BY <1>1 DEF Events
<1>. QED
  BY <1>1, <1>2

\* The events of the ledger can be counted.
LEMMA EventsFinite ==
  ASSUME ledger \in Seq(Event), NEW S, S \subseteq DOMAIN ledger
  PROVE  IsFiniteSet(S) /\ Cardinality(S) \in Nat
<1>1. DOMAIN ledger = 1..Len(ledger) /\ Len(ledger) \in Nat
  OBVIOUS
<1>2. IsFiniteSet(1..Len(ledger))
  BY <1>1, FS_Interval
<1>. QED
  BY <1>1, <1>2, FS_Subset, FS_CardinalityType

LEMMA CountTyped ==
  ASSUME ledger \in Seq(Event)
  PROVE  Cardinality(Receipts) \in Nat /\ \A k : Count(k) \in Nat
BY EventsFinite DEF Receipts, Events, Count

\* A launch takes a rank above all others.
LEMMA TopAbove ==
  ASSUME TypeOK, RanksBounded
  PROVE  Top \in Nat /\ \A w \in ToolUses : pending[w] # None => pending[w].at <= Top
<1>. DEFINE R == Ranks \cup {0}
<1>1. R \subseteq Nat
  BY DEF Ranks, TypeOK, RecordTypeOK, Intent
<1>2. PICK n \in Nat : \A m \in R : m <= n
  BY DEF RanksBounded, Ranks
<1>. DEFINE T == {n - r : r \in R}
<1>3. T \subseteq Nat /\ T # {}
  BY <1>1, <1>2
<1>4. PICK t \in T : \A x \in T : ~(<<x, t>> \in OpToRel(<, Nat))
  BY <1>3, NatLessThanWellFounded, WFMin
<1>5. PICK r \in R : t = n - r
  OBVIOUS
<1>6. ASSUME NEW m \in R PROVE m <= r
  <2>1. n - m \in T
    OBVIOUS
  <2>2. ~(n - m < t)
    BY <1>3, <1>4, <2>1 DEF OpToRel
  <2>. QED
    BY <1>1, <1>5, <2>2
<1>7. Top \in R /\ \A m \in Ranks : m <= Top
  <2>1. \E x \in Ranks \cup {0} : \A m \in Ranks : m <= x
    BY <1>6
  <2>. QED
    BY <2>1, Zenon DEF Top
<1>. QED
  BY <1>1, <1>7 DEF Ranks

-----------------------------------------------------------------------------
\* Every action keeps the types, and the hooks and intents with their calls.
LEMMA CallInit == Init => CallInv
BY RecordConstants, HooksConstants
   DEF Init, RecordInit, CallInv, TypeOK, RecordTypeOK, RanksBounded, Phased, OneLaunch,
       LaunchedLast, IntentsOwn, HooksOwn, At, Launching, Phase

LEMMA PreToolUseTyped ==
  ASSUME CallInv, NEW u \in ToolUses, NEW g \in Agents, PreToolUse(u, g)
  PROVE  CallInv'
<1>. DEFINE new == [kind |-> EffectiveKind(g), auto |-> step = None, agent |-> None,
                    at |-> Top + 1]
<1>. USE RecordConstants, HooksConstants DEF CallInv
<1>1. /\ pending' = [pending EXCEPT ![u] = new] /\ call' = [call EXCEPT ![u] = "allowed"]
      /\ agentOf' = [agentOf EXCEPT ![u] = g]
      /\ UNCHANGED <<run, step, ledger, prose, hook, main, commands>>
  BY DEF PreToolUse, SetIntent, mainVars
<1>2. Top \in Nat /\ \A w \in ToolUses : pending[w] # None => pending[w].at <= Top
  BY TopAbove
<1>3. new \in Intent /\ new.kind.agent = g /\ new.agent = None /\ new.at = Top + 1
  <2>1. EffectiveKind(g) \in Kind /\ EffectiveKind(g).agent = g
    BY DEF EffectiveKind, Kind, PreToolUse, GateAllows, TypeOK, RecordTypeOK, Step
  <2>2. (step = None) \in BOOLEAN
    OBVIOUS
  <2>. QED
    BY <1>2, <2>1, <2>2 DEF Intent, Identity
<1>4. TypeOK'
  BY <1>1, <1>3 DEF TypeOK, RecordTypeOK, Phase
<1>5. \A v \in ToolUses : ~Launching(v) /\ ~At(v, {"claim", "bind", "start"})
  BY PreToolUse(u, g) DEF PreToolUse, MainFree, Launching, At
<1>6. call[u] = "unused" /\ hook[u] = None
  BY PreToolUse(u, g) DEF PreToolUse, Phased, At, TypeOK, Hook
<1>7. /\ pending'[u] = new /\ call'[u] = "allowed" /\ agentOf'[u] = g /\ hook' = hook
      /\ \A w \in ToolUses \ {u} :
           pending'[w] = pending[w] /\ call'[w] = call[w] /\ agentOf'[w] = agentOf[w]
  BY <1>1 DEF TypeOK, RecordTypeOK
<1>8. RanksBounded'
  <2>1. \A w \in ToolUses : pending'[w] # None => pending'[w].at <= Top + 1
    BY <1>2, <1>7 DEF TypeOK, RecordTypeOK, Intent
  <2>. QED
    BY <1>2, <2>1 DEF RanksBounded
<1>9. Phased' /\ HooksOwn'
  BY <1>5, <1>6, <1>7 DEF Phased, HooksOwn, At
<1>10. OneLaunch' /\ LaunchedLast'
  <2>1. \A v \in ToolUses : call'[v] = "allowed" \/ At(v, {"claim"})' \/ Launching(v)' => v = u
    BY <1>5, <1>6, <1>7 DEF Launching, At
  <2>2. new # None
    BY <1>3
  <2>3. \A w \in ToolUses \ {u} : pending[w] # None => pending[w].at < Top + 1
    BY <1>2 DEF TypeOK, RecordTypeOK, Intent
  <2>4. OneLaunch'
    BY <2>1 DEF OneLaunch
  <2>5. LaunchedLast'
    <3>1. ASSUME NEW v \in ToolUses, call'[v] = "allowed" \/ At(v, {"claim"})'
          PROVE  /\ pending'[v] # None /\ pending'[v].agent = None
                 /\ pending'[v].kind.agent = agentOf'[v]
                 /\ \A w \in ToolUses \ {v} : pending'[w] # None => pending'[w].at < pending'[v].at
      BY <1>3, <1>7, <2>1, <2>2, <2>3, <3>1
    <3>. QED
      BY <3>1 DEF LaunchedLast, At
  <2>. QED
    BY <2>4, <2>5
<1>11. IntentsOwn'
  BY <1>7 DEF IntentsOwn
<1>. QED
  BY <1>4, <1>8, <1>9, <1>10, <1>11

LEMMA SpawnTyped ==
  ASSUME CallInv, NEW u \in ToolUses, Spawn(u) PROVE CallInv'
<1>. USE RecordConstants, HooksConstants
     DEF CallInv, Spawn, recordVars, mainVars
<1>1. TypeOK'
  BY DEF TypeOK, RecordTypeOK, Phase, Hook, Identity
<1>2. RanksBounded' /\ Phased' /\ IntentsOwn' /\ HooksOwn'
  BY DEF RanksBounded, Phased, IntentsOwn, HooksOwn, At, TypeOK
<1>3. OneLaunch' /\ LaunchedLast'
  BY DEF OneLaunch, LaunchedLast, Launching, At, TypeOK
<1>. QED
  BY <1>1, <1>2, <1>3

\* An intent is claimed by the call that left it.
LEMMA ClaimsOwn ==
  ASSUME CallInv, NEW u \in ToolUses, At(u, {"claim"}), NEW w \in Newest(agentOf[u])
  PROVE  w = u
BY DEF CallInv, LaunchedLast, Newest, Unclaimed, TypeOK, RecordTypeOK, Intent

LEMMA ClaimTyped ==
  ASSUME CallInv, NEW u \in ToolUses, Claim(u) PROVE CallInv'
<1>. USE RecordConstants, HooksConstants DEF CallInv
<1>1. u \in Newest(agentOf[u])
  BY ClaimsOwn DEF Claim, At
<1>2. /\ At(u, {"claim"}) /\ call[u] = "running"
      /\ pending[u] # None /\ pending[u] \in Intent
      /\ pending' = [pending EXCEPT ![u].agent = u]
      /\ \/ hook' = [hook EXCEPT ![u] = [at |-> IF step # None THEN "bind" ELSE "start",
                                         tool |-> u, agent |-> u, kind |-> pending[u].kind,
                                         occ |-> 0]]
         \/ hook' = [hook EXCEPT ![u] = None]
      /\ UNCHANGED <<run, step, ledger, prose, call, agentOf, main, commands>>
  <2>1. At(u, {"claim"}) /\ call[u] = "running"
    BY DEF Claim, At, Phased
  <2>2. pending[u] # None /\ pending[u] \in Intent
    BY <1>1 DEF Newest, Unclaimed, TypeOK, RecordTypeOK
  <2>3. PICK w \in Newest(agentOf[u]) :
          /\ ClaimIntent(w, u)
          /\ hook' = [hook EXCEPT ![u] =
                        IF step # None \/ (pending[w].auto /\ pending[w].kind.mode = None)
                        THEN [at |-> IF step # None THEN "bind" ELSE "start",
                              tool |-> w, agent |-> u, kind |-> pending[w].kind, occ |-> 0]
                        ELSE None]
    BY DEF Claim
  <2>4. w = u
    BY ClaimsOwn, <2>1
  <2>. QED
    BY <2>1, <2>2, <2>3, <2>4 DEF Claim, ClaimIntent, mainVars
<1>3. /\ pending'[u] \in Intent /\ pending'[u] # None
      /\ pending'[u].agent = u /\ pending'[u].at = pending[u].at
      /\ \A w \in ToolUses \ {u} : pending'[w] = pending[w] /\ hook'[w] = hook[w]
      /\ \/ hook'[u] = None
         \/ hook'[u] \in Hook /\ hook'[u].at \in {"bind", "start"} /\ hook'[u].tool = u
            /\ hook'[u].agent = u /\ hook'[u].kind # None
  BY <1>2 DEF TypeOK, RecordTypeOK, Intent, Hook, Identity
<1>4. TypeOK'
  BY <1>2, <1>3 DEF TypeOK, RecordTypeOK
<1>5. RanksBounded' /\ Phased' /\ HooksOwn'
  BY <1>2, <1>3 DEF RanksBounded, Phased, HooksOwn, At
<1>6. OneLaunch' /\ LaunchedLast'
  BY <1>2, <1>3 DEF OneLaunch, LaunchedLast, Launching, At, Phased
<1>7. IntentsOwn'
  BY <1>2, <1>3 DEF IntentsOwn
<1>. QED
  BY <1>4, <1>5, <1>6, <1>7

\* What is left of a call once its start hook is done: where its hook may be, and
\* for what.
Late(u) ==
  /\ call[u] \notin {"unused", "allowed"} /\ (Async => call[u] \notin {"ended", "blank"})
  /\ ~At(u, {"claim", "bind", "start"})
  /\ At(u, {"count", "write", "commit"}) => call[u] \in {"ended", "over"} /\ hook[u].agent = u
  /\ At(u, {"abort"}) => call[u] \in {"blank", "over"}
  /\ At(u, {"clear"}) => call[u] \in {"ended", "blank", "over"}
  /\ At(u, {"count", "write", "commit", "abort"}) => hook[u].kind # None
  /\ hook[u] # None => hook[u].tool = u /\ hook[u].agent \in {None, u}

\* Nothing but call u and its hook moves, and its intent stays or goes.
Apart(u) ==
  /\ agentOf' = agentOf
  /\ \A w \in ToolUses \ {u} :
       call'[w] = call[w] /\ hook'[w] = hook[w] /\ pending'[w] = pending[w]
  /\ pending'[u] \in {pending[u], None}

LEMMA LateKeeps ==
  ASSUME CallInv, NEW u \in ToolUses, TypeOK', Apart(u), Late(u)'
  PROVE  CallInv'
<1>. USE RecordConstants, HooksConstants DEF CallInv, Apart, Late
<1>0. hook'[u] # None => hook'[u].at \in {"count", "write", "commit", "abort", "clear"}
  BY DEF TypeOK, Hook, At
<1>1. RanksBounded'
  BY DEF RanksBounded
<1>2. Phased'
  BY DEF Phased, At
<1>3. OneLaunch'
  BY DEF OneLaunch, Launching, At
<1>4. LaunchedLast'
  BY DEF LaunchedLast, At
<1>5. IntentsOwn'
  BY DEF IntentsOwn
<1>6. HooksOwn'
  BY <1>0 DEF HooksOwn, At
<1>. QED
  BY <1>1, <1>2, <1>3, <1>4, <1>5, <1>6

\* Main's own commands touch no call, hook or intent.
LEMMA MainKeeps ==
  ASSUME CallInv, TypeOK', UNCHANGED <<pending, call, agentOf, hook>>
  PROVE  CallInv'
BY DEF CallInv, RanksBounded, Phased, OneLaunch, LaunchedLast, IntentsOwn, HooksOwn, At, Launching

\* Logging an event keeps the record typed.
LEMMA LogTyped ==
  ASSUME ledger \in Seq(Event),
         NEW type \in {"started", "completed", "aborted", "finished"},
         NEW k \in Kind \cup {None}, NEW w \in Identity, NEW a \in Identity,
         NEW path \in Path \cup {None}, NEW text \in Author \cup {None},
         Log(type, k, w, a, path, text)
  PROVE  ledger' \in Seq(Event)
<1>1. [type |-> type, kind |-> k, tool |-> w, agent |-> a, path |-> path, text |-> text] \in Event
  BY DEF Event
<1>. QED
  BY <1>1 DEF Log

\* What a hook at work holds, in types.
LEMMA HookTyped ==
  ASSUME CallInv, NEW u \in ToolUses, hook[u] # None
  PROVE  /\ hook[u] \in Hook /\ hook[u].tool \in Identity /\ hook[u].agent \in Identity
         /\ hook[u].occ \in Nat
         /\ hook[u].at \in {"claim", "bind", "start", "count", "write", "commit", "abort", "clear"}
         /\ hook[u].at \notin {"claim", "clear"} =>
              hook[u].kind \in Kind /\ <<hook[u].kind, hook[u].occ>> \in Path
BY DEF CallInv, TypeOK, Hook, HooksOwn, At, Path

LEMMA BindTyped ==
  ASSUME CallInv, NEW u \in ToolUses, Bind(u) PROVE CallInv'
<1>. USE RecordConstants, HooksConstants DEF CallInv, Bind, Exit, mainVars
<1>1. hook[u].tool \in Identity /\ hook[u].agent \in Identity
  BY HookTyped
<1>2. TypeOK'
  BY <1>1 DEF TypeOK, RecordTypeOK, CanBind, BindStep, Step
<1>3. Late(u)' /\ Apart(u)
  BY DEF Late, Apart, At, Phased, TypeOK
<1>. QED
  BY <1>2, <1>3, LateKeeps

LEMMA StartTyped ==
  ASSUME CallInv, NEW u \in ToolUses, Start(u) \/ TornStart(u) PROVE CallInv'
<1>. USE RecordConstants, HooksConstants DEF CallInv
<1>1. /\ hook[u] # None /\ hook[u].tool \in Identity /\ hook[u].agent \in Identity
      /\ hook[u].kind \in Kind /\ Cardinality(Receipts) \in Nat
  BY HookTyped, CountTyped DEF Start, TornStart, TypeOK, RecordTypeOK
<1>2. ledger' \in Seq(Event) /\ step' \in Step \cup {None}
  BY <1>1, LogTyped DEF Start, TornStart, StartStep, TypeOK, RecordTypeOK, Step
<1>3. /\ hook' = [hook EXCEPT ![u] = None]
      /\ UNCHANGED <<run, pending, prose, call, agentOf, main, commands>>
  BY DEF Start, TornStart, Exit, mainVars
<1>4. TypeOK'
  BY <1>2, <1>3 DEF TypeOK, RecordTypeOK
<1>5. Late(u)' /\ Apart(u)
  BY <1>3 DEF Start, TornStart, Late, Apart, At, Phased, TypeOK
<1>. QED
  BY <1>4, <1>5, LateKeeps

\* The hook that ends agent u works for u.
LEMMA FinishTyped ==
  ASSUME CallInv, NEW u \in ToolUses, pending[u] # None,
         NEW at \in {"count", "abort", "clear"}
  PROVE  /\ FinishHook(u, at) \in Hook /\ FinishHook(u, at).at = at
         /\ FinishHook(u, at).tool = u /\ FinishHook(u, at).kind # None
         /\ FinishHook(u, at).agent \in {None, u}
         /\ pending[u].agent # None => FinishHook(u, at).agent = u
<1>1. pending[u] \in Intent
  BY DEF CallInv, TypeOK, RecordTypeOK
<1>. QED
  BY <1>1, RecordConstants DEF CallInv, IntentsOwn, FinishHook, Hook, Intent, Identity

LEMMA AbortOwnTyped ==
  ASSUME CallInv, NEW u \in ToolUses, AbortOwn(u) \/ ClearOwn(u)
  PROVE  \E h \in Hook : /\ hook' = [hook EXCEPT ![u] = h]
                         /\ h.at \in {"abort", "clear"} /\ h.tool = u
                         /\ h.agent \in {None, u} /\ (h.at = "abort" => h.kind # None)
<1>. DEFINE c == [at |-> "clear", tool |-> u, agent |-> None, kind |-> None, occ |-> 0]
<1>1. c \in Hook
  BY DEF Hook, Identity
<1>2. CASE hook' = [hook EXCEPT ![u] = c]
  BY <1>1, <1>2
<1>3. CASE pending[u] # None /\ hook' = [hook EXCEPT ![u] = FinishHook(u, "abort")]
  BY <1>3, FinishTyped
<1>. QED
  BY <1>2, <1>3 DEF AbortOwn, ClearOwn

LEMMA FinishOwnTyped ==
  ASSUME CallInv, NEW u \in ToolUses, NEW w \in ToolUses, pending[w] # None,
         pending[w].agent # None, w = u \/ pending[w].agent = u, NEW phase,
         Finish(u, w, phase = "blank")
  PROVE  \E h \in Hook : /\ hook' = [hook EXCEPT ![u] = h]
                         /\ h.at \in {"clear", IF phase = "blank" THEN "abort" ELSE "count"}
                         /\ h.tool = u /\ h.agent = u /\ h.kind # None
<1>1. w = u
  BY DEF CallInv, IntentsOwn
<1>. DEFINE at == IF ~StepIs(w) THEN "clear" ELSE IF phase = "blank" THEN "abort" ELSE "count"
<1>2. /\ at \in {"count", "abort", "clear"}
      /\ at \in {"clear", IF phase = "blank" THEN "abort" ELSE "count"}
  OBVIOUS
<1>3. hook' = [hook EXCEPT ![u] = FinishHook(u, at)]
  BY <1>1 DEF Finish
<1>4. /\ FinishHook(u, at) \in Hook /\ FinishHook(u, at).at = at
      /\ FinishHook(u, at).tool = u /\ FinishHook(u, at).kind # None
      /\ FinishHook(u, at).agent = u
  BY <1>1, <1>2, FinishTyped
<1>. QED
  BY <1>2, <1>3, <1>4

LEMMA CallEndTyped ==
  ASSUME CallInv, NEW u \in ToolUses,
         SiblingDenies(u) \/ ToolFails(u) \/ PostToolUse(u)
           \/ \E phase \in {"ended", "blank"} : SubagentStop(u, phase)
  PROVE  CallInv'
<1>. USE RecordConstants, HooksConstants
<1>1. /\ call[u] # "unused" /\ hook[u] = None
      /\ UNCHANGED <<recordVars, agentOf, mainVars>>
  <2>1. call[u] = "allowed" => (hook[u] = None)
    BY DEF CallInv, Phased, At, TypeOK, Hook
  <2>. QED
    BY <2>1 DEF SiblingDenies, ToolFails, PostToolUse, SubagentStop
<1>. DEFINE Ends(c) ==
       /\ c \in Phase \ {"unused", "allowed"} /\ (Async => c \notin {"ended", "blank"})
       /\ call' = [call EXCEPT ![u] = c]
       /\ \/ hook' = hook
          \/ \E h \in Hook :
               /\ hook' = [hook EXCEPT ![u] = h]
               /\ h.tool = u /\ h.agent \in {None, u}
               /\ \/ h.at = "clear" /\ c \in {"ended", "blank", "over"}
                  \/ h.at = "abort" /\ h.kind # None /\ c \in {"blank", "over"}
                  \/ h.at = "count" /\ h.kind # None /\ h.agent = u /\ c \in {"ended", "over"}
<1>2. ASSUME SiblingDenies(u) PROVE Ends("over")
  BY <1>2 DEF SiblingDenies, Phase
<1>3. ASSUME ToolFails(u) PROVE Ends("over")
  BY <1>3, AbortOwnTyped DEF ToolFails, Phase
<1>4. ASSUME PostToolUse(u) PROVE Ends("over")
  <2>1. CASE AbortOwn(u) \/ ClearOwn(u)
    BY <1>4, <2>1, AbortOwnTyped DEF PostToolUse, Phase
  <2>2. CASE pending[u] # None /\ pending[u].agent # None /\ Finish(u, u, call[u] = "blank")
    <3>1. \E h \in Hook : /\ hook' = [hook EXCEPT ![u] = h]
                          /\ h.at \in {"clear", IF call[u] = "blank" THEN "abort" ELSE "count"}
                          /\ h.tool = u /\ h.agent = u /\ h.kind # None
      BY <2>2, FinishOwnTyped
    <3>. QED
      BY <1>4, <3>1 DEF PostToolUse, Phase
  <2>3. CASE UNCHANGED hook
    BY <1>4, <2>3 DEF PostToolUse, Phase
  <2>. QED
    BY <1>4, <2>1, <2>2, <2>3 DEF PostToolUse
<1>5. ASSUME NEW phase \in {"ended", "blank"}, SubagentStop(u, phase)
      PROVE  Ends(IF Async THEN "over" ELSE phase)
  <2>1. CASE UNCHANGED hook
    BY <1>5, <2>1 DEF SubagentStop, Phase
  <2>2. CASE \E w \in IntentOf(u) : Finish(u, w, phase = "blank")
    <3>1. \E h \in Hook : /\ hook' = [hook EXCEPT ![u] = h]
                          /\ h.at \in {"clear", IF phase = "blank" THEN "abort" ELSE "count"}
                          /\ h.tool = u /\ h.agent = u /\ h.kind # None
      BY <2>2, FinishOwnTyped DEF IntentOf
    <3>. QED
      BY <1>5, <3>1 DEF SubagentStop, Phase
  <2>. QED
    BY <1>5, <2>1, <2>2 DEF SubagentStop
<1>6. PICK c : Ends(c)
  BY <1>2, <1>3, <1>4, <1>5
<1>7. TypeOK'
  BY <1>1, <1>6 DEF CallInv, TypeOK, RecordTypeOK, recordVars, mainVars
<1>8. Apart(u)
  BY <1>1, <1>6 DEF Apart, CallInv, TypeOK, recordVars
<1>9. Late(u)'
  BY <1>1, <1>6 DEF Late, At, CallInv, TypeOK
<1>. QED
  BY <1>7, <1>8, <1>9, LateKeeps

LEMMA HookMovesTyped ==
  ASSUME CallInv, NEW u \in ToolUses,
         HookCount(u) \/ HookWrite(u) \/ HookClear(u) \/ KillHook(u)
  PROVE  CallInv'
<1>. USE RecordConstants, HooksConstants DEF CallInv, GoTo, Exit, mainVars, recordVars
<1>1. ASSUME HookCount(u) PROVE CallInv'
  <2>1. Count(hook[u].kind) \in Nat
    BY CountTyped DEF TypeOK, RecordTypeOK
  <2>2. TypeOK'
    BY <1>1, <2>1 DEF HookCount, TypeOK, RecordTypeOK, Hook
  <2>3. Late(u)' /\ Apart(u)
    BY <1>1, <2>1 DEF HookCount, Late, Apart, At, Phased, HooksOwn, TypeOK, Hook
  <2>. QED
    BY <2>2, <2>3, LateKeeps
<1>2. ASSUME HookWrite(u) PROVE CallInv'
  <2>1. <<hook[u].kind, hook[u].occ>> \in Path
    BY <1>2, HookTyped DEF HookWrite
  <2>2. DOMAIN prose' \subseteq Path /\ \A f \in DOMAIN prose' : prose'[f] \in Author
    BY <1>2, <2>1 DEF HookWrite, WriteProse, TypeOK, RecordTypeOK, Author
  <2>3. TypeOK'
    BY <1>2, <2>2 DEF HookWrite, TypeOK, RecordTypeOK, Hook
  <2>4. Late(u)' /\ Apart(u)
    BY <1>2 DEF HookWrite, Late, Apart, At, Phased, HooksOwn, TypeOK, Hook
  <2>. QED
    BY <2>3, <2>4, LateKeeps
<1>3. ASSUME HookClear(u) PROVE CallInv'
  <2>1. hook[u].tool = u
    BY <1>3 DEF HookClear, HooksOwn, At
  <2>2. TypeOK'
    BY <1>3, <2>1 DEF HookClear, ClearIntent, TypeOK, RecordTypeOK
  <2>3. Late(u)' /\ Apart(u)
    BY <1>3, <2>1 DEF HookClear, ClearIntent, Late, Apart, At, Phased, TypeOK, RecordTypeOK
  <2>. QED
    BY <2>2, <2>3, LateKeeps
<1>4. ASSUME KillHook(u) PROVE CallInv'
  <2>1. TypeOK'
    BY <1>4 DEF KillHook, TypeOK, RecordTypeOK
  <2>2. hook[u].at \in {"claim", "bind", "start", "count", "write", "commit", "abort", "clear"}
    BY <1>4, HookTyped DEF KillHook
  <2>3. call[u] \notin {"unused", "allowed"}
    BY <1>4, <2>2 DEF KillHook, Phased, At
  <2>4. Late(u)' /\ Apart(u)
    BY <1>4, <2>3 DEF KillHook, Late, Apart, At, Phased, TypeOK
  <2>. QED
    BY <2>1, <2>4, LateKeeps
<1>. QED
  BY <1>1, <1>2, <1>3, <1>4

LEMMA CommitTyped ==
  ASSUME CallInv, NEW u \in ToolUses, HookCommit(u) \/ TornCommit(u) PROVE CallInv'
<1>. USE RecordConstants, HooksConstants DEF CallInv, GoTo, Exit, mainVars
<1>. DEFINE h == hook[u]
<1>1. /\ h # None /\ h.at = "commit" /\ h.tool \in Identity /\ h.agent \in Identity
      /\ h.kind \in Kind /\ <<h.kind, h.occ>> \in Path /\ u \in Author
  BY HookTyped DEF HookCommit, TornCommit, Author
<1>2. ledger' \in Seq(Event) /\ step' \in {step, None}
  <2>1. CASE Log("completed", h.kind, h.tool, h.agent, <<h.kind, h.occ>>, u)
    BY <1>1, <2>1, LogTyped DEF HookCommit, TornCommit, TypeOK, RecordTypeOK
  <2>2. CASE UNCHANGED ledger
    BY <2>2 DEF HookCommit, TornCommit, TypeOK, RecordTypeOK
  <2>. QED
    BY <2>1, <2>2 DEF HookCommit, TornCommit
<1>3. /\ \/ hook' = [hook EXCEPT ![u].at = "clear"]
         \/ hook' = [hook EXCEPT ![u] = None]
      /\ UNCHANGED <<run, pending, prose, call, agentOf, main, commands>>
  BY DEF HookCommit, TornCommit
<1>4. TypeOK'
  <2>1. [h EXCEPT !.at = "clear"] \in Hook
    BY <1>1 DEF TypeOK, Hook
  <2>2. hook' \in [ToolUses -> Hook \cup {None}]
    BY <1>3, <2>1 DEF TypeOK
  <2>. QED
    BY <1>2, <1>3, <2>2 DEF TypeOK, RecordTypeOK
<1>5. Late(u)' /\ Apart(u)
  BY <1>1, <1>3 DEF Late, Apart, At, Phased, HooksOwn, TypeOK, Hook
<1>. QED
  BY <1>4, <1>5, LateKeeps

LEMMA AbortTyped ==
  ASSUME CallInv, NEW u \in ToolUses, HookAbort(u) \/ TornAbort(u) PROVE CallInv'
<1>. USE RecordConstants, HooksConstants DEF CallInv, GoTo, Exit, mainVars
<1>. DEFINE h == hook[u]
<1>1. /\ h # None /\ h.at = "abort" /\ h.tool \in Identity /\ h.agent \in Identity
      /\ h.kind \in Kind
  BY HookTyped DEF HookAbort, TornAbort
<1>2. ledger' \in Seq(Event) /\ step' \in {step, None}
  <2>1. CASE Log("aborted", h.kind, h.tool, h.agent, None, None)
    BY <1>1, <2>1, LogTyped DEF HookAbort, TornAbort, TypeOK, RecordTypeOK
  <2>2. CASE UNCHANGED ledger
    BY <2>2 DEF HookAbort, TornAbort, TypeOK, RecordTypeOK
  <2>. QED
    BY <2>1, <2>2 DEF HookAbort, TornAbort
<1>3. /\ \/ hook' = [hook EXCEPT ![u].at = "clear"]
         \/ hook' = [hook EXCEPT ![u] = None]
      /\ UNCHANGED <<run, pending, prose, call, agentOf, main, commands>>
  BY DEF HookAbort, TornAbort
<1>4. TypeOK'
  <2>1. [h EXCEPT !.at = "clear"] \in Hook
    BY <1>1 DEF TypeOK, Hook
  <2>2. hook' \in [ToolUses -> Hook \cup {None}]
    BY <1>3, <2>1 DEF TypeOK
  <2>. QED
    BY <1>2, <1>3, <2>2 DEF TypeOK, RecordTypeOK
<1>5. Late(u)' /\ Apart(u)
  BY <1>1, <1>3 DEF Late, Apart, At, Phased, HooksOwn, TypeOK, Hook
<1>. QED
  BY <1>4, <1>5, LateKeeps

\* The commands of the main session, once for all.
MainCommand ==
  \/ \E k \in MainKinds : BeginStep(k) \/ EndStepWithFile(k) \/ EndStepFallback(k)
  \/ EndStepWrite \/ EndStepCommit \/ EndRun \/ ForgetRun

LEMMA MainTyped == ASSUME CallInv, MainCommand PROVE CallInv'
<1>. USE RecordConstants, HooksConstants DEF CallInv, callVars, mainVars, recordVars, NextCommand
<1>1. TypeOK'
  <2>1. ASSUME NEW k \in MainKinds, BeginStep(k) PROVE TypeOK'
    <3>1. k \in Kind /\ None \in Identity /\ Cardinality(Receipts) \in Nat
      BY CountTyped DEF TypeOK, RecordTypeOK, Identity
    <3>2. ledger' \in Seq(Event)
      BY <2>1, <3>1, LogTyped DEF BeginStep, StartStep, TypeOK, RecordTypeOK
    <3>. QED
      BY <2>1, <3>1, <3>2 DEF BeginStep, StartStep, TypeOK, RecordTypeOK, Step
  <2>2. ASSUME NEW k \in MainKinds, EndStepWithFile(k) PROVE TypeOK'
    <3>1. <<k, Count(k)>> \in Path
      BY CountTyped DEF TypeOK, RecordTypeOK, Path
    <3>. QED
      BY <2>2, <3>1 DEF EndStepWithFile, TypeOK, RecordTypeOK, Command, Author
  <2>3. ASSUME NEW k \in MainKinds, EndStepFallback(k) PROVE TypeOK'
    BY <2>3 DEF EndStepFallback, TypeOK, RecordTypeOK, Command, Path
  <2>4. ASSUME EndStepWrite PROVE TypeOK'
    <3>1. DOMAIN prose' \subseteq Path /\ \A f \in DOMAIN prose' : prose'[f] \in Author
      BY <2>4 DEF EndStepWrite, WriteProse, TypeOK, RecordTypeOK, Command
    <3>. QED
      BY <2>4, <3>1 DEF EndStepWrite, TypeOK, RecordTypeOK, Command
  <2>5. ASSUME EndStepCommit PROVE TypeOK'
    <3>1. /\ main.path \in Path /\ main.path[1] \in Kind /\ main.text \in Author
          /\ None \in Identity
      BY <2>5 DEF EndStepCommit, TypeOK, Command, Path, Identity
    <3>2. ledger' \in Seq(Event)
      BY <2>5, <3>1, LogTyped DEF EndStepCommit, EndStep, TypeOK, RecordTypeOK
    <3>. QED
      BY <2>5, <3>2 DEF EndStepCommit, EndStep, TypeOK, RecordTypeOK
  <2>6. ASSUME EndRun PROVE TypeOK'
    <3>1. ledger' \in Seq(Event)
      BY <2>6, LogTyped DEF EndRun, FinishRun, TypeOK, RecordTypeOK, Identity
    <3>. QED
      BY <2>6, <3>1 DEF EndRun, FinishRun, TypeOK, RecordTypeOK
  <2>7. ASSUME ForgetRun PROVE TypeOK'
    BY <2>7 DEF ForgetRun, TypeOK, RecordTypeOK
  <2>. QED
    BY <2>1, <2>2, <2>3, <2>4, <2>5, <2>6, <2>7 DEF MainCommand
<1>2. UNCHANGED <<pending, call, agentOf, hook>>
  BY DEF MainCommand, BeginStep, EndStepWithFile, EndStepFallback, EndStepWrite, EndStepCommit,
         EndRun, ForgetRun
<1>. QED
  BY <1>1, <1>2, MainKeeps

LEMMA CallNext == CallInv /\ [Next]_vars => CallInv'
<1>. SUFFICES ASSUME CallInv, [Next]_vars PROVE CallInv'
  OBVIOUS
<1>1. CASE MainStep
  BY <1>1, PreToolUseTyped, MainTyped DEF MainStep, MainCommand
<1>2. ASSUME NEW u \in ToolUses, CallStep(u) PROVE CallInv'
  BY <1>2, SpawnTyped, CallEndTyped DEF CallStep
<1>3. ASSUME NEW u \in ToolUses, HookStep(u) PROVE CallInv'
  BY <1>3, ClaimTyped, BindTyped, StartTyped, HookMovesTyped, CommitTyped, AbortTyped DEF HookStep
<1>4. ASSUME NEW u \in ToolUses, HookDies(u) PROVE CallInv'
  BY <1>4, HookMovesTyped, StartTyped, CommitTyped, AbortTyped DEF HookDies
<1>5. CASE UNCHANGED vars
  <2>1. TypeOK'
    BY <1>5 DEF CallInv, vars, recordVars, callVars, mainVars, TypeOK, RecordTypeOK
  <2>. QED
    BY <1>5, <2>1, MainKeeps DEF vars, recordVars, callVars
<1>. QED
  BY <1>1, <1>2, <1>3, <1>4, <1>5 DEF Next

\* The record, the calls and the hooks stay within their types.
THEOREM HooksTyped == Spec => []TypeOK
<1>1. Spec => []CallInv
  BY CallInit, CallNext, PTL DEF Spec
<1>2. CallInv => TypeOK
  BY DEF CallInv
<1>. QED
  BY <1>1, <1>2, PTL

-----------------------------------------------------------------------------
\* What a step logs.  The end of an agent is logged by the hook of its own call.
Entry(type, k, u, a, path, text) ==
  [type |-> type, kind |-> k, tool |-> u, agent |-> a, path |-> path, text |-> text]

LogsReceipt(u, e) ==
  /\ HookCommit(u) \/ TornCommit(u)
  /\ At(u, {"commit"}) /\ Readable /\ ~HasReceipt(u) /\ Matches(hook[u].kind, u, u)
  /\ e = Entry("completed", hook[u].kind, u, u, <<hook[u].kind, hook[u].occ>>, u)

LogsAbort(u, e) ==
  /\ HookAbort(u) \/ TornAbort(u)
  /\ At(u, {"abort"}) /\ hook[u].agent \in {None, u} /\ Matches(hook[u].kind, u, hook[u].agent)
  /\ e = Entry("aborted", hook[u].kind, u, hook[u].agent, None, None)

LogsStep(e) ==
  /\ EndStepCommit
  /\ e = Entry("completed", main.path[1], None, None, main.path, main.text)
  /\ e.kind # None /\ e.path # None

Logs(e) ==
  /\ ledger' = Append(ledger, e)
  /\ \/ e.type = "started" /\ step = None /\ \E u \in ToolUses : Start(u) \/ TornStart(u)
     \/ e.type = "started" /\ \E k \in MainKinds : BeginStep(k)
     \/ e.type = "finished" /\ EndRun
     \/ LogsStep(e)
     \/ \E u \in ToolUses : LogsReceipt(u, e) \/ LogsAbort(u, e)

LEMMA WhatIsLogged ==
  ASSUME CallInv, [Next]_vars
  PROVE  (UNCHANGED ledger) \/ \E e \in Event : Logs(e)
<1>. USE RecordConstants, HooksConstants
<1>1. ASSUME NEW u \in ToolUses, Start(u) \/ TornStart(u), ledger' # ledger
      PROVE  \E e \in Event : Logs(e)
  <2>. DEFINE e == Entry("started", hook[u].kind, hook[u].tool, hook[u].agent, None, None)
  <2>1. ledger' = Append(ledger, e) /\ step = None
    BY <1>1 DEF Start, TornStart, StartStep, Log, Entry
  <2>2. e \in Event /\ e.type = "started"
    BY <1>1, HookTyped DEF Entry, Event, Start, TornStart
  <2>. QED
    BY <1>1, <2>1, <2>2 DEF Logs
<1>2. ASSUME NEW u \in ToolUses, HookCommit(u) \/ TornCommit(u), ledger' # ledger
      PROVE  \E e \in Event : Logs(e)
  <2>. DEFINE e == Entry("completed", hook[u].kind, u, u, <<hook[u].kind, hook[u].occ>>, u)
  <2>1. At(u, {"commit"}) /\ hook[u].tool = u /\ hook[u].agent = u
    BY <1>2 DEF HookCommit, TornCommit, At, CallInv, HooksOwn
  <2>2. ledger' = Append(ledger, e) /\ LogsReceipt(u, e)
    BY <1>2, <2>1 DEF HookCommit, TornCommit, Log, Entry, LogsReceipt
  <2>3. e \in Event
    BY <2>1, HookTyped DEF Entry, Event, At, Identity, Author
  <2>. QED
    BY <2>2, <2>3 DEF Logs
<1>3. ASSUME NEW u \in ToolUses, HookAbort(u) \/ TornAbort(u), ledger' # ledger
      PROVE  \E e \in Event : Logs(e)
  <2>. DEFINE e == Entry("aborted", hook[u].kind, u, hook[u].agent, None, None)
  <2>1. At(u, {"abort"}) /\ hook[u].tool = u /\ hook[u].agent \in {None, u}
    BY <1>3 DEF HookAbort, TornAbort, At, CallInv, HooksOwn
  <2>2. ledger' = Append(ledger, e) /\ LogsAbort(u, e)
    BY <1>3, <2>1 DEF HookAbort, TornAbort, Log, Entry, LogsAbort
  <2>3. e \in Event
    BY <2>1, HookTyped DEF Entry, Event, At, Identity
  <2>. QED
    BY <2>2, <2>3 DEF Logs
<1>4. ASSUME NEW k \in MainKinds, BeginStep(k) PROVE \E e \in Event : Logs(e)
  <2>. DEFINE e == Entry("started", k, None, None, None, None)
  <2>1. ledger' = Append(ledger, e) /\ e \in Event /\ e.type = "started"
    BY <1>4 DEF BeginStep, StartStep, Log, Entry, Event, Identity
  <2>. QED
    BY <1>4, <2>1 DEF Logs
<1>5. ASSUME EndStepCommit PROVE \E e \in Event : Logs(e)
  <2>. DEFINE e == Entry("completed", main.path[1], None, None, main.path, main.text)
  <2>1. main.path \in Path /\ main.path[1] \in Kind /\ main.text \in Author
    BY <1>5 DEF CallInv, TypeOK, EndStepCommit, Command, Path
  <2>2. ledger' = Append(ledger, e) /\ e \in Event /\ LogsStep(e)
    BY <1>5, <2>1 DEF EndStepCommit, EndStep, Log, Entry, Event, Identity, LogsStep
  <2>. QED
    BY <2>2 DEF Logs
<1>6. ASSUME EndRun PROVE \E e \in Event : Logs(e)
  <2>. DEFINE e == Entry("finished", None, None, None, None, None)
  <2>1. ledger' = Append(ledger, e) /\ e \in Event /\ e.type = "finished"
    BY <1>6 DEF EndRun, FinishRun, Log, Entry, Event, Identity
  <2>. QED
    BY <1>6, <2>1 DEF Logs
<1>7. CASE MainStep
  BY <1>4, <1>5, <1>6, <1>7
     DEF MainStep, PreToolUse, EndStepWithFile, EndStepFallback, EndStepWrite, ForgetRun, recordVars
<1>8. CASE \E u \in ToolUses : CallStep(u)
  BY <1>8 DEF CallStep, SiblingDenies, Spawn, PostToolUse, ToolFails, SubagentStop, recordVars
<1>9. CASE \E u \in ToolUses : HookStep(u) \/ HookDies(u)
  BY <1>1, <1>2, <1>3, <1>9
     DEF HookStep, HookDies, Claim, Bind, BindStep, HookCount, HookWrite, HookClear, KillHook,
         recordVars
<1>10. CASE UNCHANGED vars
  BY <1>10 DEF vars, recordVars
<1>. QED
  BY <1>7, <1>8, <1>9, <1>10 DEF Next

-----------------------------------------------------------------------------
\* The current step is bound to a call and its agent, or to nothing; an intent
\* that its call has not claimed has no step.
StepOfCall(u) ==
  /\ call[u] \notin {"unused", "allowed"} /\ ~At(u, {"claim"})
  /\ pending[u] # None => pending[u].agent = u
  /\ At(u, {"abort"}) => hook[u].agent = u

StepOwn ==
  step # None =>
    step.tool = step.agent /\ \A u \in ToolUses : step.tool = u => StepOfCall(u)

\* What is logged for an agent is logged for its call, with its text.
EventsOwn ==
  \A i \in Receipts \cup Events("aborted") :
    ledger[i].agent # None =>
      ledger[i].tool = ledger[i].agent /\ ledger[i].agent \in ToolUses

ReceiptsOwn ==
  \A i \in Receipts :
    /\ ledger[i].kind # None /\ ledger[i].path # None
    /\ ledger[i].tool = ledger[i].agent
    /\ ledger[i].agent # None => ledger[i].text = ledger[i].agent

OwnInv == CallInv /\ StepOwn /\ EventsOwn /\ ReceiptsOwn

LEMMA EventsKept ==
  ASSUME UNCHANGED ledger PROVE Receipts' = Receipts /\ \A t : Events(t)' = Events(t)
BY DEF Receipts, Events

LEMMA LedgerOwn ==
  ASSUME OwnInv, [Next]_vars PROVE EventsOwn' /\ ReceiptsOwn'
<1>. USE RecordConstants, HooksConstants DEF OwnInv, EventsOwn, ReceiptsOwn
<1>1. CASE UNCHANGED ledger
  BY <1>1, EventsKept
<1>2. ASSUME NEW e \in Event, Logs(e) PROVE EventsOwn' /\ ReceiptsOwn'
  <2>1. ledger \in Seq(Event) /\ ledger' = Append(ledger, e)
    BY <1>2 DEF Logs, CallInv, TypeOK, RecordTypeOK
  <2>2. /\ \A i \in DOMAIN ledger : ledger'[i] = ledger[i]
        /\ ledger'[Len(ledger) + 1] = e
        /\ \A t : Events(t)' = Events(t) \cup (IF e.type = t THEN {Len(ledger) + 1} ELSE {})
    BY <2>1, Logged
  <2>3. /\ e.type \in {"completed", "aborted"} /\ e.agent # None =>
             e.tool = e.agent /\ e.agent \in ToolUses
        /\ e.type = "completed" =>
             /\ e.kind # None /\ e.path # None /\ e.tool = e.agent
             /\ e.agent # None => e.text = e.agent
    <3>1. CASE LogsStep(e)
      BY <3>1 DEF LogsStep, Entry
    <3>2. ASSUME NEW u \in ToolUses, LogsReceipt(u, e)
          PROVE  /\ e.tool = u /\ e.agent = u /\ e.text = u /\ e.type = "completed"
                 /\ e.kind # None /\ e.path # None
      <4>1. hook[u].kind \in Kind /\ <<hook[u].kind, hook[u].occ>> \in Path
        BY <3>2, HookTyped DEF LogsReceipt, At
      <4>. QED
        BY <3>2, <4>1 DEF LogsReceipt, Entry
    <3>3. ASSUME NEW u \in ToolUses, LogsAbort(u, e)
          PROVE  e.tool = u /\ e.agent \in {None, u} /\ e.type = "aborted"
      BY <3>3 DEF LogsAbort, Entry
    <3>. QED
      BY <1>2, <3>1, <3>2, <3>3 DEF Logs
  <2>4. \A t : \A i \in Events(t) : i \in DOMAIN ledger
    BY DEF Events
  <2>. QED
    BY <2>2, <2>3, <2>4 DEF Receipts
<1>. QED
  BY <1>1, <1>2, WhatIsLogged DEF OwnInv

LEMMA StepOwnNext ==
  ASSUME OwnInv, [Next]_vars PROVE StepOwn'
<1>. USE RecordConstants, HooksConstants DEF OwnInv
<1>1. ASSUME NEW u \in ToolUses, NEW g \in Agents, PreToolUse(u, g) PROVE StepOwn'
  <2>1. call[u] = "unused" /\ step' = step /\ hook' = hook
    BY <1>1 DEF PreToolUse
  <2>2. \A v \in ToolUses \ {u} : call'[v] = call[v] /\ pending'[v] = pending[v]
    BY <1>1 DEF PreToolUse, SetIntent, CallInv, TypeOK, RecordTypeOK
  <2>. QED
    BY <2>1, <2>2 DEF StepOwn, StepOfCall, At
<1>2. ASSUME NEW u \in ToolUses, Spawn(u) PROVE StepOwn'
  BY <1>2 DEF Spawn, recordVars, StepOwn, StepOfCall, At, CallInv, TypeOK
<1>3. ASSUME NEW u \in ToolUses, Claim(u) PROVE StepOwn'
  <2>1. At(u, {"claim"}) /\ step' = step /\ call' = call
    BY <1>3 DEF Claim, At
  <2>2. \A v \in ToolUses \ {u} : hook'[v] = hook[v] /\ pending'[v] = pending[v]
    BY <1>3, <2>1, ClaimsOwn DEF Claim, ClaimIntent, CallInv, TypeOK, RecordTypeOK
  <2>. QED
    BY <2>1, <2>2 DEF StepOwn, StepOfCall, At
<1>4. ASSUME NEW u \in ToolUses, Bind(u) \/ Start(u) \/ TornStart(u) PROVE StepOwn'
  <2>1. /\ hook[u].tool = u /\ hook[u].agent = u /\ pending[u] # None /\ pending[u].agent = u
        /\ call[u] = "running" /\ hook' = [hook EXCEPT ![u] = None]
        /\ UNCHANGED <<call, pending>>
    BY <1>4 DEF Bind, Start, TornStart, At, CallInv, HooksOwn, Phased, Exit
  <2>2. step' \in {step, None} \/ (step'.tool = u /\ step'.agent = u)
    <3>1. CASE step' = step
      BY <3>1
    <3>2. CASE BindStep(u, u) /\ step # None
      BY <3>2 DEF BindStep, CallInv, TypeOK, RecordTypeOK, Step
    <3>3. CASE StartStep(hook[u].kind, u, u)
      BY <3>3 DEF StartStep
    <3>. QED
      BY <1>4, <2>1, <3>1, <3>2, <3>3 DEF Bind, Start, TornStart, CanBind
  <2>3. StepOfCall(u)' /\ \A v \in ToolUses : StepOfCall(v) => StepOfCall(v)'
    BY <2>1 DEF StepOfCall, At, CallInv, TypeOK
  <2>. QED
    BY <2>2, <2>3 DEF StepOwn
<1>5. ASSUME NEW u \in ToolUses,
             SiblingDenies(u) \/ ToolFails(u) \/ PostToolUse(u)
               \/ \E phase \in {"ended", "blank"} : SubagentStop(u, phase)
      PROVE  StepOwn'
  <2>1. /\ UNCHANGED <<step, pending>> /\ hook[u] = None
        /\ \A v \in ToolUses \ {u} : hook'[v] = hook[v] /\ call'[v] = call[v]
        /\ call'[u] \notin {"unused", "allowed"}
    <3>1. call[u] = "allowed" => hook[u] = None
      BY DEF CallInv, Phased, At, TypeOK, Hook
    <3>. QED
      BY <1>5, <3>1
         DEF SiblingDenies, ToolFails, PostToolUse, SubagentStop, recordVars, AbortOwn, ClearOwn,
             Finish, CallInv, TypeOK
  <2>2. hook'[u] # None =>
          /\ hook'[u].at \in {"abort", "clear", "count"}
          /\ hook'[u].at = "abort" =>
               hook'[u].agent = u \/ (pending[u] # None /\ hook'[u].agent = pending[u].agent)
    <3>1. CASE UNCHANGED hook
      BY <2>1, <3>1
    <3>2. CASE AbortOwn(u) \/ ClearOwn(u)
      BY <3>2 DEF AbortOwn, ClearOwn, FinishHook, CallInv, TypeOK
    <3>3. ASSUME NEW w \in ToolUses, pending[w] # None, pending[w].agent # None,
                 w = u \/ pending[w].agent = u, NEW phase, Finish(u, w, phase = "blank")
          PROVE  hook'[u].at \in {"abort", "clear", "count"} /\ hook'[u].agent = u
      <4>1. PICK h \in Hook :
              /\ hook' = [hook EXCEPT ![u] = h] /\ h.agent = u
              /\ h.at \in {"clear", IF phase = "blank" THEN "abort" ELSE "count"}
        BY <3>3, FinishOwnTyped
      <4>2. hook'[u] = h
        BY <4>1 DEF CallInv, TypeOK
      <4>. QED
        BY <4>1, <4>2
    <3>. QED
      BY <1>5, <3>1, <3>2, <3>3 DEF SiblingDenies, ToolFails, PostToolUse, SubagentStop, IntentOf
  <2>3. \A v \in ToolUses : StepOfCall(v) => StepOfCall(v)'
    BY <2>1, <2>2 DEF StepOfCall, At
  <2>. QED
    BY <2>1, <2>3 DEF StepOwn
<1>6. ASSUME NEW u \in ToolUses,
             HookCount(u) \/ HookWrite(u) \/ HookCommit(u) \/ HookAbort(u) \/ HookClear(u)
               \/ KillHook(u) \/ TornCommit(u) \/ TornAbort(u)
      PROVE  StepOwn'
  <2>1. /\ step' \in {step, None} /\ call' = call
        /\ \A v \in ToolUses \ {u} : hook'[v] = hook[v] /\ pending'[v] = pending[v]
        /\ pending'[u] \in {pending[u], None}
        /\ hook'[u] = None \/ hook'[u].at \in {"write", "commit", "clear"}
    <3>1. hook[u].at = "clear" /\ hook[u] # None => hook[u].tool = u
      BY DEF CallInv, HooksOwn, At
    <3>. QED
      BY <1>6, <3>1
         DEF HookCount, HookWrite, HookCommit, HookAbort, HookClear, KillHook, TornCommit, TornAbort,
             ClearIntent, GoTo, Exit, recordVars, CallInv, TypeOK, RecordTypeOK, Hook
  <2>2. \A v \in ToolUses : StepOfCall(v) => StepOfCall(v)'
    BY <2>1 DEF StepOfCall, At
  <2>. QED
    BY <2>1, <2>2 DEF StepOwn
<1>7. CASE MainCommand
  <2>1. /\ UNCHANGED <<call, hook, pending>>
        /\ step' \in {step, None} \/ (step'.tool = None /\ step'.agent = None)
    <3>1. ASSUME NEW k \in MainKinds, BeginStep(k)
          PROVE  step'.tool = None /\ step'.agent = None /\ UNCHANGED <<call, hook, pending>>
      BY <3>1 DEF BeginStep, StartStep, callVars
    <3>2. ASSUME NEW k \in MainKinds, EndStepWithFile(k) \/ EndStepFallback(k)
          PROVE  UNCHANGED <<call, hook, pending, step>>
      BY <3>2 DEF EndStepWithFile, EndStepFallback, callVars, recordVars
    <3>3. ASSUME EndStepWrite \/ EndStepCommit \/ EndRun \/ ForgetRun
          PROVE  step' \in {step, None} /\ UNCHANGED <<call, hook, pending>>
      BY <3>3 DEF EndStepWrite, EndStepCommit, EndStep, EndRun, FinishRun, ForgetRun, callVars
    <3>. QED
      BY <1>7, <3>1, <3>2, <3>3 DEF MainCommand
  <2>. QED
    BY <2>1 DEF StepOwn, StepOfCall, At
<1>8. CASE UNCHANGED vars
  BY <1>8 DEF vars, recordVars, callVars, StepOwn, StepOfCall, At
<1>. QED
  BY <1>1, <1>2, <1>3, <1>4, <1>5, <1>6, <1>7, <1>8
     DEF Next, MainStep, MainCommand, CallStep, HookStep, HookDies

LEMMA OwnInit == Init => OwnInv
BY CallInit DEF Init, RecordInit, OwnInv, StepOwn, EventsOwn, ReceiptsOwn, Receipts, Events

LEMMA OwnNext == OwnInv /\ [Next]_vars => OwnInv'
BY CallNext, LedgerOwn, StepOwnNext DEF OwnInv

\* A receipt goes to the call that spawned its agent, and has that agent's text:
\* foreground or not, and wherever hooks are killed.
THEOREM ReceiptsCorrelated == Spec => []ReceiptCorrelated
<1>1. OwnInv => ReceiptCorrelated
  BY DEF OwnInv, ReceiptsOwn, ReceiptCorrelated
<1>. QED
  BY <1>1, OwnInit, OwnNext, PTL DEF Spec

-----------------------------------------------------------------------------
\* Foreground calls: one call, or one command of main, is at work at a time.
Busy(u) == call[u] \notin {"unused", "over"} \/ hook[u] # None

OneAtWork ==
  /\ \A u, v \in ToolUses : Busy(u) /\ Busy(v) => u = v
  /\ main # None => \A u \in ToolUses : ~Busy(u)

\* The next prose file of a kind is past the files of all its receipts ...
PathsBelow ==
  \A i \in Receipts : /\ ledger[i].path[1] = ledger[i].kind
                      /\ ledger[i].path[2] < Count(ledger[i].kind)

\* ... and what is about to be logged is in the file it names.
Holding(path, text) == path \in DOMAIN prose /\ prose[path] = text

HookAbout(u) ==
  /\ At(u, {"write", "commit"}) => hook[u].occ = Count(hook[u].kind)
  /\ At(u, {"commit"}) => Holding(<<hook[u].kind, hook[u].occ>>, u)

MainAbout ==
  main # None =>
    /\ main.path[2] <= Count(main.path[1])
    /\ main.at = "write" => main.path[2] = Count(main.path[1])
    /\ main.at = "commit" => Holding(main.path, main.text)

AboutToLog == (\A u \in ToolUses : HookAbout(u)) /\ MainAbout

ForegroundInv == OneAtWork /\ PathsBelow /\ AboutToLog /\ Readable

LEMMA AtWorkNext ==
  ASSUME OwnInv, OneAtWork, ~Async, [Next]_vars PROVE OneAtWork'
<1>. USE DEF OwnInv
<1>1. ASSUME NEW u \in ToolUses, NEW g \in Agents, PreToolUse(u, g) PROVE OneAtWork'
  <2>1. main' = None /\ \A v \in ToolUses \ {u} : ~Busy(v) /\ call'[v] = call[v] /\ hook'[v] = hook[v]
    BY <1>1 DEF PreToolUse, MainFree, mainVars, Busy, CallInv, TypeOK
  <2>. QED
    BY <2>1 DEF OneAtWork, Busy
<1>2. ASSUME NEW u \in ToolUses, CallStep(u) \/ HookStep(u) \/ HookDies(u) PROVE OneAtWork'
  <2>1. /\ Busy(u) /\ main' = main
        /\ \A v \in ToolUses \ {u} : call'[v] = call[v] /\ hook'[v] = hook[v]
    <3>1. CASE CallStep(u)
      BY <3>1
         DEF CallStep, SiblingDenies, Spawn, PostToolUse, ToolFails, SubagentStop, AbortOwn, ClearOwn,
             Finish, mainVars, Busy, CallInv, TypeOK
    <3>2. CASE HookStep(u)
      BY <3>2
         DEF HookStep, Claim, Bind, Start, HookCount, HookWrite, HookCommit, HookAbort, HookClear,
             GoTo, Exit, mainVars, Busy, CallInv, TypeOK
    <3>3. CASE HookDies(u)
      BY <3>3
         DEF HookDies, KillHook, TornStart, TornCommit, TornAbort, Exit, mainVars, Busy, CallInv, TypeOK
    <3>. QED
      BY <1>2, <3>1, <3>2, <3>3
  <2>. QED
    BY <2>1 DEF OneAtWork, Busy
<1>3. CASE MainCommand
  <2>1. UNCHANGED <<call, hook>> /\ (main = None /\ main' # None => \A u \in ToolUses : ~Busy(u))
    BY <1>3
       DEF MainCommand, BeginStep, EndStepWithFile, EndStepFallback, EndStepWrite, EndStepCommit,
           EndRun, ForgetRun, NextCommand, MainFree, mainVars, callVars, Busy
  <2>. QED
    BY <2>1 DEF OneAtWork, Busy
<1>4. CASE UNCHANGED vars
  BY <1>4 DEF vars, callVars, mainVars, OneAtWork, Busy
<1>. QED
  BY <1>1, <1>2, <1>3, <1>4 DEF Next, MainStep, MainCommand

\* A receipt counts for its kind, and what else is logged counts for none.
LEMMA Counted ==
  ASSUME ledger \in Seq(Event), NEW e \in Event, ledger' = Append(ledger, e), NEW k
  PROVE  Count(k)' = IF e.type = "completed" /\ e.kind = k THEN Count(k) + 1 ELSE Count(k)
<1>. DEFINE n == Len(ledger) + 1
            S == {i \in Receipts : ledger[i].kind = k}
            N == {i \in Receipts' : ledger'[i].kind = k}
<1>1. /\ DOMAIN ledger = 1..Len(ledger) /\ Len(ledger) \in Nat
      /\ \A i \in DOMAIN ledger : ledger'[i] = ledger[i]
      /\ ledger'[n] = e
      /\ Receipts' = Receipts \cup (IF e.type = "completed" THEN {n} ELSE {})
  BY Logged DEF Receipts
<1>2. Receipts \subseteq DOMAIN ledger
  BY DEF Receipts, Events
<1>3. N = IF e.type = "completed" /\ e.kind = k THEN S \cup {n} ELSE S
  BY <1>1, <1>2
<1>4. IsFiniteSet(S) /\ n \notin S
  BY <1>1, <1>2, EventsFinite
<1>5. Cardinality(S \cup {n}) = Cardinality(S) + 1
  BY <1>4, FS_AddElement
<1>. QED
  BY <1>3, <1>5 DEF Count

\* The receipts stay as they are.
SameReceipts ==
  /\ Receipts' = Receipts
  /\ \A i \in Receipts : ledger'[i] = ledger[i]
  /\ \A k : Count(k)' = Count(k)

LEMMA NoReceiptLogged ==
  ASSUME ledger \in Seq(Event),
         UNCHANGED ledger \/ \E e \in Event : ledger' = Append(ledger, e) /\ e.type # "completed"
  PROVE  SameReceipts
<1>1. CASE UNCHANGED ledger
  BY <1>1 DEF SameReceipts, Receipts, Events, Count
<1>2. ASSUME NEW e \in Event, ledger' = Append(ledger, e), e.type # "completed"
      PROVE  SameReceipts
  <2>1. Receipts' = Receipts /\ \A i \in DOMAIN ledger : ledger'[i] = ledger[i]
    <3>1. /\ \A i \in DOMAIN ledger : ledger'[i] = ledger[i]
          /\ \A t : Events(t)' = Events(t) \cup (IF e.type = t THEN {Len(ledger) + 1} ELSE {})
      BY <1>2, Logged
    <3>. QED
      BY <1>2, <3>1 DEF Receipts
  <2>2. \A k : Count(k)' = Count(k)
    BY <1>2, Counted
  <2>. QED
    BY <2>1, <2>2 DEF SameReceipts, Receipts, Events
<1>. QED
  BY <1>1, <1>2

\* A step of no concern to receipts and prose files.
LEMMA QuietKeeps ==
  ASSUME ForegroundInv, SameReceipts, prose' = prose,
         \A u \in ToolUses : At(u, {"write", "commit"})' => hook'[u] = hook[u],
         main' = main
  PROVE  PathsBelow' /\ AboutToLog' /\ Readable'
<1>. USE DEF ForegroundInv, SameReceipts
<1>1. PathsBelow'
  BY DEF PathsBelow
<1>2. \A u \in ToolUses : HookAbout(u)'
  BY DEF AboutToLog, HookAbout, At, Holding
<1>3. MainAbout'
  BY DEF AboutToLog, MainAbout, Holding
<1>4. Readable'
  BY DEF Readable, Valid
<1>. QED
  BY <1>1, <1>2, <1>3, <1>4 DEF AboutToLog

\* A receipt is logged for what the process has written.
LEMMA ReceiptKeeps ==
  ASSUME OwnInv, ForegroundInv, ledger \in Seq(Event), prose' = prose,
         NEW e \in Event, ledger' = Append(ledger, e), e.type = "completed",
         e.path[1] = e.kind, e.path[2] \in Nat, e.path[2] <= Count(e.kind),
         Holding(e.path, e.text)
  PROVE  PathsBelow' /\ Readable' /\ \A k : Count(k)' \in {Count(k), Count(k) + 1}
<1>. DEFINE n == Len(ledger) + 1
<1>1. /\ \A i \in DOMAIN ledger : ledger'[i] = ledger[i]
      /\ ledger'[n] = e
      /\ \A t : Events(t)' = Events(t) \cup (IF e.type = t THEN {n} ELSE {})
  BY Logged
<1>2. /\ Receipts' = Receipts \cup {n} /\ Receipts \subseteq DOMAIN ledger
  BY <1>1 DEF Receipts, Events
<1>3. \A k : Count(k) \in Nat
  BY CountTyped
<1>4. \A k : Count(k)' = IF e.kind = k THEN Count(k) + 1 ELSE Count(k)
  BY Counted
<1>5. \A i \in Receipts : ledger[i].path[2] \in Nat
  <2>1. TAKE i \in Receipts
  <2>2. ledger[i] \in Event /\ ledger[i].path # None
    BY <1>2 DEF OwnInv, ReceiptsOwn
  <2>3. ledger[i].path \in Path
    BY <2>2 DEF Event
  <2>. QED
    BY <2>3 DEF Path
<1>. DEFINE Counts(k) == Cardinality({j \in Receipts' : ledger'[j].kind = k})
<1>6. \A k : Counts(k) = IF e.kind = k THEN Count(k) + 1 ELSE Count(k)
  BY <1>4 DEF Count
<1>7. PathsBelow'
  <2>. HIDE DEF Counts
  <2>1. \A i \in Receipts' :
          ledger'[i].path[1] = ledger'[i].kind /\ ledger'[i].path[2] < Counts(ledger'[i].kind)
    <3>1. ASSUME NEW i \in Receipts
          PROVE  ledger[i].path[1] = ledger[i].kind /\ ledger[i].path[2] < Counts(ledger[i].kind)
      BY <1>3, <1>5, <1>6 DEF ForegroundInv, PathsBelow
    <3>2. e.path[2] < Counts(e.kind)
      BY <1>3, <1>6
    <3>. QED
      BY <1>1, <1>2, <3>1, <3>2
  <2>. QED
    BY <2>1 DEF PathsBelow, Count, Counts
<1>8. Readable'
  BY <1>1, <1>2 DEF ForegroundInv, Readable, Valid, Holding
<1>. QED
  BY <1>4, <1>7, <1>8

LEMMA CommitKeeps ==
  ASSUME OwnInv, ForegroundInv, NEW u \in ToolUses, NEW e \in Event, Logs(e), LogsReceipt(u, e)
  PROVE  PathsBelow' /\ AboutToLog' /\ Readable'
<1>. DEFINE h == hook[u]
<1>1. /\ At(u, {"commit"}) /\ h.kind \in Kind /\ h.occ \in Nat /\ h.occ = Count(h.kind)
      /\ e.type = "completed" /\ e.kind = h.kind /\ e.path = <<h.kind, h.occ>> /\ e.text = u
      /\ Holding(e.path, e.text)
  BY HookTyped DEF LogsReceipt, Entry, OwnInv, At, ForegroundInv, AboutToLog, HookAbout
<1>2. /\ \A v \in ToolUses \ {u} : hook[v] = None /\ hook'[v] = None
      /\ hook'[u] = None \/ hook'[u].at = "clear"
      /\ main' = None /\ prose' = prose
  <2>1. main = None /\ \A v \in ToolUses \ {u} : hook[v] = None
    BY <1>1 DEF ForegroundInv, OneAtWork, Busy, At
  <2>. QED
    BY <2>1 DEF LogsReceipt, HookCommit, TornCommit, GoTo, Exit, mainVars, OwnInv, CallInv, TypeOK, Hook
<1>3. PathsBelow' /\ Readable'
  <2>1. ledger \in Seq(Event) /\ ledger' = Append(ledger, e)
    BY DEF Logs, OwnInv, CallInv, TypeOK, RecordTypeOK
  <2>2. e.path[1] = e.kind /\ e.path[2] \in Nat /\ e.path[2] <= Count(e.kind)
    BY <1>1
  <2>. QED
    BY <1>1, <1>2, <2>1, <2>2, ReceiptKeeps
<1>4. AboutToLog'
  BY <1>2 DEF AboutToLog, HookAbout, MainAbout, At
<1>. QED
  BY <1>3, <1>4

LEMMA EndStepKeeps ==
  ASSUME OwnInv, ForegroundInv, NEW e \in Event, Logs(e), LogsStep(e)
  PROVE  PathsBelow' /\ AboutToLog' /\ Readable'
<1>1. /\ main # None /\ main.at = "commit" /\ main.path \in Path
      /\ e.type = "completed" /\ e.kind = main.path[1] /\ e.path = main.path /\ e.text = main.text
      /\ main' = None /\ hook' = hook /\ prose' = prose
  BY DEF LogsStep, EndStepCommit, Entry, OwnInv, CallInv, TypeOK, Command, callVars
<1>2. /\ Holding(e.path, e.text) /\ e.path[2] <= Count(e.kind) /\ e.path[2] \in Nat
      /\ \A v \in ToolUses : hook[v] = None
  BY <1>1 DEF ForegroundInv, AboutToLog, MainAbout, OneAtWork, Busy, Path
<1>3. PathsBelow' /\ Readable'
  <2>1. ledger \in Seq(Event) /\ ledger' = Append(ledger, e)
    BY DEF Logs, OwnInv, CallInv, TypeOK, RecordTypeOK
  <2>. QED
    BY <1>1, <1>2, <2>1, ReceiptKeeps
<1>4. AboutToLog'
  BY <1>1, <1>2 DEF AboutToLog, HookAbout, MainAbout, At
<1>. QED
  BY <1>3, <1>4

\* A prose file is written past the files of all receipts.
LEMMA WriteKeeps ==
  ASSUME OwnInv, ForegroundInv, NEW path \in Path, NEW text,
         path[2] = Count(path[1]), WriteProse(path, text), SameReceipts
  PROVE  PathsBelow' /\ Readable' /\ path \in DOMAIN prose' /\ prose'[path] = text
<1>1. path \in DOMAIN prose' /\ prose'[path] = text /\ DOMAIN prose \subseteq DOMAIN prose'
      /\ \A f \in DOMAIN prose : f # path => prose'[f] = prose[f]
  BY DEF WriteProse
<1>2. \A i \in Receipts : ledger[i].path # path
  <2>1. ASSUME NEW i \in Receipts, ledger[i].path = path PROVE FALSE
    <3>1. path[1] = ledger[i].kind /\ path[2] < Count(path[1])
      BY <2>1 DEF ForegroundInv, PathsBelow
    <3>2. path[2] \in Nat
      BY DEF Path
    <3>. QED
      BY <3>1, <3>2
  <2>. QED
    BY <2>1
<1>3. Readable'
  BY <1>1, <1>2 DEF ForegroundInv, Readable, Valid, SameReceipts
<1>4. PathsBelow'
  BY DEF ForegroundInv, PathsBelow, SameReceipts
<1>. QED
  BY <1>1, <1>3, <1>4

\* A step that logs no receipt.
LEMMA OtherKeeps ==
  ASSUME OwnInv, ForegroundInv, [Next]_vars, SameReceipts
  PROVE  PathsBelow' /\ AboutToLog' /\ Readable'
<1>. DEFINE Goal == PathsBelow' /\ AboutToLog' /\ Readable'
            Quiet == /\ prose' = prose /\ main' = main
                     /\ \A u \in ToolUses : At(u, {"write", "commit"})' => hook'[u] = hook[u]
<1>. USE DEF OwnInv
<1>1. ASSUME NEW u \in ToolUses, HookCount(u) PROVE Goal
  <2>1. /\ prose' = prose /\ main' = main
        /\ \A v \in ToolUses \ {u} : hook'[v] = hook[v]
        /\ hook'[u] # None => hook'[u].at = "write" /\ hook'[u].kind = hook[u].kind
                              /\ hook'[u].occ = Count(hook[u].kind)
    BY <1>1 DEF HookCount, Exit, recordVars, mainVars, CallInv, TypeOK, Hook
  <2>2. PathsBelow' /\ Readable' /\ MainAbout'
    BY <2>1 DEF ForegroundInv, PathsBelow, Readable, Valid, AboutToLog, MainAbout, Holding, SameReceipts
  <2>3. \A v \in ToolUses \ {u} : HookAbout(v)'
    BY <2>1 DEF ForegroundInv, AboutToLog, HookAbout, At, Holding, SameReceipts
  <2>4. HookAbout(u)'
    BY <2>1 DEF HookAbout, At, SameReceipts
  <2>. QED
    BY <2>2, <2>3, <2>4 DEF AboutToLog
<1>2. ASSUME NEW u \in ToolUses, HookWrite(u) PROVE Goal
  <2>. DEFINE path == <<hook[u].kind, hook[u].occ>>
  <2>1. /\ hook[u] # None /\ hook[u].at = "write" /\ path \in Path
        /\ path[2] = Count(path[1]) /\ main = None
        /\ \A v \in ToolUses \ {u} : hook[v] = None
    BY <1>2, HookTyped DEF HookWrite, At, ForegroundInv, AboutToLog, HookAbout, OneAtWork, Busy
  <2>2. /\ main' = None /\ \A v \in ToolUses \ {u} : hook'[v] = None
        /\ hook'[u].kind = hook[u].kind /\ hook'[u].occ = hook[u].occ
    BY <1>2, <2>1 DEF HookWrite, GoTo, mainVars, CallInv, TypeOK, Hook
  <2>3. PathsBelow' /\ Readable' /\ path \in DOMAIN prose' /\ prose'[path] = u
    <3>1. WriteProse(path, u)
      BY <1>2 DEF HookWrite
    <3>. QED
      BY <2>1, <3>1, WriteKeeps
  <2>4. HookAbout(u)'
    BY <2>1, <2>2, <2>3 DEF HookAbout, Holding, SameReceipts
  <2>5. MainAbout' /\ \A v \in ToolUses \ {u} : HookAbout(v)'
    BY <2>2 DEF MainAbout, HookAbout, At
  <2>. QED
    BY <2>3, <2>4, <2>5 DEF AboutToLog
<1>3. ASSUME NEW k \in MainKinds, EndStepWithFile(k) \/ EndStepFallback(k) PROVE Goal
  <2>1. /\ prose' = prose /\ hook' = hook /\ main' # None
        /\ main'.path[1] = k /\ Count(k) \in Nat
        /\ \/ main'.at = "write" /\ main'.path[2] = Count(k)
           \/ /\ main'.at = "commit" /\ main'.path[2] = 0
              /\ main'.path \in DOMAIN prose /\ prose[main'.path] = main'.text
    <3>1. k \in Kind /\ Count(k) \in Nat
      BY CountTyped, HooksConstants DEF CallInv, TypeOK, RecordTypeOK
    <3>2. CASE EndStepWithFile(k)
      <4>1. main' = [at |-> "write", path |-> <<k, Count(k)>>, text |-> Main] /\ main' \in Command
        BY <3>1, <3>2 DEF EndStepWithFile, Command, Path, Author
      <4>. QED
        BY <3>1, <3>2, <4>1, HooksConstants DEF EndStepWithFile, recordVars, callVars
    <3>3. CASE EndStepFallback(k)
      <4>1. /\ main' = [at |-> "commit", path |-> <<k, 0>>, text |-> prose[<<k, 0>>]]
            /\ main' \in Command /\ <<k, 0>> \in DOMAIN prose
        BY <3>1, <3>3 DEF EndStepFallback, Command, CallInv, TypeOK, RecordTypeOK
      <4>. QED
        BY <3>1, <3>3, <4>1, HooksConstants DEF EndStepFallback, Holding, recordVars, callVars
    <3>. QED
      BY <1>3, <3>2, <3>3
  <2>2. PathsBelow' /\ Readable'
    BY <2>1 DEF ForegroundInv, PathsBelow, Readable, Valid, SameReceipts
  <2>3. \A v \in ToolUses : HookAbout(v)'
    BY <2>1 DEF ForegroundInv, AboutToLog, HookAbout, At, Holding, SameReceipts
  <2>4. MainAbout'
    BY <2>1 DEF MainAbout, Holding, SameReceipts
  <2>. QED
    BY <2>2, <2>3, <2>4 DEF AboutToLog
<1>4. ASSUME EndStepWrite PROVE Goal
  <2>1. /\ main # None /\ main.at = "write" /\ main.path \in Path
        /\ main.path[2] = Count(main.path[1])
        /\ main' # None /\ main'.at = "commit" /\ main'.path = main.path /\ main'.text = main.text
        /\ \A v \in ToolUses : hook'[v] = None
        /\ Count(main.path[1]) \in Nat
    BY <1>4, CountTyped, HooksConstants
       DEF EndStepWrite, CallInv, TypeOK, RecordTypeOK, Command, ForegroundInv, AboutToLog, MainAbout,
           OneAtWork, Busy, callVars
  <2>2. /\ PathsBelow' /\ Readable'
        /\ main.path \in DOMAIN prose' /\ prose'[main.path] = main.text
    BY <1>4, <2>1, WriteKeeps DEF EndStepWrite
  <2>3. MainAbout'
    BY <2>1, <2>2 DEF MainAbout, Holding, SameReceipts
  <2>4. \A v \in ToolUses : HookAbout(v)'
    BY <2>1 DEF HookAbout, At
  <2>. QED
    BY <2>2, <2>3, <2>4 DEF AboutToLog
<1>5. Quiet => Goal
  BY QuietKeeps
<1>6. ASSUME NEW u \in ToolUses, CallStep(u) PROVE Goal
  <2>1. Quiet
    <3>1. /\ prose' = prose /\ main' = main
          /\ \A v \in ToolUses \ {u} : hook'[v] = hook[v]
          /\ hook'[u] = hook[u] \/ hook'[u].at \in {"claim", "abort", "count", "clear"}
      BY <1>6 DEF CallStep, SiblingDenies, Spawn, PostToolUse, ToolFails, SubagentStop, AbortOwn, ClearOwn,
                  Finish, FinishHook, recordVars, mainVars, CallInv, TypeOK
    <3>. QED
      BY <3>1 DEF At
  <2>. QED
    BY <1>5, <2>1
<1>7. ASSUME NEW u \in ToolUses,
             \/ Claim(u) \/ Bind(u) \/ Start(u) \/ HookCommit(u) \/ HookAbort(u) \/ HookClear(u)
             \/ HookDies(u)
      PROVE  Goal
  <2>1. Quiet
    <3>1. /\ prose' = prose /\ main' = main
          /\ \A v \in ToolUses \ {u} : hook'[v] = hook[v]
          /\ hook'[u] = None \/ hook'[u].at \in {"bind", "start", "clear"}
      BY <1>7 DEF Claim, Bind, Start, HookCommit, HookAbort, HookClear, HookDies, KillHook, TornStart,
                  TornCommit, TornAbort, GoTo, Exit, recordVars, mainVars, CallInv, TypeOK, Hook
    <3>. QED
      BY <3>1 DEF At
  <2>. QED
    BY <1>5, <2>1
<1>8. ASSUME \/ \E u \in ToolUses, g \in Agents : PreToolUse(u, g)
             \/ \E k \in MainKinds : BeginStep(k)
             \/ EndRun \/ ForgetRun \/ UNCHANGED vars
      PROVE  Goal
  <2>1. prose' = prose /\ main' = main /\ hook' = hook
    BY <1>8 DEF PreToolUse, BeginStep, EndRun, ForgetRun, vars, recordVars, callVars, mainVars
  <2>. QED
    BY <1>5, <2>1
<1>9. CASE EndStepCommit
  <2>1. prose' = prose /\ main' = None /\ hook' = hook
    BY <1>9 DEF EndStepCommit, callVars
  <2>2. PathsBelow' /\ Readable' /\ MainAbout'
    BY <2>1 DEF ForegroundInv, PathsBelow, Readable, Valid, MainAbout, SameReceipts
  <2>3. \A v \in ToolUses : HookAbout(v)'
    BY <2>1 DEF ForegroundInv, AboutToLog, HookAbout, At, Holding, SameReceipts
  <2>. QED
    BY <2>2, <2>3 DEF AboutToLog
<1>. QED
  BY <1>1, <1>2, <1>3, <1>4, <1>6, <1>7, <1>8, <1>9 DEF Next, MainStep, HookStep

LEMMA ForegroundNext ==
  ASSUME ~Async, OwnInv, ForegroundInv, [Next]_vars PROVE ForegroundInv'
<1>1. OneAtWork'
  BY AtWorkNext DEF ForegroundInv
<1>2. ASSUME NEW e \in Event, Logs(e), e.type = "completed"
      PROVE  PathsBelow' /\ AboutToLog' /\ Readable'
  <2>1. LogsStep(e) \/ \E u \in ToolUses : LogsReceipt(u, e)
    BY <1>2 DEF Logs, LogsAbort, Entry
  <2>. QED
    BY <1>2, <2>1, CommitKeeps, EndStepKeeps
<1>3. CASE ~\E e \in Event : Logs(e) /\ e.type = "completed"
  <2>1. SameReceipts
    BY <1>3, WhatIsLogged, NoReceiptLogged DEF OwnInv, CallInv, TypeOK, RecordTypeOK, Logs
  <2>. QED
    BY <1>1, <2>1, OtherKeeps DEF ForegroundInv
<1>. QED
  BY <1>1, <1>2, <1>3 DEF ForegroundInv

LEMMA ForegroundInit == Init => ForegroundInv
BY DEF Init, RecordInit, ForegroundInv, OneAtWork, Busy, PathsBelow, AboutToLog, HookAbout, MainAbout, At,
       Readable, Receipts, Events

\* With foreground calls no later write, by whichever process and wherever hooks
\* are killed, replaces the prose file of a receipt: the ledger can always be read.
THEOREM LedgerStaysReadable ==
  ASSUME ~Async PROVE Spec => []ReceiptsIntact
<1>1. OwnInv /\ ForegroundInv /\ [Next]_vars => OwnInv' /\ ForegroundInv'
  BY OwnNext, ForegroundNext
<1>2. ForegroundInv => ReceiptsIntact
  BY DEF ForegroundInv, ReceiptsIntact
<1>. QED
  BY <1>1, <1>2, OwnInit, ForegroundInit, PTL DEF Spec

-----------------------------------------------------------------------------
\* An agent with a receipt is done with its hooks but for the last clearing, and
\* an aborted one never comes to a receipt.
Received(u) == \E i \in Receipts : ledger[i].agent = u
Aborted(u) == \E i \in Events("aborted") : ledger[i].agent = u

AfterReceipt(u) == call[u] \in {"ended", "over"} /\ (hook[u] = None \/ At(u, {"clear"}))
AfterAbort(u) == call[u] \in {"blank", "over"} /\ ~At(u, {"count", "write", "commit"})

OutcomesFinal ==
  \A u \in ToolUses : (Received(u) => AfterReceipt(u)) /\ (Aborted(u) => AfterAbort(u))

\* Once a call is over it stays so, whatever is logged meanwhile.
LEMMA AfterKept ==
  ASSUME OwnInv, ~Async => Readable, NEW u \in ToolUses, [Next]_vars
  PROVE  /\ Received(u) /\ AfterReceipt(u) => AfterReceipt(u)'
         /\ AfterAbort(u) => AfterAbort(u)'
<1>. USE DEF OwnInv
<1>1. CASE UNCHANGED <<call, hook>>
  BY <1>1 DEF AfterReceipt, AfterAbort, At
<1>2. CASE call'[u] = call[u] /\ hook'[u] = hook[u]
  BY <1>2 DEF AfterReceipt, AfterAbort, At
<1>3. CASE \E g \in Agents : PreToolUse(u, g)
  BY <1>3 DEF PreToolUse, AfterReceipt, AfterAbort
<1>4. CASE CallStep(u)
  <2>1. CASE call[u] \notin {"ended", "blank"}
    BY <1>4, <2>1 DEF CallStep, SiblingDenies, Spawn, ToolFails, SubagentStop, PostToolUse,
                      AfterReceipt, AfterAbort
  <2>2. CASE call[u] \in {"ended", "blank"}
    <3>1. PostToolUse(u) /\ ~Async
      BY <1>4, <2>2 DEF CallStep, SiblingDenies, Spawn, ToolFails, SubagentStop, CallInv, Phased
    <3>2. call'[u] = "over"
      BY <3>1 DEF PostToolUse, CallInv, TypeOK
    <3>3. Received(u) => hook'[u] = None
      <4>1. ~Async /\ Received(u) => HasReceipt(u)
        BY DEF Received, HasReceipt, ReceiptsOwn
      <4>. QED
        BY <3>1, <4>1 DEF PostToolUse
    <3>4. call[u] = "blank" => ~At(u, {"count", "write", "commit"})'
      BY <3>1 DEF PostToolUse, AbortOwn, ClearOwn, Finish, FinishHook, At, CallInv, TypeOK
    <3>. QED
      BY <3>2, <3>3, <3>4, <2>2 DEF AfterReceipt, AfterAbort
  <2>. QED
    BY <2>1, <2>2
<1>5. CASE HookStep(u) \/ HookDies(u)
  <2>1. call' = call
    BY <1>5 DEF HookStep, Claim, Bind, Start, HookCount, HookWrite, HookCommit, HookAbort, HookClear,
                HookDies, KillHook, TornStart, TornCommit, TornAbort
  <2>2. At(u, {"clear"}) => hook'[u] = None
    BY <1>5 DEF HookStep, Claim, Bind, Start, HookCount, HookWrite, HookCommit, HookAbort, HookClear,
                HookDies, KillHook, TornStart, TornCommit, TornAbort, At, Exit, CallInv, TypeOK
  <2>3. hook[u] # None
    BY <1>5 DEF HookStep, Claim, Bind, Start, HookCount, HookWrite, HookCommit, HookAbort, HookClear,
                HookDies, KillHook, TornStart, TornCommit, TornAbort
  <2>4. ~At(u, {"count", "write", "commit"}) /\ call[u] \in {"blank", "over"} =>
          ~At(u, {"count", "write", "commit"})'
    BY <1>5 DEF HookStep, Claim, Bind, Start, HookCount, HookWrite, HookCommit, HookAbort, HookClear,
                HookDies, KillHook, TornStart, TornCommit, TornAbort, At, GoTo, Exit, CallInv, TypeOK, Hook
  <2>. QED
    BY <2>1, <2>2, <2>3, <2>4 DEF AfterReceipt, AfterAbort
<1>6. ASSUME NEW v \in ToolUses \ {u},
             (\E g \in Agents : PreToolUse(v, g)) \/ CallStep(v) \/ HookStep(v) \/ HookDies(v)
      PROVE  call'[u] = call[u] /\ hook'[u] = hook[u]
  <2>1. CASE \E g \in Agents : PreToolUse(v, g)
    BY <2>1 DEF PreToolUse, CallInv, TypeOK
  <2>2. CASE CallStep(v)
    BY <2>2 DEF CallStep, SiblingDenies, Spawn, ToolFails, SubagentStop, PostToolUse, AbortOwn, ClearOwn,
                Finish, CallInv, TypeOK
  <2>3. CASE HookStep(v) \/ HookDies(v)
    BY <2>3 DEF HookStep, Claim, Bind, Start, HookCount, HookWrite, HookCommit, HookAbort, HookClear,
                HookDies, KillHook, TornStart, TornCommit, TornAbort, GoTo, Exit, CallInv, TypeOK
  <2>. QED
    BY <1>6, <2>1, <2>2, <2>3
<1>7. CASE MainCommand
  <2>1. UNCHANGED <<call, hook>>
    BY <1>7 DEF MainCommand, BeginStep, EndStepWithFile, EndStepFallback, EndStepWrite, EndStepCommit,
                EndRun, ForgetRun, callVars
  <2>. QED
    BY <1>1, <2>1
<1>8. CASE UNCHANGED vars
  BY <1>1, <1>8 DEF vars, callVars
<1>. QED
  BY <1>2, <1>3, <1>4, <1>5, <1>6, <1>7, <1>8 DEF Next, MainStep, MainCommand

LEMMA OutcomesNext ==
  ASSUME OwnInv, ~Async => Readable, OutcomesFinal, OneOutcome, [Next]_vars
  PROVE  OutcomesFinal' /\ OneOutcome'
<1>. USE DEF OwnInv
<1>1. ledger \in Seq(Event)
  BY DEF CallInv, TypeOK, RecordTypeOK
<1>2. CASE UNCHANGED ledger
  <2>1. /\ \A u \in ToolUses : (Received(u)' <=> Received(u)) /\ (Aborted(u)' <=> Aborted(u))
        /\ \A u \in ToolUses : Outcomes(u)' = Outcomes(u)
    BY <1>2 DEF Received, Aborted, Receipts, Events, Outcomes
  <2>2. OutcomesFinal'
    BY <2>1, AfterKept DEF OutcomesFinal
  <2>. QED
    BY <1>2, <2>1, <2>2 DEF OneOutcome
<1>3. ASSUME NEW e \in Event, Logs(e) PROVE OutcomesFinal' /\ OneOutcome'
  <2>. DEFINE n == Len(ledger) + 1
  <2>1. /\ \A i \in DOMAIN ledger : ledger'[i] = ledger[i]
        /\ ledger'[n] = e /\ n \notin DOMAIN ledger
        /\ \A t : Events(t)' = Events(t) \cup (IF e.type = t THEN {n} ELSE {})
    BY <1>1, <1>3, Logged DEF Logs
  <2>2. \A t : Events(t) \subseteq DOMAIN ledger
    BY DEF Events
  <2>3. /\ \A u \in ToolUses : Received(u)' <=> Received(u) \/ (e.type = "completed" /\ e.agent = u)
        /\ \A u \in ToolUses : Aborted(u)' <=> Aborted(u) \/ (e.type = "aborted" /\ e.agent = u)
    BY <2>1, <2>2 DEF Received, Aborted, Receipts
  <2>4. ASSUME NEW u \in ToolUses, e.type = "completed", e.agent = u
        PROVE  AfterReceipt(u)' /\ ~Received(u) /\ ~Aborted(u)
    <3>1. LogsReceipt(u, e)
      BY <1>3, <2>4, RecordConstants DEF Logs, LogsStep, LogsReceipt, LogsAbort, Entry
    <3>2. At(u, {"commit"}) /\ call[u] \in {"ended", "over"} /\ call' = call
      BY <3>1 DEF LogsReceipt, HookCommit, TornCommit, CallInv, Phased, At
    <3>3. hook'[u] = None \/ At(u, {"clear"})'
      BY <3>1 DEF LogsReceipt, HookCommit, TornCommit, GoTo, Exit, At, CallInv, TypeOK, Hook
    <3>. QED
      BY <3>2, <3>3 DEF AfterReceipt, AfterAbort, OutcomesFinal, At
  <2>5. ASSUME NEW u \in ToolUses, e.type = "aborted", e.agent = u
        PROVE  AfterAbort(u)' /\ ~Received(u)
    <3>1. LogsAbort(u, e)
      BY <1>3, <2>5, RecordConstants DEF Logs, LogsStep, LogsReceipt, LogsAbort, Entry
    <3>2. At(u, {"abort"}) /\ call[u] \in {"blank", "over"} /\ call' = call
      BY <3>1 DEF LogsAbort, HookAbort, TornAbort, CallInv, Phased, At
    <3>3. ~At(u, {"count", "write", "commit"})'
      BY <3>1 DEF LogsAbort, HookAbort, TornAbort, GoTo, Exit, At, CallInv, TypeOK, Hook
    <3>. QED
      BY <3>2, <3>3 DEF AfterReceipt, AfterAbort, OutcomesFinal, At
  <2>6. OutcomesFinal'
    BY <2>3, <2>4, <2>5, AfterKept DEF OutcomesFinal
  <2>7. ASSUME NEW u \in ToolUses, NEW i \in Outcomes(u)', NEW j \in Outcomes(u)'
        PROVE  /\ ledger'[i].type = ledger'[j].type
               /\ ledger'[i].type = "completed" => i = j
    <3>1. \A m \in Outcomes(u)' :
            \/ m \in Outcomes(u) /\ ledger'[m] = ledger[m]
            \/ m = n /\ e.type \in {"completed", "aborted"} /\ e.agent = u
      BY <2>1, <2>2 DEF Outcomes
    <3>2. \A m \in Outcomes(u) : \/ ledger[m].type = "completed" /\ Received(u)
                                 \/ ledger[m].type = "aborted" /\ Aborted(u)
      BY DEF Outcomes, Events, Receipts, Received, Aborted
    <3>. QED
      BY <2>1, <2>4, <2>5, <3>1, <3>2 DEF OneOutcome
  <2>8. OneOutcome'
    BY <2>7 DEF OneOutcome
  <2>. QED
    BY <2>6, <2>8
<1>. QED
  BY <1>2, <1>3, WhatIsLogged

LEMMA OutcomesInit == Init => OutcomesFinal /\ OneOutcome
BY DEF Init, RecordInit, OutcomesFinal, OneOutcome, Outcomes, Received, Aborted, Receipts, Events

\* An agent has one receipt at most, and never a receipt and an abort: whether
\* its call is foreground or not, and wherever hooks are killed.
THEOREM AgentEndsOnce == Spec => []OneOutcome
<1>. DEFINE I == OwnInv /\ (~Async => ForegroundInv) /\ OutcomesFinal /\ OneOutcome
<1>1. Init => I
  BY OwnInit, ForegroundInit, OutcomesInit
<1>2. I /\ [Next]_vars => I'
  <2>1. (~Async => ForegroundInv) => (~Async => Readable)
    BY DEF ForegroundInv
  <2>. QED
    BY <2>1, OwnNext, ForegroundNext, OutcomesNext
<1>3. I => OneOutcome
  OBVIOUS
<1>. QED
  BY <1>1, <1>2, <1>3, PTL DEF Spec

-----------------------------------------------------------------------------
\* After end-run main gives no command, and a step that is open was started later.
FinishedInv ==
  /\ Events("finished") # {} => run # "open"
  /\ run # "open" => main = None
  /\ step # None => \A f \in Events("finished") : \E j \in Events("started") : f < j

LEMMA RunEnds ==
  ASSUME CallInv, [Next]_vars
  PROVE  /\ run' = run \/ run' # "open"
         /\ run = "open" /\ run' # "open" => main' = None
         /\ run # "open" /\ main = None => main' = None
<1>. USE HooksConstants
<1>1. CASE MainCommand
  BY <1>1 DEF MainCommand, BeginStep, EndStepWithFile, EndStepFallback, EndStepWrite, EndStepCommit,
              EndRun, FinishRun, ForgetRun, NextCommand, MainFree, recordVars, mainVars
<1>2. CASE \E u \in ToolUses, g \in Agents : PreToolUse(u, g)
  BY <1>2 DEF PreToolUse, mainVars
<1>3. CASE \E u \in ToolUses : CallStep(u)
  BY <1>3 DEF CallStep, SiblingDenies, Spawn, ToolFails, SubagentStop, PostToolUse, recordVars, mainVars
<1>4. CASE \E u \in ToolUses : HookStep(u) \/ HookDies(u)
  BY <1>4 DEF HookStep, Claim, Bind, Start, HookCount, HookWrite, HookCommit, HookAbort, HookClear,
              HookDies, KillHook, TornStart, TornCommit, TornAbort, recordVars, mainVars
<1>5. CASE UNCHANGED vars
  BY <1>5 DEF vars, recordVars, mainVars
<1>. QED
  BY <1>1, <1>2, <1>3, <1>4, <1>5 DEF Next, MainStep, MainCommand

\* A step becomes current with the event that says so.
LEMMA StepStarts ==
  ASSUME [Next]_vars, step = None, step' # None
  PROVE  \E e : ledger' = Append(ledger, e) /\ e.type = "started"
<1>1. ASSUME NEW k, NEW w, NEW a, StartStep(k, w, a)
      PROVE  \E e : ledger' = Append(ledger, e) /\ e.type = "started"
  BY <1>1 DEF StartStep, Log
<1>2. CASE MainCommand
  BY <1>1, <1>2
     DEF MainCommand, BeginStep, EndStepWithFile, EndStepFallback, EndStepWrite, EndStepCommit, EndStep,
         EndRun, FinishRun, ForgetRun, recordVars
<1>3. CASE \E u \in ToolUses, g \in Agents : PreToolUse(u, g)
  BY <1>3 DEF PreToolUse
<1>4. CASE \E u \in ToolUses : CallStep(u)
  BY <1>4 DEF CallStep, SiblingDenies, Spawn, ToolFails, SubagentStop, PostToolUse, recordVars
<1>5. CASE \E u \in ToolUses : HookStep(u) \/ HookDies(u)
  BY <1>1, <1>5
     DEF HookStep, Claim, Bind, CanBind, Start, HookCount, HookWrite, HookCommit, HookAbort, HookClear,
         HookDies, KillHook, TornStart, TornCommit, TornAbort, recordVars
<1>6. CASE UNCHANGED vars
  BY <1>6 DEF vars, recordVars
<1>. QED
  BY <1>2, <1>3, <1>4, <1>5, <1>6 DEF Next, MainStep, MainCommand

LEMMA FinishedNext ==
  ASSUME CallInv, FinishedInv, NothingLateAfterFinish, [Next]_vars
  PROVE  FinishedInv' /\ NothingLateAfterFinish'
<1>1. ledger \in Seq(Event)
  BY DEF CallInv, TypeOK, RecordTypeOK
<1>2. CASE UNCHANGED ledger
  <2>1. \A t : Events(t)' = Events(t)
    BY <1>2 DEF Events
  <2>2. step' # None => step # None
    <3>1. ASSUME NEW e, ledger' = Append(ledger, e) PROVE FALSE
      BY <1>1, <1>2, <3>1
    <3>. QED
      BY <3>1, StepStarts
  <2>. QED
    BY <1>2, <2>1, <2>2, RunEnds DEF FinishedInv, NothingLateAfterFinish, Receipts
<1>3. ASSUME NEW e \in Event, Logs(e) PROVE FinishedInv' /\ NothingLateAfterFinish'
  <2>. DEFINE n == Len(ledger) + 1
  <2>1. /\ \A t : Events(t)' = Events(t) \cup (IF e.type = t THEN {n} ELSE {})
        /\ n \in Nat /\ \A t : \A i \in Events(t) : i \in Nat /\ i < n
    BY <1>1, <1>3, Logged DEF Logs, Events
  <2>2. step' # None => step # None \/ e.type = "started"
    <3>1. ASSUME NEW x, ledger' = Append(ledger, x) PROVE x = e
      <4>. DEFINE S == Event \cup {x}
      <4>1. ledger \in Seq(S) /\ x \in S /\ e \in S
        BY <1>1
      <4>2. ledger'[n] = x
        BY <3>1, <4>1
      <4>3. ledger'[n] = e
        BY <1>3, <4>1 DEF Logs
      <4>. QED
        BY <4>2, <4>3
    <3>. QED
      BY <3>1, StepStarts
  <2>3. /\ e.type = "finished" => run' # "open" /\ step' = None
        /\ e.type \in {"completed", "aborted"} => step # None \/ run = "open"
    <3>1. ASSUME EndRun PROVE run' # "open" /\ step' = None
      BY <3>1 DEF EndRun, FinishRun
    <3>2. ASSUME LogsStep(e) PROVE run = "open" /\ e.type = "completed"
      BY <3>2 DEF LogsStep, EndStepCommit, FinishedInv, Entry
    <3>3. ASSUME NEW u \in ToolUses, LogsReceipt(u, e) \/ LogsAbort(u, e)
          PROVE  step # None /\ e.type \in {"completed", "aborted"}
      BY <3>3 DEF LogsReceipt, LogsAbort, Matches, Entry
    <3>. QED
      BY <1>3, <3>1, <3>2, <3>3 DEF Logs
  <2>4. FinishedInv'
    BY <2>1, <2>2, <2>3, RunEnds DEF FinishedInv
  <2>5. ASSUME NEW f \in Events("finished")', NEW i \in Receipts' \cup Events("aborted")', f < i
        PROVE  \E j \in Events("started")' : f < j /\ j < i
    <3>1. f \in Events("finished")
      BY <2>1, <2>5 DEF Receipts
    <3>2. CASE i \in Receipts \cup Events("aborted")
      BY <2>1, <2>5, <3>1, <3>2 DEF NothingLateAfterFinish
    <3>3. CASE i = n /\ e.type \in {"completed", "aborted"}
      BY <2>1, <2>3, <3>1, <3>3 DEF FinishedInv
    <3>. QED
      BY <2>1, <3>2, <3>3 DEF Receipts
  <2>6. NothingLateAfterFinish'
    BY <2>5 DEF NothingLateAfterFinish
  <2>. QED
    BY <2>4, <2>6
<1>. QED
  BY <1>2, <1>3, WhatIsLogged

\* end-run closes the run to every agent at work, foreground or not: what is
\* logged afterwards ends a step that was started afterwards.
THEOREM FinishIsFinal == Spec => []NothingLateAfterFinish
<1>. DEFINE I == CallInv /\ FinishedInv /\ NothingLateAfterFinish
<1>1. Init => I
  BY CallInit DEF Init, RecordInit, FinishedInv, NothingLateAfterFinish, Receipts, Events
<1>2. I /\ [Next]_vars => I'
  BY CallNext, FinishedNext
<1>3. I => NothingLateAfterFinish
  OBVIOUS
<1>. QED
  BY <1>1, <1>2, <1>3, PTL DEF Spec

-----------------------------------------------------------------------------
\* The refinement of StepLog.

\* All events of an agent have one type, so it does not matter which is chosen.
LEMMA AnyOutcome ==
  ASSUME NEW L, NEW S, \A i, j \in S : L[i].type = L[j].type
  PROVE  \A i \in S : L[CHOOSE j \in S : TRUE].type = L[i].type
<1>1. TAKE i \in S
<1>2. (CHOOSE j \in S : TRUE) \in S
  OBVIOUS
<1>. QED
  BY <1>2

\* What becomes of the current step when no outcome is logged: it stays, it goes
\* or belongs to no agent, or an agent takes it that had it or took it from none.
LEMMA StepMoves ==
  ASSUME OwnInv, [Next]_vars
  PROVE  \/ step' = step
         \/ step' = None \/ step'.agent = None
         \/ \E u \in ToolUses : /\ step' # None /\ step'.agent = u
                                /\ step = None \/ step.agent \in {None, u}
<1>. USE RecordConstants DEF OwnInv
<1>1. ASSUME NEW u \in ToolUses, Bind(u), step' # step
      PROVE  step' # None /\ step'.agent = u /\ step.agent \in {None, u}
  <2>1. hook[u].tool = u /\ hook[u].agent = u
    BY <1>1 DEF Bind, CallInv, HooksOwn, At
  <2>2. step \in Step /\ step.agent \in {None, u} /\ step' = [step EXCEPT !.tool = u, !.agent = u]
    BY <1>1, <2>1 DEF Bind, BindStep, CanBind, CallInv, TypeOK, RecordTypeOK
  <2>3. step' \in Step /\ step'.agent = u
    BY <2>2 DEF Step, Identity
  <2>. QED
    BY <2>2, <2>3
<1>2. ASSUME NEW u \in ToolUses, Start(u), step' # step
      PROVE  step' # None /\ step'.agent = u /\ step = None
  <2>1. hook[u].tool = u /\ hook[u].agent = u
    BY <1>2 DEF Start, CallInv, HooksOwn, At
  <2>2. step = None /\ step'.agent = u
    BY <1>2, <2>1 DEF Start, StartStep
  <2>3. step' # None
    BY <1>2, <2>2
  <2>. QED
    BY <2>2, <2>3
<1>3. CASE MainCommand
  <2>1. ASSUME NEW k \in MainKinds, BeginStep(k) PROVE step'.agent = None
    BY <2>1 DEF BeginStep, StartStep
  <2>2. CASE ~\E k \in MainKinds : BeginStep(k)
    BY <1>3, <2>2
       DEF MainCommand, EndStepWithFile, EndStepFallback, EndStepWrite, EndStepCommit, EndStep,
           EndRun, FinishRun, ForgetRun, recordVars
  <2>. QED
    BY <2>1, <2>2
<1>4. CASE \E u \in ToolUses, g \in Agents : PreToolUse(u, g)
  BY <1>4 DEF PreToolUse
<1>5. CASE \E u \in ToolUses : CallStep(u)
  BY <1>5 DEF CallStep, SiblingDenies, Spawn, ToolFails, SubagentStop, PostToolUse, recordVars
<1>6. ASSUME NEW u \in ToolUses, HookStep(u) \/ HookDies(u), ~Bind(u), ~Start(u)
      PROVE  step' \in {step, None}
  BY <1>6 DEF HookStep, Claim, HookCount, HookWrite, HookCommit, HookAbort, HookClear,
              HookDies, KillHook, TornStart, TornCommit, TornAbort, recordVars
<1>7. CASE UNCHANGED vars
  BY <1>7 DEF vars, recordVars
<1>. QED
  BY <1>1, <1>2, <1>3, <1>4, <1>5, <1>6, <1>7 DEF Next, MainStep, MainCommand

LEMMA StepLogNext ==
  ASSUME OwnInv, ~Async => Readable, OutcomesFinal, OneOutcome, OneOutcome', [Next]_vars
  PROVE  [Steps!Next]_(Steps!vars)
<1>. DEFINE A == OpenAgent
            O == [u \in ToolUses |-> OutcomeOf(u)]
<1>. USE RecordConstants DEF OwnInv
<1>1. ledger \in Seq(Event)
  BY DEF CallInv, TypeOK, RecordTypeOK
<1>2. A # None => A \in ToolUses /\ step # None /\ step.agent = A /\ Outcomes(A) = {}
  BY DEF OpenAgent, CallInv, TypeOK, RecordTypeOK, Step, Identity
<1>3. ASSUME \A u \in ToolUses : Outcomes(u)' = Outcomes(u) /\ OutcomeOf(u)' = OutcomeOf(u)
      PROVE  [Steps!Next]_(Steps!vars)
  <2>1. O' = O
    BY <1>3
  <2>2. step \in Step \cup {None}
    BY DEF CallInv, TypeOK, RecordTypeOK
  <2>3. \/ A' = A \/ A' = None
        \/ A = None /\ A' \in ToolUses /\ Outcomes(A') = {}
    <3>1. CASE step' = step
      <4>1. step # None /\ step.agent # None => step.agent \in ToolUses
        BY <2>2 DEF Step, Identity
      <4>. QED
        BY <1>3, <3>1, <4>1 DEF OpenAgent
    <3>2. CASE step' = None \/ step'.agent = None
      BY <3>2 DEF OpenAgent
    <3>3. ASSUME NEW u \in ToolUses, step' # None, step'.agent = u,
                 step = None \/ step.agent \in {None, u}
          PROVE  (A' = A \/ A' = None) \/ (A = None /\ A' = u /\ Outcomes(u) = {})
      <4>1. A' = IF Outcomes(u) = {} THEN u ELSE None
        BY <1>3, <3>3 DEF OpenAgent
      <4>2. A = None \/ A = u
        BY <3>3 DEF OpenAgent
      <4>. QED
        BY <4>1, <4>2
    <3>. QED
      BY <3>1, <3>2, <3>3, StepMoves
  <2>4. CASE A' = A
    BY <2>1, <2>4 DEF Steps!vars
  <2>5. CASE A # None /\ A' = None
    BY <2>1, <2>5 DEF Steps!Next, Steps!Drop
  <2>6. CASE A = None /\ A' \in ToolUses /\ Outcomes(A') = {}
    <3>1. O[A'] = None
      BY <2>6 DEF OutcomeOf
    <3>. QED
      BY <2>1, <2>6, <3>1 DEF Steps!Next, Steps!Open
  <2>. QED
    BY <2>3, <2>4, <2>5, <2>6
<1>4. CASE UNCHANGED ledger
  BY <1>3, <1>4 DEF Outcomes, Events, OutcomeOf
<1>5. ASSUME NEW e \in Event, Logs(e) PROVE [Steps!Next]_(Steps!vars)
  <2>. DEFINE n == Len(ledger) + 1
  <2>1. /\ \A i \in DOMAIN ledger : ledger'[i] = ledger[i]
        /\ ledger'[n] = e /\ n \notin DOMAIN ledger
        /\ \A t : Events(t)' = Events(t) \cup (IF e.type = t THEN {n} ELSE {})
    BY <1>1, <1>5, Logged DEF Logs
  <2>2. \A v : Outcomes(v) \subseteq DOMAIN ledger
    BY DEF Outcomes, Events
  <2>3. \A v : Outcomes(v)' = Outcomes(v) \cup
                 (IF e.type \in {"completed", "aborted"} /\ e.agent = v THEN {n} ELSE {})
    BY <2>1 DEF Outcomes, Events
  <2>4. \A v \in ToolUses : \A i \in Outcomes(v) : OutcomeOf(v) = ledger[i].type
    BY AnyOutcome DEF OneOutcome, OutcomeOf
  <2>5. \A v \in ToolUses : \A i \in Outcomes(v)' : OutcomeOf(v)' = ledger'[i].type
    BY AnyOutcome DEF OneOutcome, OutcomeOf
  <2>6. \A v \in ToolUses : Outcomes(v)' = Outcomes(v) => OutcomeOf(v)' = OutcomeOf(v)
    <3>1. TAKE v \in ToolUses
    <3>2. HAVE Outcomes(v)' = Outcomes(v)
    <3>3. CASE Outcomes(v) = {}
      BY <3>2, <3>3 DEF OutcomeOf
    <3>4. ASSUME NEW i \in Outcomes(v) PROVE OutcomeOf(v)' = OutcomeOf(v)
      BY <2>1, <2>2, <2>4, <2>5, <3>2, <3>4
    <3>. QED
      BY <3>3, <3>4
  <2>7. CASE ~(e.type \in {"completed", "aborted"} /\ e.agent \in ToolUses)
    BY <1>3, <2>3, <2>6, <2>7
  <2>8. ASSUME NEW u \in ToolUses, e.type \in {"completed", "aborted"}, e.agent = u
        PROVE  [Steps!Next]_(Steps!vars)
    <3>1. /\ step # None /\ step.agent = u /\ ~Received(u)
          /\ e.type = "completed" => ~Aborted(u)
          /\ step' \in {step, None}
      <4>1. LogsReceipt(u, e) \/ LogsAbort(u, e)
        BY <1>5, <2>8 DEF Logs, LogsStep, LogsReceipt, LogsAbort, Entry
      <4>2. At(u, IF e.type = "completed" THEN {"commit"} ELSE {"abort"})
        BY <4>1 DEF LogsReceipt, LogsAbort, Entry
      <4>3. step # None /\ step.agent = u
        BY <2>8, <4>1 DEF LogsReceipt, LogsAbort, Entry, Matches
      <4>4. step' \in {step, None}
        BY <4>1 DEF LogsReceipt, LogsAbort, HookCommit, TornCommit, HookAbort, TornAbort
      <4>5. ~Received(u) /\ (e.type = "completed" => ~Aborted(u))
        BY <2>8, <4>2 DEF OutcomesFinal, AfterReceipt, AfterAbort, At
      <4>. QED
        BY <4>3, <4>4, <4>5
    <3>2. /\ \A v \in ToolUses \ {u} : Outcomes(v)' = Outcomes(v) /\ OutcomeOf(v)' = OutcomeOf(v)
          /\ Outcomes(u)' # {} /\ OutcomeOf(u)' = e.type
      BY <2>1, <2>3, <2>5, <2>6, <2>8
    <3>3. A' = None
      BY <3>1, <3>2 DEF OpenAgent
    <3>4. CASE Outcomes(u) = {}
      <4>1. A = u
        BY <3>1, <3>4 DEF OpenAgent
      <4>2. O' = [O EXCEPT ![u] = e.type]
        BY <3>2
      <4>. QED
        BY <2>8, <3>3, <4>1, <4>2 DEF Steps!Next, Steps!Close, Steps!Outcome
    <3>5. CASE Outcomes(u) # {}
      <4>1. A = None
        BY <3>1, <3>5 DEF OpenAgent
      <4>2. OutcomeOf(u) = "aborted" /\ e.type = "aborted"
        <5>1. PICK i \in Outcomes(u) : TRUE
          BY <3>5
        <5>2. ledger[i].type = "aborted" /\ Aborted(u)
          BY <3>1, <5>1 DEF Outcomes, Received, Aborted, Receipts, Events
        <5>. QED
          BY <2>4, <2>8, <3>1, <5>2
      <4>3. O' = O
        BY <3>2, <4>2
      <4>. QED
        BY <3>3, <4>1, <4>3 DEF Steps!vars
    <3>. QED
      BY <3>4, <3>5
  <2>. QED
    BY <2>7, <2>8
<1>. QED
  BY <1>4, <1>5, WhatIsLogged

\* The hooks implement StepLog: one agent at most has the open step, only the
\* open step ends, with the outcome of its agent, and once.
THEOREM HooksImplementStepLog == Spec => StepLogSpec
<1>. DEFINE I == OwnInv /\ (~Async => ForegroundInv) /\ OutcomesFinal /\ OneOutcome
<1>1. Init => I /\ Steps!Init
  <2>1. Init => I
    BY OwnInit, ForegroundInit, OutcomesInit
  <2>2. Init => Steps!Init
    BY DEF Init, RecordInit, Steps!Init, OpenAgent, OutcomeOf, Outcomes, Events
  <2>. QED
    BY <2>1, <2>2
<1>2. I /\ [Next]_vars => I' /\ [Steps!Next]_(Steps!vars)
  <2>1. (~Async => ForegroundInv) => (~Async => Readable)
    BY DEF ForegroundInv
  <2>. QED
    BY <2>1, OwnNext, ForegroundNext, OutcomesNext, StepLogNext
<1>. QED
  BY <1>1, <1>2, PTL DEF Spec, StepLogSpec, Steps!Spec
==============================================================================

------------------------------ MODULE AgentHooks -----------------------------
(***************************************************************************)
(* The lifecycle of an Agent call as Claude Code and the dcNess hooks run  *)
(* it (harness/hooks.py), together with what the main session does to the  *)
(* same run through dcness-helper: begin-step, end-step, end-run.          *)
(*                                                                         *)
(* A call goes unused -> allowed (PreToolUse left an intent) -> running    *)
(* (SubagentStart) -> ended or blank (SubagentStop, with or without text)  *)
(* -> over (PostToolUse).  A sibling hook may deny an allowed call, and a  *)
(* running call may fail (PostToolUseFailure).  Claude Code waits for the  *)
(* hook of an event before the next event of the same call.                *)
(*                                                                         *)
(* hook[u] is where the hook process of call u is; it reads, writes prose  *)
(* and commits in separate steps, and can be killed between any two.  The  *)
(* agent's text is not decided by the intent it was bound to: it is u's.   *)
(***************************************************************************)
EXTENDS RunRecord

CONSTANTS
  ExplicitAgents,   \* close-sequence roles: no step without begin-step
  MainKinds,        \* the steps main begins and ends by hand
  MaxCommands,      \* bound on begin-step and end-step
  Async,            \* calls return at launch, and main goes on meanwhile
  HookKills         \* hook processes may be killed

VARIABLES
  call,       \* call[u]: the phase of call u
  agentOf,    \* agentOf[u]: subagent_type of call u, or None
  hook,       \* hook[u]: the hook process running for call u, or None
  main,       \* the end-step command in progress, or None
  commands    \* begin-step and end-step commands so far

callVars == <<call, agentOf, hook>>
mainVars == <<main, commands>>
vars == <<recordVars, callVars, mainVars>>

Phase == {"unused", "allowed", "running", "ended", "blank", "over"}

\* A hook process: its next step, the intent and identity it works for, and
\* the occurrence it has counted.
Hook == [at : {"claim", "bind", "start", "count", "write", "commit", "abort", "clear"},
         tool : Identity, agent : Identity, kind : Kind \cup {None}, occ : Nat]

Command == [at : {"write", "commit"}, path : Path, text : Author]

ASSUME HooksConstants ==
  /\ ExplicitAgents \subseteq Agents
  /\ MainKinds \subseteq Kind
  /\ MaxCommands \in Nat
  /\ Async \in BOOLEAN /\ HookKills \in BOOLEAN
  /\ None \notin Hook /\ None \notin Command /\ None \notin Agents

\* The record, the calls and the processes stay within their types.
TypeOK ==
  /\ RecordTypeOK
  /\ call \in [ToolUses -> Phase]
  /\ agentOf \in [ToolUses -> Agents \cup {None}]
  /\ hook \in [ToolUses -> Hook \cup {None}]
  /\ main \in Command \cup {None}
  /\ commands \in 0..MaxCommands

Init ==
  /\ RecordInit
  /\ call = [u \in ToolUses |-> "unused"]
  /\ agentOf = [u \in ToolUses |-> None]
  /\ hook = [u \in ToolUses |-> None]
  /\ main = None
  /\ commands = 0

\* A call is being launched: Claude Code waits for the SubagentStart hook.
Launching(u) ==
  call[u] = "allowed" \/ (hook[u] # None /\ hook[u].at \in {"claim", "bind", "start"})

\* Main launches one Agent at a time and waits for each of its own commands.  It
\* waits for the end of a foreground call, and for the launch of any other.
MainFree ==
  /\ main = None
  /\ \A u \in ToolUses :
       IF Async THEN ~Launching(u)
       ELSE call[u] \in {"unused", "over"} /\ hook[u] = None

\* by-pid-current-run, or the newest slot that is not completed, is this run.
Resolves == run # "closed"

GoTo(u, at) == hook' = [hook EXCEPT ![u].at = at]
Exit(u) == hook' = [hook EXCEPT ![u] = None]

-----------------------------------------------------------------------------
\* PreToolUse: the order gate, then the intent.

\* _strict_conveyor_gate_message: without a step only a role that starts by
\* itself passes; with one, its agent type must be asked for and its receipt
\* must not be the last one already.  An unreadable ledger fails open.
LoggedAlready ==
  /\ Readable /\ Receipts # {}
  /\ LET last == CHOOSE i \in Receipts : \A j \in Receipts : j <= i
     IN  ledger[last].kind = step.kind /\ Cardinality(Receipts) > step.base

GateAllows(g) ==
  IF step = None THEN g \notin ExplicitAgents
                 ELSE step.kind.agent = g /\ ~LoggedAlready

\* The mode of the current step stands in for the one the Agent tool lacks.
EffectiveKind(g) == IF step = None THEN [agent |-> g, mode |-> None] ELSE step.kind

Ranks == {pending[w].at : w \in {x \in ToolUses : pending[x] # None}}
Top == CHOOSE n \in Ranks \cup {0} : \A m \in Ranks : m <= n

PreToolUse(u, g) ==
  /\ MainFree /\ run = "open"
  /\ call[u] = "unused"
  /\ GateAllows(g)
  /\ SetIntent(u, EffectiveKind(g), step = None, Top + 1)
  /\ call' = [call EXCEPT ![u] = "allowed"]
  /\ agentOf' = [agentOf EXCEPT ![u] = g]
  /\ UNCHANGED <<run, step, ledger, prose, hook, mainVars>>

\* Another PreToolUse hook denies the call; the intent stays.
SiblingDenies(u) ==
  /\ call[u] = "allowed"
  /\ call' = [call EXCEPT ![u] = "over"]
  /\ UNCHANGED <<recordVars, agentOf, hook, mainVars>>

-----------------------------------------------------------------------------
\* SubagentStart: claim an intent, then bind the current step or start one.

Spawn(u) ==
  /\ call[u] = "allowed" /\ hook[u] = None
  /\ call' = [call EXCEPT ![u] = "running"]
  /\ hook' = IF Resolves
             THEN [hook EXCEPT ![u] = [at |-> "claim", tool |-> None,
                                       agent |-> u, kind |-> None, occ |-> 0]]
             ELSE hook
  /\ UNCHANGED <<recordVars, agentOf, mainVars>>

\* The payload names the agent type and not the call: the newest intent wins (its
\* own call has left one).  Without a way to start, the agent runs unrecorded.
Claim(u) ==
  /\ hook[u] # None /\ hook[u].at = "claim"
  /\ \E w \in Newest(agentOf[u]) :
       /\ ClaimIntent(w, u)
       /\ LET k == pending[w].kind
              at == IF step # None THEN "bind" ELSE "start"
          IN  hook' = [hook EXCEPT ![u] =
                         IF step # None \/ (pending[w].auto /\ k.mode = None)
                         THEN [at |-> at, tool |-> w, agent |-> u, kind |-> k, occ |-> 0]
                         ELSE None]
  /\ UNCHANGED <<run, step, ledger, prose, call, agentOf, mainVars>>

\* A step that main began is bound to the call and its agent.
Bind(u) ==
  LET h == hook[u]
  IN  /\ h # None /\ h.at = "bind"
      /\ IF CanBind(h.kind, h.tool, h.agent)
         THEN BindStep(h.tool, h.agent) ELSE UNCHANGED <<step, ledger>>
      /\ Exit(u)
      /\ UNCHANGED <<run, pending, prose, call, agentOf, mainVars>>

\* With strict_identity a step that is current by now is not replaced.
Start(u) ==
  LET h == hook[u]
  IN  /\ h # None /\ h.at = "start"
      /\ IF step = None /\ Readable
         THEN StartStep(h.kind, h.tool, h.agent) ELSE UNCHANGED <<step, ledger>>
      /\ Exit(u)
      /\ UNCHANGED <<run, pending, prose, call, agentOf, mainVars>>

-----------------------------------------------------------------------------
\* The end of an agent: _finish_agent_step, run by SubagentStop and PostToolUse.

\* The identity check: all four fields, in particular when they are absent.
StepIs(w) ==
  /\ step # None
  /\ step.kind = pending[w].kind /\ step.tool = w /\ step.agent = pending[w].agent

FinishHook(w, at) ==
  [at |-> at, tool |-> w, agent |-> pending[w].agent, kind |-> pending[w].kind, occ |-> 0]

\* What the hook does with the final message of u, for the intent w.
Finish(u, w, blank) ==
  hook' = [hook EXCEPT ![u] =
             FinishHook(w, IF ~StepIs(w) THEN "clear"
                           ELSE IF blank THEN "abort" ELSE "count")]

\* _pending_agent_for_agent_id
IntentOf(a) == {w \in ToolUses : pending[w] # None /\ pending[w].agent = a}

\* SubagentStop: without an intent bound to this agent there is nothing to do.
\* So it is when the payload lacks the final message.
SubagentStop(u, phase) ==
  /\ call[u] = "running" /\ hook[u] = None
  /\ call' = [call EXCEPT ![u] = IF Async THEN "over" ELSE phase]
  /\ \/ Resolves /\ \E w \in IntentOf(u) : Finish(u, w, phase = "blank")
     \/ UNCHANGED hook
  /\ UNCHANGED <<recordVars, agentOf, mainVars>>

ClearOwn(u) ==
  hook' = [hook EXCEPT ![u] = [at |-> "clear", tool |-> u, agent |-> None,
                               kind |-> None, occ |-> 0]]

\* The step that call u started is aborted; then its intent is cleared.
AbortOwn(u) ==
  IF pending[u] # None
  THEN hook' = [hook EXCEPT ![u] = FinishHook(u, "abort")]
  ELSE ClearOwn(u)

\* PostToolUse of a foreground call: status "completed", or one nobody knows.
PostToolUse(u) ==
  /\ call[u] \in {"ended", "blank"} /\ hook[u] = None
  /\ call' = [call EXCEPT ![u] = "over"]
  /\ IF ~Resolves \/ HasReceipt(u) THEN UNCHANGED hook
     ELSE \/ AbortOwn(u)
          \/ IF pending[u] # None /\ pending[u].agent # None
             THEN Finish(u, u, call[u] = "blank") ELSE ClearOwn(u)
  /\ UNCHANGED <<recordVars, agentOf, mainVars>>

\* PostToolUseFailure, of a running call or of one that was never spawned.
ToolFails(u) ==
  /\ hook[u] = None
  /\ call[u] = "allowed" \/ (~Async /\ call[u] = "running")
  /\ call' = [call EXCEPT ![u] = "over"]
  /\ IF Resolves THEN AbortOwn(u) ELSE UNCHANGED hook
  /\ UNCHANGED <<recordVars, agentOf, mainVars>>

\* Mutant of HookCount: the occurrence suffix is left out.
HookCountZero(u) ==
  /\ hook[u] # None /\ hook[u].at = "count"
  /\ IF Readable THEN GoTo(u, "write") ELSE Exit(u)
  /\ UNCHANGED <<recordVars, call, agentOf, mainVars>>

HookCount(u) ==
  /\ hook[u] # None /\ hook[u].at = "count"
  /\ IF Readable
     THEN hook' = [hook EXCEPT ![u].at = "write", ![u].occ = Count(hook[u].kind)]
     ELSE Exit(u)
  /\ UNCHANGED <<recordVars, call, agentOf, mainVars>>

HookWrite(u) ==
  /\ hook[u] # None /\ hook[u].at = "write"
  /\ WriteProse(<<hook[u].kind, hook[u].occ>>, u)
  /\ GoTo(u, "commit")
  /\ UNCHANGED <<run, step, pending, ledger, call, agentOf, mainVars>>

\* Mutant of HookCommit: the step is logged without looking at it again.
HookCommitUnchecked(u) ==
  LET h == hook[u]
  IN  /\ h # None /\ h.at = "commit"
      /\ Log("completed", h.kind, h.tool, h.agent, <<h.kind, h.occ>>, u)
      /\ step' = None
      /\ GoTo(u, "clear")
      /\ UNCHANGED <<run, pending, prose, call, agentOf, mainVars>>

\* step_completed with strict_identity: a call that has its receipt already gets
\* no second one; a step that is another by now is refused (and the intent stays).
HookCommit(u) ==
  LET h == hook[u]
  IN  /\ h # None /\ h.at = "commit"
      /\ IF Readable /\ ~HasReceipt(h.tool) /\ Matches(h.kind, h.tool, h.agent)
         THEN /\ Log("completed", h.kind, h.tool, h.agent, <<h.kind, h.occ>>, u)
              /\ step' = None
         ELSE UNCHANGED <<step, ledger>>
      /\ IF Readable /\ (HasReceipt(h.tool) \/ Matches(h.kind, h.tool, h.agent))
         THEN GoTo(u, "clear") ELSE Exit(u)
      /\ UNCHANGED <<run, pending, prose, call, agentOf, mainVars>>

\* Mutant of HookAbort: it exits without closing the step.
HookAbortSilent(u) ==
  /\ hook[u] # None /\ hook[u].at = "abort"
  /\ GoTo(u, "clear")
  /\ UNCHANGED <<recordVars, call, agentOf, mainVars>>

\* step_aborted with strict_identity; a mismatch is only reported.
HookAbort(u) ==
  LET h == hook[u]
  IN  /\ h # None /\ h.at = "abort"
      /\ IF Matches(h.kind, h.tool, h.agent)
         THEN Log("aborted", h.kind, h.tool, h.agent, None, None) /\ step' = None
         ELSE UNCHANGED <<step, ledger>>
      /\ GoTo(u, "clear")
      /\ UNCHANGED <<run, pending, prose, call, agentOf, mainVars>>

HookClear(u) ==
  /\ hook[u] # None /\ hook[u].at = "clear"
  /\ ClearIntent(hook[u].tool)
  /\ Exit(u)
  /\ UNCHANGED <<run, step, ledger, prose, call, agentOf, mainVars>>

-----------------------------------------------------------------------------
\* A hook process is killed (its timeout): before its next step, or between the
\* ledger append and the write of live.json.

KillHook(u) ==
  /\ HookKills /\ hook[u] # None
  /\ Exit(u)
  /\ UNCHANGED <<recordVars, call, agentOf, mainVars>>

TornStart(u) ==
  LET h == hook[u]
  IN  /\ HookKills /\ h # None /\ h.at = "start"
      /\ step = None /\ Readable
      /\ Log("started", h.kind, h.tool, h.agent, None, None)
      /\ Exit(u)
      /\ UNCHANGED <<run, step, pending, prose, call, agentOf, mainVars>>

TornCommit(u) ==
  LET h == hook[u]
  IN  /\ HookKills /\ h # None /\ h.at = "commit"
      /\ Readable /\ ~HasReceipt(h.tool) /\ Matches(h.kind, h.tool, h.agent)
      /\ Log("completed", h.kind, h.tool, h.agent, <<h.kind, h.occ>>, u)
      /\ Exit(u)
      /\ UNCHANGED <<run, step, pending, prose, call, agentOf, mainVars>>

TornAbort(u) ==
  LET h == hook[u]
  IN  /\ HookKills /\ h # None /\ h.at = "abort"
      /\ Matches(h.kind, h.tool, h.agent)
      /\ Log("aborted", h.kind, h.tool, h.agent, None, None)
      /\ Exit(u)
      /\ UNCHANGED <<run, step, pending, prose, call, agentOf, mainVars>>

-----------------------------------------------------------------------------
\* dcness-helper, called by main or by a headless worker in its place.

NextCommand ==
  /\ MainFree /\ run = "open"
  /\ commands < MaxCommands /\ commands' = commands + 1

BeginStep(k) ==
  /\ NextCommand
  /\ StartStep(k, None, None)
  /\ UNCHANGED <<run, pending, prose, callVars, main>>

\* end-step --prose-file: count, then write, then log.
EndStepWithFile(k) ==
  /\ NextCommand
  /\ Readable
  /\ main' = [at |-> "write", path |-> <<k, Count(k)>>, text |-> Main]
  /\ UNCHANGED <<recordVars, callVars>>

\* end-step without it: the file without an occurrence suffix, when there is one
\* (then no other file need be tried: occurrences are counted from zero).
EndStepFallback(k) ==
  /\ NextCommand
  /\ <<k, 0>> \in DOMAIN prose
  /\ main' = [at |-> "commit", path |-> <<k, 0>>, text |-> prose[<<k, 0>>]]
  /\ UNCHANGED <<recordVars, callVars>>

EndStepWrite ==
  /\ main # None /\ main.at = "write"
  /\ WriteProse(main.path, main.text)
  /\ main' = [main EXCEPT !.at = "commit"]
  /\ UNCHANGED <<run, step, pending, ledger, callVars, commands>>

EndStepCommit ==
  /\ main # None /\ main.at = "commit"
  /\ EndStep(main.path[1], main.path, main.text)
  /\ main' = None
  /\ UNCHANGED <<run, pending, prose, callVars, commands>>

\* end-run: run_completed, and later by-pid-current-run is cleared.
EndRun ==
  /\ MainFree /\ run = "open"
  /\ FinishRun
  /\ UNCHANGED <<pending, prose, callVars, mainVars>>

ForgetRun ==
  /\ run = "completed"
  /\ run' = "closed"
  /\ UNCHANGED <<step, pending, ledger, prose, callVars, mainVars>>

-----------------------------------------------------------------------------
HookStep(u) ==
  \/ Claim(u) \/ Bind(u) \/ Start(u)
  \/ HookCount(u) \/ HookWrite(u) \/ HookCommit(u) \/ HookAbort(u) \/ HookClear(u)

HookDies(u) == KillHook(u) \/ TornStart(u) \/ TornCommit(u) \/ TornAbort(u)

\* What Claude Code does once a call is allowed.
CallStep(u) ==
  \/ SiblingDenies(u) \/ Spawn(u) \/ PostToolUse(u) \/ ToolFails(u)
  \/ \E phase \in {"ended", "blank"} : SubagentStop(u, phase)

MainStep ==
  \/ \E u \in ToolUses, g \in Agents : PreToolUse(u, g)
  \/ \E k \in MainKinds : BeginStep(k) \/ EndStepWithFile(k) \/ EndStepFallback(k)
  \/ EndStepWrite \/ EndStepCommit \/ EndRun \/ ForgetRun

Next ==
  \/ MainStep
  \/ \E u \in ToolUses : CallStep(u) \/ HookStep(u) \/ HookDies(u)

Spec == Init /\ [][Next]_vars

\* Claude Code ends every agent and runs every hook to its end.
Fairness == \A u \in ToolUses : WF_vars(CallStep(u)) /\ WF_vars(HookStep(u))

FairSpec == Spec /\ Fairness

-----------------------------------------------------------------------------
\* Every receipt in the ledger can be verified: no later write, by whichever
\* process, replaces the prose file of a receipt.  If one did, no command of the
\* run could read its ledger again.
ReceiptsIntact == Readable

\* A receipt goes to the call that spawned the agent and has that agent's text,
\* although the spawn payload names no call and denied calls leave intents.
ReceiptCorrelated ==
  \A i \in Receipts :
    ledger[i].agent # None =>
      ledger[i].tool = ledger[i].agent /\ ledger[i].text = ledger[i].agent

Outcomes(u) == {i \in Events("completed") \cup Events("aborted") : ledger[i].agent = u}

\* An agent has one receipt at most, and never both a receipt and an abort,
\* although two events deliver its end and hooks die in the middle.
OneOutcome ==
  \A u \in ToolUses : \A i, j \in Outcomes(u) :
    /\ ledger[i].type = ledger[j].type
    /\ ledger[i].type = "completed" => i = j

\* end-run closes the run to every agent at work: what is logged afterwards can
\* only be the end of a step that was started afterwards.
NothingLateAfterFinish ==
  \A f \in Events("finished"), i \in Receipts \cup Events("aborted") :
    f < i => \E j \in Events("started") : f < j /\ j < i

\* A step that is bound to an agent is closed at last, however the agent ends.
StepsClose ==
  \A u \in ToolUses : (step # None /\ step.agent = u) ~> ~(step # None /\ step.agent = u)

\* A hook that finds another step refuses before it writes: every prose file,
\* which the order gates read, has a receipt or a process about to log it.
ProseHasReceipt ==
  \A f \in DOMAIN prose :
    \/ \E i \in Receipts : ledger[i].path = f
    \/ \E u \in ToolUses : /\ hook[u] # None /\ hook[u].at = "commit"
                           /\ f = <<hook[u].kind, hook[u].occ>>
    \/ main # None /\ main.at = "commit" /\ main.path = f

\* The open step in the abstract: the current step of an agent that has not
\* ended.  Every step of intents, hooks and kills is a step of it or none.
OpenAgent ==
  IF step # None /\ step.agent # None /\ Outcomes(step.agent) = {}
  THEN step.agent ELSE None

OutcomeOf(u) ==
  IF Outcomes(u) = {} THEN None ELSE ledger[CHOOSE i \in Outcomes(u) : TRUE].type

Steps == INSTANCE StepLog
         WITH open <- OpenAgent, outcome <- [u \in ToolUses |-> OutcomeOf(u)]

StepLogSpec == Steps!Spec
==============================================================================

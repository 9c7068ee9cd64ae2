------------------------------ MODULE RunRecord ------------------------------
(***************************************************************************)
(* The record of one workflow run: its slot in live.json (state, current   *)
(* step, pending Agent intents), its append-only ledger.jsonl and its      *)
(* prose files (harness/session_state.py, ledger.py, signal_io.py).        *)
(*                                                                         *)
(* `transition` is the only writer of the slot and the ledger.  It runs    *)
(* under a file lock, so each operator below is atomic, except that it     *)
(* appends to the ledger before it writes live.json: a process killed      *)
(* between the two leaves the event without the change (torn).  Prose      *)
(* files and reads are outside the lock.                                   *)
(*                                                                         *)
(* Abstracted: an Agent call is named by its tool_use_id, and the agent    *)
(* instance it spawns (agent_id) by that call; a prose text is its author; *)
(* sha256 of a text is the text; timestamps are ranks.                     *)
(***************************************************************************)
EXTENDS Naturals, Sequences, FiniteSets

CONSTANTS
  Agents,     \* agent types
  Modes,      \* step modes
  ToolUses,   \* Agent tool calls
  Main,       \* the author of what the main session writes itself
  None        \* no step, no intent, no mode, no identity

VARIABLES
  run,        \* "open"; "completed"; "closed": no command resolves to it
  step,       \* current_step, or None
  pending,    \* pending[u]: the intent left by PreToolUse of u, or None
  ledger,     \* ledger.jsonl
  prose       \* the prose files: a function from paths to texts

recordVars == <<run, step, pending, ledger, prose>>

Kind == [agent : Agents, mode : Modes \cup {None}]
Identity == ToolUses \cup {None}
Author == ToolUses \cup {Main}

\* signal_path: <agent>[-<mode>][-<n>].md
Path == Kind \X Nat

Step == [kind : Kind, tool : Identity, agent : Identity, base : Nat]
Intent == [kind : Kind, auto : BOOLEAN, agent : Identity, at : Nat]
Event == [type : {"started", "completed", "aborted", "finished"},
          kind : Kind \cup {None}, tool : Identity, agent : Identity,
          path : Path \cup {None}, text : Author \cup {None}]

ASSUME RecordConstants ==
  /\ None \notin Kind /\ None \notin ToolUses /\ None \notin Modes
  /\ None \notin Step /\ None \notin Intent /\ None \notin Path
  /\ Main \notin ToolUses /\ Main # None

RecordTypeOK ==
  /\ run \in {"open", "completed", "closed"}
  /\ step \in Step \cup {None}
  /\ pending \in [ToolUses -> Intent \cup {None}]
  /\ ledger \in Seq(Event)
  /\ DOMAIN prose \subseteq Path
  /\ \A f \in DOMAIN prose : prose[f] \in Author

RecordInit ==
  /\ run = "open"
  /\ step = None
  /\ pending = [u \in ToolUses |-> None]
  /\ ledger = <<>>
  /\ prose = [f \in {} |-> None]

-----------------------------------------------------------------------------
Events(type) == {i \in DOMAIN ledger : ledger[i].type = type}
Receipts == Events("completed")

\* _drop_invalid_primary_steps: a receipt is valid while its prose file exists
\* and has the text it was made from.  One that is not makes every read raise.
Valid(i) ==
  /\ ledger[i].path \in DOMAIN prose
  /\ prose[ledger[i].path] = ledger[i].text

Readable == \A i \in Receipts : Valid(i)

\* count_step_completed: the occurrence of the next prose file.
Count(k) == Cardinality({i \in Receipts : ledger[i].kind = k})

\* Mutant of HasReceipt: the receipt of a step that is still current is ignored.
HasReceiptByStep(u) ==
  /\ Readable /\ \E i \in Receipts : ledger[i].tool = u
  /\ ~(step # None /\ step.tool = u)

\* _completed_agent_tool_use: on an unreadable ledger it answers no.
HasReceipt(u) == Readable /\ \E i \in Receipts : ledger[i].tool = u

\* identity_mismatch of _apply_step_transition, negated: an identity that the
\* caller does not know is not compared.
Matches(k, u, a) ==
  /\ step # None
  /\ step.kind = k
  /\ u # None => step.tool = u
  /\ a # None => step.agent = a

Log(type, k, u, a, path, text) ==
  ledger' = Append(ledger, [type |-> type, kind |-> k, tool |-> u, agent |-> a,
                            path |-> path, text |-> text])

-----------------------------------------------------------------------------
\* write_prose
WriteProse(path, text) ==
  prose' = [f \in DOMAIN prose \cup {path} |->
              IF f = path THEN text ELSE prose[f]]

\* pending_agent_set
SetIntent(u, k, auto, at) ==
  pending' = [pending EXCEPT
                ![u] = [kind |-> k, auto |-> auto, agent |-> None, at |-> at]]

\* Intents that no spawn has claimed, for agent type g.
Unclaimed(g) ==
  {w \in ToolUses : /\ pending[w] # None
                    /\ pending[w].agent = None
                    /\ pending[w].kind.agent = g}

\* Mutant of Newest: the oldest intent is taken for the spawn.
Oldest(g) == {w \in Unclaimed(g) :
                \A x \in Unclaimed(g) : pending[w].at <= pending[x].at}

\* _claim_pending_agent_spawn: max by started_at (launches are seconds apart).
Newest(g) == {w \in Unclaimed(g) :
                \A x \in Unclaimed(g) : pending[x].at <= pending[w].at}

\* pending_agent_spawned
ClaimIntent(w, a) == pending' = [pending EXCEPT ![w].agent = a]

\* pending_agent_cleared with require_exact
ClearIntent(w) == pending' = [pending EXCEPT ![w] = None]

\* step_started.  steps_count_at_begin is read from the ledger, so an unreadable
\* ledger refuses it.  It replaces whatever step was current.
StartStep(k, u, a) ==
  /\ Readable
  /\ step' = [kind |-> k, tool |-> u, agent |-> a, base |-> Cardinality(Receipts)]
  /\ Log("started", k, u, a, None, None)

\* step_identity_bound: identities that are already there must agree.
CanBind(k, u, a) ==
  /\ step # None
  /\ step.kind = k
  /\ step.tool \in {None, u}
  /\ step.agent \in {None, a}

BindStep(u, a) ==
  /\ step' = [step EXCEPT !.tool = u, !.agent = a]
  /\ UNCHANGED ledger

\* step_completed by `end-step`: the step is logged whatever step is current, and
\* closes the current one when agent and mode agree.
EndStep(k, path, text) ==
  /\ Log("completed", k, None, None, path, text)
  /\ step' = IF step # None /\ step.kind = k THEN None ELSE step

\* run_completed
FinishRun ==
  /\ run' = "completed"
  /\ step' = None
  /\ Log("finished", None, None, None, None, None)
==============================================================================

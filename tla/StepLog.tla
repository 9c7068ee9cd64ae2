------------------------------- MODULE StepLog -------------------------------
(***************************************************************************)
(* What the Agent lifecycle promises (docs/plugin/loop-procedure.md and    *)
(* hooks.md), without intents, hooks, files or crashes: at most one agent  *)
(* has the open step of the run, only the open step can end, it ends with  *)
(* the outcome of its agent, and no agent has two outcomes.                *)
(***************************************************************************)
CONSTANTS ToolUses, None

VARIABLES
  open,      \* the agent whose step is open, or None
  outcome    \* outcome[u]: how the step of agent u ended, or None

vars == <<open, outcome>>

Outcome == {"completed", "aborted"}

Init == open = None /\ outcome = [u \in ToolUses |-> None]

Open(u) ==
  /\ open = None /\ outcome[u] = None
  /\ open' = u
  /\ UNCHANGED outcome

Close(o) ==
  /\ open # None
  /\ outcome' = [outcome EXCEPT ![open] = o]
  /\ open' = None

\* begin-step, end-step and end-run take the step away from its agent.
Drop == open # None /\ open' = None /\ UNCHANGED outcome

Next ==
  \/ \E u \in ToolUses : Open(u)
  \/ \E o \in Outcome : Close(o)
  \/ Drop

Spec == Init /\ [][Next]_vars
==============================================================================

---------------------------- MODULE MCAgentHooks -----------------------------
(* Instances of AgentHooks: a review agent that main may also begin by hand,   *)
(* with a mode or without, and a worker.                                       *)
EXTENDS AgentHooks, TLC

CONSTANTS reviewer, worker, m

MCPlain == {[agent |-> reviewer, mode |-> None]}
MCModeful == {[agent |-> reviewer, mode |-> m]}
MCBoth == MCPlain \cup MCModeful

MCSymmetry == Permutations(ToolUses)
==============================================================================

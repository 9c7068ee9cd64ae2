------------------------------ MODULE PeerActors -----------------------------
(***************************************************************************)
(* The processes that share the claim board and the merge lock.            *)
(***************************************************************************)
CONSTANTS
  Sessions,     \* interactive sessions, each with its own run and branch
  Operators,    \* humans running recovery commands from other shells
  None          \* no file, no call, no task, no token

ASSUME ActorsAssumption ==
  /\ Sessions \cap Operators = {}
  /\ None \notin Sessions

Procs == Sessions \cup Operators
==============================================================================

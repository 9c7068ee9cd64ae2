----------------------------- MODULE SerialMerge -----------------------------
(***************************************************************************)
(* What the peer merge guard promises (docs/plugin/parallel-policy.md,     *)
(* section 5), without files, calls or crashes: one session at a time is   *)
(* in the merge stage, and a task is handed to GitHub from inside that     *)
(* stage only when every prior task of its story has been merged.          *)
(***************************************************************************)
CONSTANTS Sessions, Tasks, Prior, None

VARIABLES
  holder,     \* the session in the merge stage, or None
  requested,  \* tasks handed over to GitHub from inside the merge stage
  merged      \* <<session, task>>: pull requests that are merged

vars == <<holder, requested, merged>>

PullRequest == Sessions \X Tasks

Done(t) == \E s \in Sessions : <<s, t>> \in merged

Init == holder = None /\ requested = {} /\ merged = {}

Enter(s) == holder = None /\ holder' = s /\ UNCHANGED <<requested, merged>>

Leave == holder # None /\ holder' = None /\ UNCHANGED <<requested, merged>>

\* GitHub either merges at once or keeps the request (auto-merge).
Request(s, t) ==
  /\ holder = s
  /\ \A u \in Prior[t] : Done(u)
  /\ requested' = requested \cup {t}
  /\ merged' \in {merged, merged \cup {<<s, t>>}}
  /\ UNCHANGED holder

\* A pull request merges later: a kept request, or one outside the guard.
Merge(pr) == merged' = merged \cup {pr} /\ UNCHANGED <<holder, requested>>

Next ==
  \/ \E s \in Sessions : Enter(s)
  \/ Leave
  \/ \E s \in Sessions, t \in Tasks : Request(s, t)
  \/ \E pr \in PullRequest : Merge(pr)

Spec == Init /\ [][Next]_vars
==============================================================================

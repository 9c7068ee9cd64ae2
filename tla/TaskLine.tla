------------------------------ MODULE TaskLine ------------------------------
(* What a chain of tasks promises: tasks are completed one after another in   *)
(* path order, and the first task of a story only after the story before it   *)
(* was sealed, which happens only to a story whose tasks are all completed.   *)
EXTENDS Integers

CONSTANTS NTasks, Story

VARIABLES completed, sealed

Init == completed = {} /\ sealed = {}

\* Task t may be worked on and completed.
Open(t) ==
  /\ 1 .. (t - 1) \subseteq completed
  /\ t > 1 => Story[t - 1] = Story[t] \/ Story[t - 1] \in sealed

Complete(t) ==
  /\ Open(t)
  /\ completed' = completed \cup {t}
  /\ UNCHANGED sealed

SealStory(s) ==
  /\ {t \in 1 .. NTasks : Story[t] = s} \subseteq completed
  /\ sealed' = sealed \cup {s}
  /\ UNCHANGED completed

Next == (\E t \in 1 .. NTasks : Complete(t)) \/ (\E t \in 1 .. NTasks : SealStory(Story[t]))

Spec == Init /\ [][Next]_<<completed, sealed>>
=============================================================================

---------------------------- MODULE MCSessions -------------------------------
(* Instances of Sessions.  The processes are alike, and so are the sessions:   *)
(* progress is asked of one of each, fairness assumed of that process alone.   *)
EXTENDS Sessions, TLC

CONSTANTS s1, p1

FairSpec == Spec /\ Fairness(p1)

EndRunHealsOne == EndRunHeals(p1, s1)
==============================================================================

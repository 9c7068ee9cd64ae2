----------------------------- MODULE MCPeerMerge -----------------------------
(* Instances of PeerMerge: two tasks of one story, the second after the first; *)
(* or one task only.                                                           *)
EXTENDS PeerMerge, TLC

CONSTANTS t1, t2

MCTasks == {t1, t2}
MCPrior == t1 :> {} @@ t2 :> {t1}

MCOneTask == {t1}
MCNoPrior == t1 :> {}

MCSymmetry ==
  Permutations(Sessions) \cup Permutations(Tokens) \cup Permutations(Operators)
==============================================================================

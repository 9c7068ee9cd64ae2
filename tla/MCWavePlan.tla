----------------------------- MODULE MCWavePlan ------------------------------
(* Batches of four tasks: named in order, with dependencies and scopes of all *)
(* shapes; and in any order, with cycles, unknown dependencies and tasks that *)
(* must be serial, where scopes do not meet; with any files normalized.        *)
EXTENDS WavePlan

CONSTANTS MCMaxCap

\* A task that is forced is marked or, at even numbers, touches the risky place; one
\* that is unclear has its path among other words or, at even numbers, has prose beside it.
MCBatch(deps, scope, forced, unclear) ==
  [t \in 1..N |->
     LET even == t % 2 = 0
         wordy == t \in unclear /\ ~even
         risk == IF t \in forced /\ even THEN Risky ELSE {}
     IN [listed |-> deps[t] # Unknown, deps |-> IF deps[t] = Unknown THEN {} ELSE deps[t],
         marked |-> t \in forced /\ ~even, prose |-> t \in unclear /\ even,
         paths |-> (IF wordy THEN {} ELSE scope[t]) \cup risk,
         wordy |-> IF wordy THEN scope[t] ELSE {}]]

MCOrdered == {d \in [1..N -> SUBSET (1..(N - 1))] : \A t \in 1..N : d[t] \subseteq 1..(t - 1)}
MCScopes == [1..N -> {{1}, {2}, {1, 2}}]
MCApart == [t \in 1..N |-> {t}]
MCAnyOrder == [1..N -> {{t} : t \in 1..N} \cup {{}, Unknown}]

MCBatches ==
  {MCBatch(d, s, {}, {}) : d \in MCOrdered, s \in MCScopes}
  \cup {MCBatch(d, MCApart, f, {}) : d \in MCAnyOrder, f \in {{}, {2}}}
  \cup {MCBatch([t \in 1..N |-> {}], MCApart, f, v) : f, v \in SUBSET (1..N)}

\* Before normalize-scope, after it, and after one that was stopped half way.
MCNormalized == {{}, {1, 2}, 1..N}

MCHighRisks == {{}} \cup {{t} : t \in 1..N}
MCCaps == 0..MCMaxCap
==============================================================================

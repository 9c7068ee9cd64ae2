------------------------------- MODULE Verdicts ------------------------------
(***************************************************************************)
(* How the harness reads an agent's verdict from its free prose            *)
(* (harness/run_review.py).  Two readers answer two questions: Conclusion  *)
(* finds the routing word that the whole text shows, by priority, and is   *)
(* what the order gate and the Stop hook ask; FinalConclusion reads what   *)
(* the last paragraph declares.                                            *)
(*                                                                         *)
(* A prose is a sequence of paragraphs, a paragraph a sequence of lines.   *)
(* Of a line the readers tell apart the verdict words in their order, the  *)
(* label of an explicit "conclusion:" line, whether it starts with its     *)
(* first verdict, and where a negation stands.  Four labels stand for the  *)
(* thirteen: a routing word of failure, one of success, PASS and FAIL.     *)
(* A prose is no longer than the 15 lines of the tail.                     *)
(***************************************************************************)
EXTENDS Naturals, Sequences, SequencesExt

NoVerdict == ""

\* _CONCLUSION_ENUMS, in the order of their priority.
Priority == <<"VALIDATION_BLOCKED", "UX_FLOW_READY", "PASS", "FAIL">>
Labels == ToSet(Priority)

\* _STANDALONE_CONCLUSIONS: a negation on their line does not undo them.
Standalone == {"VALIDATION_BLOCKED", "UX_FLOW_READY"}

\* _FAIL_CLASS_VERDICTS, and the words of _VERDICT_ALTERNATION.
FailClass == {"VALIDATION_BLOCKED", "FAIL"}
Declarable == FailClass \cup {"PASS"}

Negation == {"none", "first", "elsewhere"}   \* "first": right behind the first verdict
Line == [words : Seq(Labels), explicit : Labels \cup {NoVerdict},
         leads : BOOLEAN, negation : Negation]

HighestIn(s) == CHOOSE i \in s : \A j \in s : j <= i
LowestIn(s) == CHOOSE i \in s : \A j \in s : i <= j

-----------------------------------------------------------------------------
\* The last explicit conclusion of these lines.
ExplicitConclusion(lines) ==
  LET said == {i \in DOMAIN lines : lines[i].explicit # NoVerdict}
  IN  IF said = {} THEN NoVerdict ELSE lines[HighestIn(said)].explicit

Shows(line, label) ==
  /\ label \in ToSet(line.words)
  /\ label \in Standalone \/ line.negation = "none"

\* _extract_conclusion_enum: an explicit line wherever it is; else the first
\* label in the order of priority that any line shows.
Conclusion(prose) ==
  LET lines == FlattenSeq(prose)
      shown == {p \in DOMAIN Priority : \E i \in DOMAIN lines : Shows(lines[i], Priority[p])}
  IN  IF ExplicitConclusion(lines) # NoVerdict THEN ExplicitConclusion(lines)
      ELSE IF shown = {} THEN NoVerdict ELSE Priority[LowestIn(shown)]

\* _final_verdict_token: from below, the last verdict of the first line that
\* has one, a negated PASS being none.
FinalToken(lines) ==
  LET said(i) == SelectSeq(lines[i].words, LAMBDA w : w \in Declarable)
      decided == {i \in DOMAIN lines :
                    said(i) # <<>> /\ ~(Last(said(i)) = "PASS" /\ lines[i].negation # "none")}
  IN  IF decided = {} THEN NoVerdict ELSE Last(said(HighestIn(decided)))

\* _standalone_verdict_label: a line that starts with a verdict declares it,
\* unless it is a PASS that is negated at once.
Declares(line) ==
  /\ line.leads /\ line.words # <<>> /\ Head(line.words) \in Declarable
  /\ ~(Head(line.words) = "PASS" /\ line.negation = "first")

\* _extract_final_conclusion_enum: in the last paragraph, the first declaration,
\* else its explicit line, else any verdict it mentions.
FinalConclusion(prose) ==
  IF prose = <<>> THEN NoVerdict
  ELSE LET lines == Last(prose)
           declared == {i \in DOMAIN lines : Declares(lines[i])}
       IN  IF declared # {} THEN Head(lines[LowestIn(declared)].words)
           ELSE IF ExplicitConclusion(lines) # NoVerdict THEN ExplicitConclusion(lines)
           ELSE FinalToken(lines)

\* gate_verdict_from_prose: what the reports make of a verdict that was read
\* before.  A PASS is taken back when the text ends in a failure.
GateVerdict(verdict, prose) ==
  IF FinalConclusion(prose) # NoVerdict THEN FinalConclusion(prose)
  ELSE IF verdict = "PASS" /\ FinalToken(FlattenSeq(prose)) \in FailClass THEN "FAIL"
  ELSE verdict
==============================================================================

--------------------------- MODULE MCCloseSequence ---------------------------
(* Instances of CloseSequence: reports that pass, that fail, and that fail     *)
(* after a line about tests that pass.                                        *)
EXTENDS CloseSequence, TLC

MCLine(words, leads) ==
  [words |-> words, explicit |-> NoVerdict, leads |-> leads, negation |-> "none"]

MCPass == <<<<MCLine(<<"PASS">>, TRUE)>>>>
MCFail == <<<<MCLine(<<"FAIL">>, TRUE)>>>>
MCFailWithTests == <<<<MCLine(<<"PASS">>, FALSE)>>, <<MCLine(<<"FAIL">>, TRUE)>>>>

MCPlainTexts == {MCPass, MCFail}
MCMisleadingTexts == {MCPass, MCFail, MCFailWithTests}
==============================================================================

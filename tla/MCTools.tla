-------------------------------- MODULE MCTools --------------------------------
(* Instances of the tools: small journeys, commands of three segments, two    *)
(* languages, an epic of two stories, two denials and two launches.           *)
EXTENDS Tools, TLC

CONSTANTS a, b, x, y, login, src, testdir

\* Journeys: an api contract, one with a screen, and one command.
MCApi == [target |-> {a, b}, scenarios |-> TRUE, owns |-> x :> {a} @@ y :> {a, b},
          boundary |-> "api", source |-> "journey_exit", screens |-> <<>>]
MCUi == [MCApi EXCEPT !.owns = x :> {a, b}, !.boundary = "ui",
           !.screens = login :> [by |-> x, shows |-> {a, b}, judges |-> {a, b}, final |-> TRUE]]
MCManifests == {MCApi, MCUi, [MCApi EXCEPT !.owns = <<>>, !.scenarios = FALSE]}

-----------------------------------------------------------------------------
\* The file guard.
Guard == INSTANCE AgentBoundary WITH OverrideFiles <- {}, Scopes <- {}, Commands <- {}
MCEvery(set) == [agent \in Guard!Agents |-> set]
MCPlain == [retired |-> FALSE, add |-> MCEvery({}), remove |-> MCEvery({})]
MCOverrideFiles ==
  {MCPlain, [MCPlain EXCEPT !.add = MCEvery(Guard!Area)],
   [MCPlain EXCEPT !.remove = MCEvery({"source"})], [MCPlain EXCEPT !.retired = TRUE]}
MCScopes == {{}, {"readme", "docs"}}

MCOps == {";", "&&", "||", "|", "&"}
MCSeg(kind, value, op) == [kind |-> kind, value |-> value, op |-> op]
MCAssigns == {MCSeg("assign", v, op) : v \in {"source", "boundary", Unknown}, op \in MCOps}
MCRun == {MCSeg("run", Unknown, op) : op \in {"&&", "||"}}
MCMiddles == {s \in MCAssigns : s.value # "source"} \cup MCRun \cup {MCSeg("writeT", Unknown, op) : op \in MCOps}
  \cup {MCSeg(k, "boundary", op) : k \in {"rebind", "dynamic"}, op \in {";", "&&"}}
MCLasts == {MCSeg(k, Unknown, ";") : k \in {"writeT", "quotedT", "python", "push"}}
  \cup {MCSeg("write", v, ";") : v \in {"source", "docs", "verdict"}}
  \cup {MCSeg("python", "source", ";")}
\* A background list is one command, see BoundaryConstants.
MCCommands ==
  {c \in {<<h, m, l>> : h \in MCAssigns \cup MCRun, m \in MCMiddles, l \in MCLasts} :
     c[2].op = "&" => c[1].op \notin {"&&", "||"}}

-----------------------------------------------------------------------------
\* The TDD guard: a contract of the user's, and one whose first root holds tests.
MCAsks(exts, roots, recognises) == [exts |-> exts, roots |-> roots, recognises |-> recognises]
MCSourceFiles == {[ext |-> e, root |-> src] : e \in {"ts", "py"}}
MCPresets == {MCAsks(<<"ts">>, <<src>>, {"ts"}), MCAsks(<<"py">>, <<testdir, src>>, {"py"})}
MCContracts == {MCAsks(<<"ts", "py">>, <<src>>, {})}

-----------------------------------------------------------------------------
\* Issues, and two pull requests for two of them.
MCKind(types, first, urgent, parent) ==
  [types |-> types, first |-> first, urgent |-> urgent, parent |-> parent]
MCIssueKinds ==
  {MCKind({"story"}, "story", TRUE, None), MCKind({"story", "bug"}, "bug", TRUE, None),
   MCKind({"subTask"}, "subTask", FALSE, 1)}
MCBodies == <<<<1, 2>>, <<1>>>>

-----------------------------------------------------------------------------
\* Denials of the sandbox, and failures of providers.
MCAnswered(blocked, log, tools, prose) ==
  [blocked |-> blocked, log |-> log, tools |-> tools, prose |-> prose]
MCAnswers ==
  {MCAnswered(FALSE, {"socket"}, {}, {}), MCAnswered(TRUE, {}, {}, {"socket"}),
   MCAnswered(TRUE, {"socket"}, {"user"}, {}),
   MCAnswered(TRUE, {"home"}, {"other", "project"}, {}),
   MCAnswered(TRUE, {"infra"}, {"socket"}, {})}

MCObserved(cause, exit, words) == [cause |-> cause, exit |-> exit, words |-> words]
MCObservations ==
  {MCObserved("cli_missing", 127, {}), MCObserved("empty_output", 1, {"auth"}),
   MCObserved(None, 124, {"config"}), MCObserved(None, 1, {"auth", "network"})}

-----------------------------------------------------------------------------
\* Where a behaviour is: the tools at rest do not move.
MCView ==
  CASE tool = "journey" -> <<tool, JVars>> [] tool = "boundary" -> <<tool, BVars>>
    [] tool = "tdd" -> <<tool, TVars>> [] tool = "board" -> <<tool, IVars>>
    [] tool = "labels" -> <<tool, LVars>> [] tool = "permission" -> <<tool, PVars>>
    [] tool = "cache" -> <<tool, CVars>>
================================================================================

--------------------------------- MODULE Tools ---------------------------------
(***************************************************************************)
(* The tools that stand beside the loop, each on its own: in a behaviour   *)
(* one of them is at work and the others rest, since they share no state.  *)
(***************************************************************************)
EXTENDS Integers, FiniteSets

CONSTANTS
  None,
  Whole, Manifests, ScreenStates, MaxJourneys, MaxDamaged,     \* see ProductJourney
  Main, Unknown, Callers, OverrideFiles, Scopes, Commands,     \* see AgentBoundary
  Broken, SourceFiles, Presets, Contracts, TestRoot,           \* see TddGuard
  NumStories, MaxIssues, Triaged,                              \* see IssueBoard
  Issues, IssueKinds, Bodies,                                  \* see IssueLabels
  MaxDenials, Workers, TotalTimeout, IdleTimeout, Answers,     \* see SandboxPermission
  Damaged, Launches, Providers, MaxRuns, Observations          \* see FailureCache

VARIABLES
  manifest, receipts,
  off, overrides, last,
  contract, registered, script, settings, ensure, tests, written, exempted,
  stories, issues, board, creating, reg, reported,
  issue, start, job, asked, flagged,
  denials, stored, worker, answer, retries,
  story, files, launches, seen, kept,
  tool           \* the tool at work in this behaviour

J == INSTANCE ProductJourney WITH MaxReceipts <- MaxJourneys
B == INSTANCE AgentBoundary
T == INSTANCE TddGuard WITH Files <- SourceFiles
I == INSTANCE IssueBoard WITH script <- creating
L == INSTANCE IssueLabels WITH Kinds <- IssueKinds
P == INSTANCE SandboxPermission WITH
       MaxReceipts <- MaxDenials, receipts <- denials, settings <- stored
C == INSTANCE FailureCache WITH Scripts <- Launches, script <- launches

ASSUME ToolsConstants ==
  /\ J!JourneyConstants /\ B!BoundaryConstants /\ T!TddConstants
  /\ I!BoardConstants /\ L!LabelsConstants
  /\ P!PermissionConstants /\ C!CacheConstants

BVars == <<off, overrides, last>>
TVars == <<contract, registered, script, settings, ensure, tests, written, exempted>>
IVars == <<stories, issues, board, creating, reg, reported>>
LVars == <<issue, start, job, asked, flagged>>
JVars == <<manifest, receipts>>
PVars == <<denials, stored, worker, answer, retries>>
CVars == <<story, files, launches, seen, kept>>

vars == <<JVars, BVars, TVars, IVars, LVars, PVars, CVars, tool>>

Names == {"journey", "boundary", "tdd", "board", "labels", "permission", "cache"}

Init ==
  /\ tool \in Names
  /\ J!Init /\ B!Init /\ T!Init /\ I!Init /\ L!Init /\ P!Init /\ C!Init
  /\ tool # "boundary" => overrides = CHOOSE file \in OverrideFiles : TRUE

Moves ==
  \/ /\ tool = "journey" /\ J!Next
     /\ UNCHANGED <<BVars, TVars, IVars, LVars, PVars, CVars>>
  \/ /\ tool = "boundary" /\ B!Next
     /\ UNCHANGED <<JVars, TVars, IVars, LVars, PVars, CVars>>
  \/ /\ tool = "tdd" /\ T!Next
     /\ UNCHANGED <<JVars, BVars, IVars, LVars, PVars, CVars>>
  \/ /\ tool = "board" /\ I!Next
     /\ UNCHANGED <<JVars, BVars, TVars, LVars, PVars, CVars>>
  \/ /\ tool = "labels" /\ L!Next
     /\ UNCHANGED <<JVars, BVars, TVars, IVars, PVars, CVars>>
  \/ /\ tool = "permission" /\ P!Next
     /\ UNCHANGED <<JVars, BVars, TVars, IVars, LVars, CVars>>
  \/ /\ tool = "cache" /\ C!Next
     /\ UNCHANGED <<JVars, BVars, TVars, IVars, LVars, PVars>>

Next == Moves /\ UNCHANGED tool

Spec == Init /\ [][Next]_vars

-----------------------------------------------------------------------------
\* The properties of the modules, each stated there. Of a tool at rest there is
\* only its initial state, which a behaviour of its own shows as well.
SkipBacked == tool = "journey" => J!SkipBacked
CloseReadySound == tool = "journey" => J!CloseReadySound
GuardKept == B!GuardKept
RolesApart == tool = "boundary" => B!RolesApart
TestFirst == T!TestFirst
RegisteredTested == T!RegisteredTested
StoryOnce == tool = "board" => I!StoryOnce
TriageKept == I!TriageKept
RegisteredFully == I!RegisteredFully
RetainedLabelSeen == tool = "labels" => L!RetainedLabelSeen
EveryIssueOffered == tool = "labels" => L!EveryIssueOffered
RetriedOnce == tool = "permission" => P!RetriedOnce
CacheExact == tool = "cache" => C!CacheExact
=============================================================================

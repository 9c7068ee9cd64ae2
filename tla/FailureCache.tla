------------------------------ MODULE FailureCache ------------------------------
(* harness/provider_failure_cache.py as scripts/dcness-implementation-chain   *)
(* and harness/story_runner.py use it: what made a provider unfit is kept     *)
(* beside the story run and spares the run's later tasks a new attempt. A     *)
(* launch that was cut off may work on beside its successor.                  *)
EXTENDS Integers, FiniteSets

CONSTANTS
  None,
  Damaged,       \* a cache file that is unreadable or of another contract
  Scripts,       \* launches of the chain script that may be alive at once
  Providers,     \* the headless providers
  MaxRuns,       \* bound: story runs written to the state file
  Observations   \* what a worker may see of a failure, see ObservationType

Runs == 1 .. MaxRuns

CacheableCategories == {"cli_missing", "auth_unavailable", "config_unavailable"}
NonCacheableCategories ==
  {"timeout", "idle_timeout", "empty_output", "boundary_violation", "tdd_guard",
   "phase_evidence", "interrupt", "network_transient", "provider_error"}
Categories == CacheableCategories \cup NonCacheableCategories

ObservationType ==
  [cause : {None} \cup Categories, exit : {1, 124, 127, 130},
   words : SUBSET {"auth", "config", "network"}]

CacheConstants ==
  /\ MaxRuns \in Nat
  /\ Observations \subseteq ObservationType
  /\ \A entries \in SUBSET Providers : entries \notin {None, Damaged}
  /\ None \notin Categories

VARIABLES
  story,    \* the state file: its run, how far that is, and an init under way
  files,    \* the providers in the cache file of each run
  script,   \* the launches, each at one provider of its chain
  seen,     \* history: providers found unfit while each run was current
  kept      \* history: providers whose record must still be there

vars == <<story, files, script, seen, kept>>

ScopeType ==
  [kind : {"none"}] \cup [kind : {"run"}, run : Runs, active : BOOLEAN]
LaunchType ==
  [pc : {"ask", "check", "start", "record", "write", "clear", "erase"},
   p : Providers, bypass : BOOLEAN, scope : ScopeType]

Idle == [pc |-> "off"]

Init ==
  /\ story = [run |-> 0, phase |-> "none", init |-> FALSE]
  /\ files = [c \in Runs |-> None]
  /\ script = [s \in Scripts |-> Idle]
  /\ seen = [c \in Runs |-> {}]
  /\ kept = [c \in Runs |-> {}]

-----------------------------------------------------------------------------
(* The story runner                                                            *)

Invalidate(c) ==
  /\ files' = [files EXCEPT ![c] = None]
  /\ kept' = [kept EXCEPT ![c] = {}]

\* Before an init: the cache of the run that is there goes, and a completed run
\* is archived; an open one needs --force. The init may be killed and repeated.
PrepareInit ==
  /\ story.run < MaxRuns
  /\ \/ /\ story.phase = "none"
        /\ story' = [story EXCEPT !.init = TRUE]
        /\ UNCHANGED <<files, kept>>
     \/ /\ story.phase # "none"
        /\ \E force \in BOOLEAN :
             /\ story.phase = "open" => force
             /\ story' = [story EXCEPT !.init = TRUE, !.phase = IF force THEN @ ELSE "none"]
        /\ Invalidate(story.run)
  /\ UNCHANGED <<script, seen>>

\* The state of the new run, under a new chain_id.
SaveRun ==
  /\ story.init
  /\ story' = [run |-> story.run + 1, phase |-> "open", init |-> FALSE]
  /\ seen' = [seen EXCEPT ![story.run + 1] =
                {script[s].p : s \in {s \in Scripts : script[s].pc = "record"}}]
  /\ UNCHANGED <<files, script, kept>>

\* The last task is marked completed, or one is taken up again.
MarkTask ==
  /\ story.phase # "none"
  /\ \E phase \in {"open", "done"} : story' = [story EXCEPT !.phase = phase]
  /\ UNCHANGED <<files, script, seen, kept>>

-----------------------------------------------------------------------------
(* Failures                                                                    *)

\* Mutant of Classify: the log is read before the cause and the exit code.
ClassifyLogFirst(o) ==
  CASE "auth" \in o.words -> "auth_unavailable"
    [] "auth" \notin o.words /\ "config" \in o.words -> "config_unavailable"
    [] OTHER -> "provider_error"

Classify(o) ==
  CASE o.cause # None -> o.cause
    [] o.cause = None /\ o.exit = 124 -> "timeout"
    [] o.cause = None /\ o.exit = 130 -> "interrupt"
    [] OTHER -> IF "auth" \in o.words THEN "auth_unavailable"
                ELSE IF "config" \in o.words THEN "config_unavailable"
                ELSE IF "network" \in o.words THEN "network_transient"
                ELSE "provider_error"

\* What the worker writes of a failure for the chain script.
Emit(p, category) ==
  [provider |-> p, category |-> category, cacheable |-> category \in CacheableCategories]

\* What the chain script takes of it.
Recordable(failure, p) ==
  /\ failure.provider = p
  /\ failure.cacheable = (failure.category \in CacheableCategories)
  /\ failure.cacheable

\* A provider stopped by a limit or a signal is not known to be unfit.
Unfit(o) ==
  \/ o.cause \in CacheableCategories
  \/ o.cause = None /\ o.exit \notin {124, 130} /\ o.words \cap {"auth", "config"} # {}

-----------------------------------------------------------------------------
(* The cache file                                                              *)

\* The run a launch's call is about, read from the state file before the lock.
Scope ==
  IF story.phase = "none" THEN [kind |-> "none"]
  ELSE [kind |-> "run", run |-> story.run, active |-> story.phase = "open"]

\* The entries that can be read: any other file counts for none.
Entries(c) == IF files[c] \in {None, Damaged} THEN {} ELSE files[c]

Active(scope) == scope.kind = "run" /\ scope.active

Goes(s, pc) == script' = [script EXCEPT ![s].pc = pc]
Ends(s) == script' = [script EXCEPT ![s] = Idle]

-----------------------------------------------------------------------------
(* A launch: check, run the provider, then record or clear                     *)

\* An explicit provider and a permission retry bypass the cache.
Launch(s) ==
  /\ script[s].pc = "off" /\ story.phase # "none"
  /\ \E p \in Providers, bypass \in BOOLEAN :
       script' = [script EXCEPT ![s] =
         [pc |-> IF bypass THEN "start" ELSE "ask", p |-> p, bypass |-> bypass,
          scope |-> [kind |-> "none"]]]
  /\ UNCHANGED <<story, files, seen, kept>>

Locks == [ask |-> "check", record |-> "write", clear |-> "erase"]

ReadScope(s) ==
  /\ script[s].pc \in DOMAIN Locks
  /\ script' = [script EXCEPT ![s].pc = Locks[@], ![s].scope = Scope]
  /\ UNCHANGED <<story, files, seen, kept>>

Check(s) ==
  /\ script[s].pc = "check"
  /\ IF Active(script[s].scope) /\ script[s].p \in Entries(script[s].scope.run)
       THEN Ends(s) ELSE Goes(s, "start")
  /\ UNCHANGED <<story, files, seen, kept>>

Succeeds(s) ==
  /\ script[s].pc = "start"
  /\ IF script[s].bypass THEN Goes(s, "clear") ELSE Ends(s)
  /\ UNCHANGED <<story, files, seen, kept>>

\* Failures before a change of the workspace may be recorded, if the worker
\* could write the failure file.
Fails(s) ==
  /\ script[s].pc = "start"
  /\ \E o \in Observations, clean \in BOOLEAN :
       LET p == script[s].p
           records == clean /\ ~script[s].bypass /\ Recordable(Emit(p, Classify(o)), p)
       IN /\ IF records THEN Goes(s, "record") ELSE Ends(s)
          /\ seen' = IF clean /\ Unfit(o) THEN [seen EXCEPT ![story.run] = @ \cup {p}] ELSE seen
  /\ UNCHANGED <<story, files, kept>>

\* The first failure of a provider stays; a damaged file is begun anew.
RecordFailure(s) ==
  /\ script[s].pc = "write"
  /\ LET c == script[s].scope.run
     IN IF Active(script[s].scope)
          THEN /\ files' = [files EXCEPT ![c] = Entries(c) \cup {script[s].p}]
               /\ kept' = [kept EXCEPT ![c] = @ \cup {script[s].p}]
          ELSE UNCHANGED <<files, kept>>
  /\ Ends(s)
  /\ UNCHANGED <<story, seen>>

\* The file without a provider, and no file without entries.
Without(c, p) == IF Entries(c) = {p} THEN None ELSE Entries(c) \ {p}

ClearCachedFailure(s) ==
  /\ script[s].pc = "erase"
  /\ LET p == script[s].p
         c == script[s].scope.run
     IN IF script[s].scope.kind = "run" /\ p \in Entries(c)
          THEN /\ files' = [files EXCEPT ![c] = Without(c, p)]
               /\ kept' = [kept EXCEPT ![c] = @ \ {p}]
          ELSE UNCHANGED <<files, kept>>
  /\ Ends(s)
  /\ UNCHANGED <<story, seen>>

\* The launch is killed, or its worktree is not that of the state file: then
\* the call fails, and with a failing check the launch.
Stops(s) ==
  /\ script[s].pc # "off"
  /\ Ends(s)
  /\ UNCHANGED <<story, files, seen, kept>>

\* From outside: a cache file that can no longer be read.
Damage(c) ==
  /\ files[c] \notin {None, Damaged}
  /\ files' = [files EXCEPT ![c] = Damaged]
  /\ kept' = [kept EXCEPT ![c] = {}]
  /\ UNCHANGED <<story, script, seen>>

TypeOK ==
  /\ story \in [run : 0 .. MaxRuns, phase : {"none", "open", "done"}, init : BOOLEAN]
  /\ files \in [Runs -> {None, Damaged} \cup SUBSET Providers]
  /\ script \in [Scripts -> {Idle} \cup LaunchType]
  /\ seen \in [Runs -> SUBSET Providers]
  /\ kept \in [Runs -> SUBSET Providers]

Next ==
  \/ PrepareInit \/ SaveRun \/ MarkTask
  \/ \E s \in Scripts :
       Launch(s) \/ ReadScope(s) \/ Check(s) \/ Succeeds(s) \/ Fails(s)
       \/ RecordFailure(s) \/ ClearCachedFailure(s) \/ Stops(s)
  \/ \E c \in Runs : Damage(c)

Spec == Init /\ [][Next]_vars

-----------------------------------------------------------------------------
\* The cache of a run is its memory, no more and no less, whatever two launches
\* record and clear between each other's steps. What a later task may skip failed
\* before any change and by no limit or signal, while the run was current or in a
\* launch that outlived the run before; and what was recorded spares later tasks
\* the attempt until the provider's own success, the run's end or damage.
CacheExact == \A c \in Runs : kept[c] \subseteq Entries(c) /\ Entries(c) \subseteq seen[c]
=============================================================================

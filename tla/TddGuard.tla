------------------------------- MODULE TddGuard ------------------------------
(***************************************************************************)
(* The TDD guard: the hook of the plugin (hooks/tdd-guard.sh), which knows *)
(* TypeScript and JavaScript, and the hook generated for a project that    *)
(* has a contract of its own (harness/tdd_hooks.py).  `ensure` tests,      *)
(* installs and registers the generated hook while others edit, and may be *)
(* stopped between any two of its writes.                                  *)
(*                                                                         *)
(* A source file is [ext, root].  A contract lists extensions and source   *)
(* roots in order, and recognises the tests of some extensions as tests.   *)
(***************************************************************************)
EXTENDS Integers, FiniteSets, SequencesExt

CONSTANTS
  None,
  Broken,        \* a JSON file that cannot be read
  Files,         \* source files of the instance
  Presets,       \* contracts of the platforms that --platform and --source-roots give
  Contracts,     \* contracts that the user may write
  TestRoot       \* a root inside a test directory

VARIABLES
  contract,      \* .dcness/tdd-hooks.json
  registered,    \* its "registered" flags: the targets cc and codex
  script,        \* targets with a generated hook script
  settings,      \* .claude/settings.json and .codex/hooks.json by target
  ensure,        \* the `ensure` under way, or None
  tests,         \* source files that have a matching test
  written,       \* source files that exist
  exempted       \* those that carry a tdd-exempt marker with a reason

installed == <<contract, registered, script, settings, ensure>>
sources == <<tests, written, exempted>>
vars == <<contract, registered, script, settings, ensure, tests, written, exempted>>

Target == {"cc", "codex"}

TddConstants ==
  /\ None # Broken /\ {None, Broken} \cap (Presets \cup Contracts) = {}
  /\ \A c \in Presets \cup Contracts : 1 \in DOMAIN c.exts /\ 1 \in DOMAIN c.roots

-----------------------------------------------------------------------------
(* What a contract asks.                                                    *)

\* In a test directory every file is a test.
ShouldEnforce(c, f) ==
  f.ext \in Range(c.exts) /\ f.root \in Range(c.roots) /\ f.root # TestRoot

\* The test of f, next to it, is taken for an implementation file.
TestEnforced(c, f) == ShouldEnforce(c, f) /\ f.ext \notin c.recognises

\* evaluate_payload for a source file, and for its test.
Blocks(c, f, exempt) ==
  ShouldEnforce(c, f) /\ f \notin tests /\ f \notin exempted /\ ~exempt
BlocksTest(c, f) == TestEnforced(c, f)

\* Mutant: the hook is installed whatever its test says.
SelfTestIgnored(c) == c.exts # <<>>

\* A file without a test is denied, one with a test and the test itself pass: asked
\* of the first extension in the first root.
SelfTest(c) ==
  LET f == [ext |-> c.exts[1], root |-> c.roots[1]]
  IN ShouldEnforce(c, f) /\ ~TestEnforced(c, f)

-----------------------------------------------------------------------------
(* The guards that a write meets.                                           *)

\* The generated hook allows when it cannot read its contract.
GeneratedBlocks(f, exempt) ==
  contract \notin {None, Broken} /\ Blocks(contract, f, exempt)

\* The plugin's own rules.
CentralScope(f) == f.ext = "ts" /\ f.root # TestRoot
CentralRules(f, exempt) ==
  CentralScope(f) /\ f \notin tests /\ f \notin exempted /\ ~exempt

\* Mutant: the script alone makes the plugin hand over.
HandsOverToScript == "cc" \in script

HandsOver == "cc" \in script /\ contract # None

\* An interactive session runs the project's hook as well if it is registered; the
\* check made for a headless worker always asks it.
CentralBlocks(f, exempt, headless) ==
  IF HandsOver
  THEN /\ headless \/ settings["cc"] # "registered"
       /\ GeneratedBlocks(f, exempt)
  ELSE CentralRules(f, exempt)

ProjectBlocks(f, exempt) ==
  settings["cc"] = "registered" /\ "cc" \in script /\ GeneratedBlocks(f, exempt)

Denied(f, exempt, headless) ==
  \/ CentralBlocks(f, exempt, headless)
  \/ ~headless /\ ProjectBlocks(f, exempt)

Init ==
  /\ contract = None /\ registered = {} /\ script = {}
  /\ settings = [t \in Target |-> "plain"] /\ ensure = None
  /\ tests = {} /\ written = {} /\ exempted = {}

WriteSource(f, exempt, headless) ==
  /\ ~Denied(f, exempt, headless)
  /\ written' = written \cup {f}
  /\ exempted' = IF exempt THEN exempted \cup {f} ELSE exempted
  /\ UNCHANGED <<installed, tests>>

\* The plugin's rules let every test pass, a contract those it recognises.
WriteTest(f) ==
  /\ ~(HandsOver /\ contract \notin {None, Broken} /\ BlocksTest(contract, f))
  /\ tests' = tests \cup {f}
  /\ UNCHANGED <<installed, written, exempted>>

DeleteFile(f) ==
  /\ f \in written \cup tests
  /\ \/ /\ written' = written \ {f} /\ exempted' = exempted \ {f}
        /\ UNCHANGED tests
     \/ tests' = tests \ {f} /\ UNCHANGED <<written, exempted>>
  /\ UNCHANGED installed

-----------------------------------------------------------------------------
(* ensure_generated_hooks.                                                  *)

\* An existing contract is taken as it is, and stops an ensure for another one.
Built(given) ==
  CASE contract = Broken -> {}
    [] contract = None -> given
    [] OTHER -> IF given \subseteq {contract} THEN {contract} ELSE {}

\* Codex is never registered without Claude.
Order(targets) == IF "codex" \in targets THEN <<"cc", "codex">> ELSE <<"cc">>

BeginEnsure(targets, given) ==
  /\ ensure = None
  /\ \A t \in Range(Order(targets)) : settings[t] # "broken"
  /\ \E c \in Built(given) :
       ensure' = [c |-> c, todo |-> Order(targets), step |-> "test",
                  flags |-> IF contract = None THEN {} ELSE registered]
  /\ UNCHANGED <<contract, registered, script, settings, sources>>

At(step) == ensure # None /\ ensure.step = step
Goal == Head(ensure.todo)

RunSelfTest ==
  /\ At("test")
  /\ ensure' = IF SelfTest(ensure.c) THEN [ensure EXCEPT !.step = "install"] ELSE None
  /\ UNCHANGED <<contract, registered, script, settings, sources>>

InstallHookScript ==
  /\ At("install")
  /\ script' = script \cup {Goal} /\ ensure' = [ensure EXCEPT !.step = "register"]
  /\ UNCHANGED <<contract, registered, settings, sources>>

RegisterHook ==
  /\ At("register")
  /\ IF settings[Goal] = "broken"
     THEN ensure' = None /\ UNCHANGED settings
     ELSE /\ settings' = [settings EXCEPT ![Goal] = "registered"]
          /\ ensure' = [ensure EXCEPT !.step = "record"]
  /\ UNCHANGED <<contract, registered, script, sources>>

\* The contract that was tested replaces what is on disk.
RecordRegistration ==
  /\ At("record")
  /\ contract' = ensure.c /\ registered' = ensure.flags \cup {Goal}
  /\ ensure' = IF Len(ensure.todo) = 1 THEN None
               ELSE [ensure EXCEPT !.step = "test", !.todo = Tail(@), !.flags = registered']
  /\ UNCHANGED <<script, settings, sources>>

StopEnsure ==
  /\ ensure # None /\ ensure' = None
  /\ UNCHANGED <<contract, registered, script, settings, sources>>

\* Someone edits, breaks or deletes a file; a checkout brings another contract.
EditContract(c) ==
  /\ contract' = c
  /\ registered' = IF c \in {None, Broken} THEN {} ELSE registered
  /\ UNCHANGED <<script, settings, ensure, sources>>

RemoveScript(t) ==
  /\ t \in script /\ script' = script \ {t}
  /\ UNCHANGED <<contract, registered, settings, ensure, sources>>

EditSettings(t, s) ==
  /\ settings' = [settings EXCEPT ![t] = s]
  /\ UNCHANGED <<contract, registered, script, ensure, sources>>

Next ==
  \/ \E f \in Files :
       \/ \E exempt, headless \in BOOLEAN : WriteSource(f, exempt, headless)
       \/ WriteTest(f) \/ DeleteFile(f)
  \/ \E targets \in SUBSET Target \ {{}} : \E given \in {{}} \cup {{p} : p \in Presets} :
       BeginEnsure(targets, given)
  \/ RunSelfTest \/ InstallHookScript \/ RegisterHook \/ RecordRegistration \/ StopEnsure
  \/ \E c \in {None, Broken} \cup Contracts : EditContract(c)
  \/ \E t \in Target : RemoveScript(t) \/ \E s \in {"plain", "broken"} : EditSettings(t, s)

Spec == Init /\ [][Next]_vars

-----------------------------------------------------------------------------
(* Properties.                                                              *)

\* The files that ask for a test first: those of the contract once its hook is
\* there, else those that the plugin knows.
Scope ==
  {f \in Files : IF "cc" \in script /\ contract # None
                 THEN contract # Broken /\ ShouldEnforce(contract, f)
                 ELSE CentralScope(f)}

\* Wherever an ensure was stopped and whatever became of the hook, its settings and
\* its contract since, one of the hooks that run refuses a file in scope that has
\* no test: the two never leave it to each other.
TestFirst ==
  [][\A f \in written' \ written :
       f \in Scope => f \in tests \cup exempted']_vars

\* A target is marked as registered for a contract that denies what has no test
\* and lets the test be written, codex only after cc.
RegisteredTested ==
  [][\A t \in registered' \ registered :
       /\ contract' \notin {None, Broken}
       /\ \E f \in [ext : Range(contract'.exts), root : Range(contract'.roots)] :
            ShouldEnforce(contract', f) /\ ~TestEnforced(contract', f)
       /\ t = "codex" => "cc" \in registered']_vars
=============================================================================

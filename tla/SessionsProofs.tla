---------------------------- MODULE SessionsProofs ---------------------------
(***************************************************************************)
(* Proofs about Sessions, for any sessions, processes and runs: a command  *)
(* that finds its Claude process works in the session that process runs,   *)
(* and so writes to no other session's runs.  Process files of dead        *)
(* processes, killed commands and scans that find other sessions do not    *)
(* matter; a session that outlives the collection of its own process file  *)
(* does, and Sleeps excludes it.                                           *)
(***************************************************************************)
EXTENDS Sessions, WellFoundedInduction, TLAPS

Types ==
  /\ proc \in [Pids -> Sessions \cup {None}]
  /\ hook \in [Pids -> {"idle", "pid", "live", "pids", "slots", "dirs"}]
  /\ cmd \in [Pids -> Cmd \cup {None}]
  /\ bypid \in [Pids -> PidFile \cup {None}]
  /\ byrun \in [Pids -> RunFile \cup {None}]
  /\ slot \in [Runs -> Slot \cup {None}]
  /\ begun \in 0..MaxRuns

\* Hooks and commands run in Claude processes, not both at once.
Placed ==
  \A p \in Pids :
    /\ cmd[p] # None => proc[p] # None /\ hook[p] = "idle"
    /\ hook[p] # "idle" => proc[p] # None

\* From its SessionStart on, a Claude process has a young file with its session.
Registered ==
  \A p \in Pids :
    proc[p] # None /\ hook[p] # "pid" =>
      bypid[p] # None /\ bypid[p].sid = proc[p] /\ bypid[p].age = 0

\* A command that found its Claude process found its session; one that is about
\* to write down a run has one.
InSession ==
  \A p \in Pids :
    cmd[p] # None =>
      /\ cmd[p].chain # None => cmd[p].chain = p /\ cmd[p].sid = proc[p]
      /\ cmd[p].at = "pid" => cmd[p].rid \in Runs

SessionsInv == Types /\ Placed /\ Registered /\ InSession

-----------------------------------------------------------------------------
\* The latest of some runs is one of them.
LEMMA LatestIsOne == ASSUME NEW R, R \subseteq Runs, R # {} PROVE LatestOf(R) \in R
<1>. DEFINE T == {MaxRuns - r : r \in R}
<1>1. T \subseteq Nat /\ T # {}
  <2>1. \A r \in R : r \in 1..MaxRuns
    BY DEF Runs
  <2>2. \A r \in R : MaxRuns - r \in Nat
    BY <2>1, SessionConstants
  <2>. QED
    BY <2>2
<1>2. PICK t \in T : \A u \in T : ~(<<u, t>> \in OpToRel(<, Nat))
  BY <1>1, NatLessThanWellFounded, WFMin
<1>3. PICK r \in R : t = MaxRuns - r
  OBVIOUS
<1>4. \A q \in R : q <= r
  <2>1. TAKE q \in R
  <2>2. MaxRuns - q \in T
    OBVIOUS
  <2>3. ~(<<MaxRuns - q, t>> \in OpToRel(<, Nat))
    BY <1>2, <2>2
  <2>4. ~(MaxRuns - q < t)
    BY <1>1, <2>2, <2>3 DEF OpToRel
  <2>. QED
    BY <1>3, <2>4, SessionConstants, q \in 1..MaxRuns, r \in 1..MaxRuns DEF Runs
<1>. QED
  BY <1>3, <1>4 DEF LatestOf

LEMMA LatestTyped ==
  ASSUME NEW R, R \subseteq Runs PROVE LatestOf(R) \in R \cup {None}
BY LatestIsOne DEF LatestOf

\* A scan returns a run that has a slot, or none.
LEMMA ScanTyped ==
  ASSUME NEW s PROVE ScanSession(s) = None \/ (ScanSession(s) \in Runs /\ Own(s, ScanSession(s)))
<1>. DEFINE R == {r \in Runs : Own(s, r) /\ IsOpen(r)}
<1>1. LatestOf(R) \in R \cup {None}
  BY LatestTyped
<1>. QED
  BY <1>1 DEF ScanSession

LEMMA ScanAllTyped == ScanAll = None \/ (ScanAll \in Runs /\ slot[ScanAll] # None)
<1>. DEFINE n == IF Len(recent) < MaxScan THEN Len(recent) ELSE MaxScan
            seen == {recent[i] : i \in 1..n}
            R == {ScanSession(s) : s \in seen} \ {None}
<1>1. \A r \in R : r \in Runs /\ slot[r] # None
  BY ScanTyped DEF Own
<1>2. LatestOf(R) \in R \cup {None}
  BY <1>1, LatestTyped
<1>3. ScanAll = LatestOf(R)
  BY DEF ScanAll
<1>. QED
  BY <1>1, <1>2, <1>3

\* What a command resolves is a session, and a run or none.
LEMMA ResolvedTyped ==
  ASSUME Types, NEW p \in Pids, NEW chain \in {p, None}, NEW env \in {None, proc[p]},
         DetectSession(env, chain) # None
  PROVE  /\ DetectSession(env, chain) \in Sessions
         /\ DetectRun(env, chain) \in Runs \cup {None}
<1>1. DetectSession(env, chain) \in Sessions
  <2>1. env # None => env \in Sessions
    BY DEF Types
  <2>2. PidSession(chain) # None => PidSession(chain) \in Sessions
    BY DEF PidSession, Types, PidFile
  <2>3. ScanAll # None => slot[ScanAll].sid \in Sessions
    BY ScanAllTyped DEF Types, Slot
  <2>. QED
    BY <2>1, <2>2, <2>3 DEF DetectSession
<1>2. PidRun(chain) \in Runs \cup {None}
  BY DEF PidRun, Types, RunFile
<1>3. ScanAll \in Runs \cup {None}
  BY ScanAllTyped
<1>4. ScanSession(PidSession(chain)) \in Runs \cup {None} /\ ScanSession(env) \in Runs \cup {None}
  BY ScanTyped
<1>. QED
  BY <1>1, <1>2, <1>3, <1>4 DEF DetectRun

-----------------------------------------------------------------------------
\* The invariant holds initially.
LEMMA SessionsInit == Init => SessionsInv
BY SessionConstants DEF Init, SessionsInv, Types, Placed, Registered, InSession

\* A command of process p starts: it finds the session of p, if it finds p.
LEMMA StartKeeps ==
  ASSUME SessionsInv, NEW p \in Pids, NEW op \in {"begin", "next", "end", "step"},
         NEW chain \in Chains(p), NEW env \in {None, proc[p]}, Start(p, op, chain, env)
  PROVE  SessionsInv'
<1>. DEFINE sid == DetectSession(env, chain)
            rid == DetectRun(env, chain)
            at == IF op = "begin" \/ (op = "next" /\ rid = None) THEN "begin" ELSE "go"
            c == [op |-> op, chain |-> chain, sid |-> sid, rid |-> rid, at |-> at]
<1>. USE DEF SessionsInv
<1>1. /\ Ready(p) /\ sid # None
      /\ cmd' = [cmd EXCEPT ![p] = c]
      /\ UNCHANGED <<proc, hook, bypid, byrun, slot, dir, begun, recent>>
  BY DEF Start, files, runs
<1>2. chain \in {p, None}
  BY DEF Chains
<1>3. sid \in Sessions /\ rid \in Runs \cup {None}
  BY <1>1, <1>2, ResolvedTyped
<1>4. c \in Cmd
  BY <1>2, <1>3 DEF Cmd
<1>5. chain # None => sid = proc[p]
  <2>1. SUFFICES ASSUME chain = p PROVE sid = proc[p]
    BY <1>2
  <2>2. bypid[p] # None /\ bypid[p].sid = proc[p] /\ proc[p] # None
    BY <1>1 DEF Registered, Ready
  <2>. QED
    BY <2>1, <2>2, SessionConstants DEF DetectSession, PidSession
<1>6. Types'
  BY <1>1, <1>4 DEF Types
<1>7. Placed'
  BY <1>1 DEF Placed, Ready, Types
<1>8. Registered'
  BY <1>1 DEF Registered
<1>9. InSession'
  BY <1>1, <1>2, <1>5 DEF InSession, Types
<1>. QED
  BY <1>6, <1>7, <1>8, <1>9

\* A command goes on or ends: it stays the command of its process and session.
LEMMA CommandKeeps ==
  ASSUME SessionsInv, NEW p \in Pids, cmd[p] # None,
         NEW c \in Cmd \cup {None}, cmd' = [cmd EXCEPT ![p] = c],
         c # None => c.chain = cmd[p].chain /\ c.sid = cmd[p].sid,
         c # None /\ c.at = "pid" => c.rid \in Runs,
         UNCHANGED <<proc, hook, bypid>>,
         byrun' \in [Pids -> RunFile \cup {None}], slot' \in [Runs -> Slot \cup {None}],
         begun' \in 0..MaxRuns
  PROVE  SessionsInv'
<1>. USE DEF SessionsInv
<1>1. Types'
  BY DEF Types
<1>2. Placed'
  BY DEF Placed, Types
<1>3. Registered'
  BY DEF Registered
<1>4. InSession'
  BY DEF InSession, Types
<1>. QED
  BY <1>1, <1>2, <1>3, <1>4

\* The steps of a command, and what they write.
LEMMA CommandStep ==
  ASSUME SessionsInv, NEW p \in Pids,
         Work(p) \/ Complete(p) \/ Clear(p) \/ Begin(p) \/ NoMoreRuns(p) \/ WritePid(p)
           \/ KillCommand(p)
  PROVE  /\ SessionsInv'
         /\ \A q \in Pids : q # p => cmd'[q] = cmd[q]
         /\ \A r \in Runs : slot'[r] # slot[r] => slot'[r].sid = cmd[p].sid
<1>. DEFINE c == cmd[p]
<1>. USE SessionConstants DEF SessionsInv
<1>1. c # None /\ c \in Cmd /\ cmd \in [Pids -> Cmd \cup {None}]
  BY DEF Types, At, Work, Complete, Clear, Begin, NoMoreRuns, WritePid, KillCommand
<1>2. \A at \in {"clear", "begin"} :
        LET d == [c EXCEPT !.at = at]
        IN  d \in Cmd /\ d.chain = c.chain /\ d.sid = c.sid /\ d.at # "pid"
  BY <1>1 DEF Cmd
<1>2a. \A r \in Runs :
        LET d == [c EXCEPT !.at = "pid", !.rid = r]
        IN  d \in Cmd /\ d.chain = c.chain /\ d.sid = c.sid /\ d.rid = r
  BY <1>1 DEF Cmd
<1>3. byrun \in [Pids -> RunFile \cup {None}] /\ slot \in [Runs -> Slot \cup {None}]
      /\ begun \in 0..MaxRuns
  BY DEF Types
<1>4. CASE Work(p)
  <2>1. cmd' = [cmd EXCEPT ![p] = None] /\ UNCHANGED <<proc, hook, bypid, byrun, begun>>
    BY <1>4 DEF Work, Finish, files
  <2>2. /\ slot' \in [Runs -> Slot \cup {None}]
        /\ \A r \in Runs : slot'[r] # slot[r] => slot'[r].sid = c.sid
    BY <1>1, <1>3, <1>4 DEF Work, Write, Own, Slot, Ages
  <2>3. SessionsInv'
    BY <1>1, <1>3, <2>1, <2>2, CommandKeeps
  <2>. QED
    BY <1>1, <2>1, <2>2, <2>3
<1>5. CASE Complete(p)
  <2>1. /\ cmd' = [cmd EXCEPT ![p] = [c EXCEPT !.at = "clear"]]
        /\ UNCHANGED <<proc, hook, bypid, byrun, begun>>
    BY <1>5 DEF Complete, Advance, files
  <2>2. /\ slot' \in [Runs -> Slot \cup {None}]
        /\ \A r \in Runs : slot'[r] # slot[r] => slot'[r].sid = c.sid
    <3>1. CASE Own(c.sid, c.rid) /\ IsOpen(c.rid)
      <4>. DEFINE new == [sid |-> c.sid, open |-> FALSE, age |-> 0]
      <4>1. slot' = [slot EXCEPT ![c.rid] = new]
        BY <1>5, <3>1 DEF Complete, Write
      <4>2. new \in Slot
        BY <1>1 DEF Cmd, Slot, Ages
      <4>. QED
        BY <1>3, <4>1, <4>2
    <3>2. CASE ~(Own(c.sid, c.rid) /\ IsOpen(c.rid))
      BY <1>3, <1>5, <3>2 DEF Complete
    <3>. QED
      BY <3>1, <3>2
  <2>3. SessionsInv'
    BY <1>1, <1>2, <1>3, <2>1, <2>2, CommandKeeps
  <2>. QED
    BY <1>1, <2>1, <2>2, <2>3
<1>6. CASE Clear(p)
  <2>1. /\ \/ cmd' = [cmd EXCEPT ![p] = None]
           \/ cmd' = [cmd EXCEPT ![p] = [c EXCEPT !.at = "begin"]]
        /\ UNCHANGED <<proc, hook, bypid, slot, begun>>
    BY <1>6 DEF Clear, Advance, Finish, runs
  <2>2. byrun' \in [Pids -> RunFile \cup {None}]
    BY <1>3, <1>6 DEF Clear
  <2>3. SessionsInv'
    BY <1>1, <1>2, <1>3, <2>1, <2>2, CommandKeeps
  <2>. QED
    BY <1>1, <2>1, <2>3
<1>7. CASE Begin(p)
  <2>. DEFINE r == begun + 1
  <2>1. /\ cmd' = [cmd EXCEPT ![p] = [c EXCEPT !.at = "pid", !.rid = r]]
        /\ UNCHANGED <<proc, hook, bypid, byrun>>
        /\ begun' = r /\ begun < MaxRuns
        /\ slot' = [slot EXCEPT ![r] = [sid |-> c.sid, open |-> TRUE, age |-> 0]]
    BY <1>1, <1>7 DEF Begin, Write, files
  <2>2. r \in Runs /\ begun' \in 0..MaxRuns
    BY <1>3, <2>1 DEF Runs
  <2>3. [sid |-> c.sid, open |-> TRUE, age |-> 0] \in Slot
    BY <1>1 DEF Cmd, Slot, Ages
  <2>4. /\ slot' \in [Runs -> Slot \cup {None}]
        /\ \A q \in Runs : slot'[q] # slot[q] => slot'[q].sid = c.sid
    BY <1>3, <2>1, <2>3
  <2>5. SessionsInv'
    BY <1>1, <1>2a, <1>3, <2>1, <2>2, <2>4, CommandKeeps
  <2>. QED
    BY <1>1, <2>1, <2>4, <2>5
<1>8. CASE NoMoreRuns(p) \/ KillCommand(p)
  <2>1. /\ cmd' = [cmd EXCEPT ![p] = None]
        /\ UNCHANGED <<proc, hook, bypid, byrun, slot, begun>>
    BY <1>8 DEF NoMoreRuns, KillCommand, Finish, files, runs
  <2>2. SessionsInv'
    BY <1>1, <1>3, <2>1, CommandKeeps
  <2>. QED
    BY <1>1, <2>1, <2>2
<1>9. CASE WritePid(p)
  <2>1. /\ cmd' = [cmd EXCEPT ![p] = None]
        /\ UNCHANGED <<proc, hook, bypid, slot, begun>>
    BY <1>9 DEF WritePid, Finish, runs
  <2>2. byrun' \in [Pids -> RunFile \cup {None}]
    <3>1. [rid |-> c.rid, age |-> 0] \in RunFile
      BY <1>1, <1>9 DEF WritePid, RunFile, Ages, At, InSession
    <3>. QED
      BY <1>3, <1>9, <3>1 DEF WritePid
  <2>3. SessionsInv'
    BY <1>1, <1>3, <2>1, <2>2, CommandKeeps
  <2>. QED
    BY <1>1, <2>1, <2>3
<1>. QED
  BY <1>4, <1>5, <1>6, <1>7, <1>8, <1>9

-----------------------------------------------------------------------------
\* The steps of SessionStart hooks.
LEMMA HookKeeps ==
  ASSUME SessionsInv, NEW p \in Pids, SessionStart(p)
  PROVE  SessionsInv'
<1>. USE SessionConstants DEF SessionsInv
<1>1. hook[p] # "idle" /\ proc[p] # None /\ cmd[p] = None
  BY DEF SessionStart, Hook, HookWritesPid, HookInitsLive, HookCleansPids, HookCleansSlots,
         HookCleansDirs, Placed
<1>2. CASE HookWritesPid(p)
  <2>1. [sid |-> proc[p], age |-> 0] \in PidFile
    BY <1>1 DEF Types, PidFile, Ages
  <2>. QED
    BY <1>1, <1>2, <2>1 DEF HookWritesPid, Hook, runs, Types, Placed, Registered, InSession
<1>3. CASE HookInitsLive(p)
  BY <1>1, <1>3 DEF HookInitsLive, Hook, files, Types, Placed, Registered, InSession
<1>4. CASE HookCleansPids(p)
  BY <1>1, <1>4 DEF HookCleansPids, Hook, runs, Types, Placed, Registered, InSession
<1>5. CASE HookCleansSlots(p)
  BY <1>1, <1>5 DEF HookCleansSlots, Hook, files, Types, Placed, Registered, InSession
<1>6. CASE HookCleansDirs(p)
  BY <1>1, <1>6 DEF HookCleansDirs, Hook, files, Types, Placed, Registered, InSession
<1>. QED
  BY <1>2, <1>3, <1>4, <1>5, <1>6 DEF SessionStart

\* Sessions begin and end, and time passes while none is open.
LEMMA OthersKeep ==
  ASSUME SessionsInv, ~Sleeps,
         \/ \E p \in Pids : Exit(p) \/ \E s \in Sessions : Launch(p, s)
         \/ \E n \in {1, 2} : LongPause(n)
  PROVE  SessionsInv'
<1>. USE SessionConstants DEF SessionsInv
<1>1. ASSUME NEW p \in Pids, Exit(p) PROVE SessionsInv'
  BY <1>1 DEF Exit, files, runs, Types, Placed, Registered, InSession
<1>2. ASSUME NEW p \in Pids, NEW s \in Sessions, Launch(p, s) PROVE SessionsInv'
  BY <1>2 DEF Launch, files, runs, Types, Placed, Registered, InSession
<1>3. ASSUME NEW n \in {1, 2}, LongPause(n) PROVE SessionsInv'
  <2>1. \A a \in Ages : Older(n, a) \in Ages
    BY <1>3 DEF Older, Ages
  <2>2. bypid' \in [Pids -> PidFile \cup {None}]
    BY <1>3, <2>1 DEF LongPause, Types, PidFile
  <2>3. byrun' \in [Pids -> RunFile \cup {None}]
    BY <1>3, <2>1 DEF LongPause, Types, RunFile
  <2>4. slot' \in [Runs -> Slot \cup {None}]
    BY <1>3, <2>1 DEF LongPause, Types, Slot
  <2>. QED
    BY <1>3, <2>2, <2>3, <2>4 DEF LongPause, Types, Placed, Registered, InSession
<1>. QED
  BY <1>1, <1>2, <1>3

\* Every step keeps the invariant, and a command writes in its own session.
LEMMA SessionsStep ==
  ASSUME SessionsInv, ~Sleeps, [Next]_vars
  PROVE  /\ SessionsInv'
         /\ \A p \in Pids, r \in Runs :
              cmd[p] # None /\ cmd'[p] # cmd[p] /\ cmd[p].chain # None /\ slot'[r] # slot[r]
                => slot'[r].sid = proc[p]
<1>. DEFINE Own1 == \A p \in Pids, r \in Runs :
              cmd[p] # None /\ cmd'[p] # cmd[p] /\ cmd[p].chain # None /\ slot'[r] # slot[r]
                => slot'[r].sid = proc[p]
<1>1. CASE UNCHANGED vars
  BY <1>1 DEF vars, files, runs, SessionsInv, Types, Placed, Registered, InSession
<1>2. ASSUME NEW p \in Pids, NEW op \in {"begin", "next", "end", "step"},
             NEW chain \in Chains(p), NEW env \in {None, proc[p]}, Start(p, op, chain, env)
      PROVE  SessionsInv' /\ Own1
  BY <1>2, StartKeeps DEF Start, runs
<1>3. ASSUME NEW p \in Pids,
             Work(p) \/ Complete(p) \/ Clear(p) \/ Begin(p) \/ NoMoreRuns(p) \/ WritePid(p)
               \/ KillCommand(p)
      PROVE  SessionsInv' /\ Own1
  BY <1>3, CommandStep DEF SessionsInv, InSession
<1>4. ASSUME NEW p \in Pids, SessionStart(p) PROVE SessionsInv' /\ Own1
  <2>1. UNCHANGED cmd
    BY <1>4 DEF SessionStart, HookWritesPid, HookInitsLive, HookCleansPids, HookCleansSlots,
                HookCleansDirs
  <2>. QED
    BY <1>4, <2>1, HookKeeps
<1>5. ASSUME \/ \E p \in Pids : Exit(p) \/ \E s \in Sessions : Launch(p, s)
             \/ \E n \in {1, 2} : LongPause(n)
      PROVE  SessionsInv' /\ Own1
  <2>1. UNCHANGED cmd
    BY <1>5 DEF Exit, Launch, LongPause
  <2>. QED
    BY <1>5, <2>1, OthersKeep
<1>. QED
  BY <1>1, <1>2, <1>3, <1>4, <1>5 DEF Next, Command

\* While no session outlives the collection of its process file: a command that
\* finds its Claude process writes to no run of another session, for any sessions,
\* processes and runs, and whatever dead sessions have left (session_state.py,
\* auto_detect_session_id and the transitions).
THEOREM OwnRuns == ASSUME ~Sleeps PROVE Spec => OwnRunsOnly
<1>1. Init => SessionsInv
  BY SessionsInit
<1>2. SessionsInv /\ [Next]_vars => SessionsInv'
  BY SessionsStep
<1>3. SessionsInv /\ [Next]_vars =>
        [\A p \in Pids, r \in Runs :
           cmd[p] # None /\ cmd'[p] # cmd[p] /\ cmd[p].chain # None /\ slot'[r] # slot[r]
             => slot'[r].sid = proc[p]]_vars
  BY SessionsStep
<1>. QED
  BY <1>1, <1>2, <1>3, PTL DEF Spec, OwnRunsOnly

-----------------------------------------------------------------------------
\* Directories.  A run's directory is as old as its slot, or it has been collected
\* when both were too old, and no one has written to the run since.
SameAge ==
  /\ dir \in [Runs -> Ages \cup {None}]
  /\ \A r \in Runs :
       slot[r] # None => dir[r] = slot[r].age \/ (dir[r] = None /\ slot[r].age = 2)

\* A session that has dropped its old slots has young ones only.
YoungSlots ==
  \A p \in Pids, r \in Runs :
    /\ slot[r] # None /\ proc[p] = slot[r].sid /\ hook[p] \in {"dirs", "idle"}
    => slot[r].age = 0

DirsInv == SameAge /\ YoungSlots

\* A step that writes no slot or directory, and brings no session past the
\* collection of its slots.
LEMMA DirsFrame ==
  ASSUME DirsInv, UNCHANGED <<slot, dir>>,
         \A p \in Pids : proc'[p] \in Sessions /\ hook'[p] \in {"dirs", "idle"} =>
                           proc'[p] = proc[p] /\ hook[p] \in {"dirs", "idle"},
         SessionsInv
  PROVE  DirsInv'
BY DEF DirsInv, SameAge, YoungSlots, SessionsInv, Types, Slot

\* A write to one run makes its slot and its directory young.
LEMMA DirsWrite ==
  ASSUME SessionsInv, DirsInv, UNCHANGED <<proc, hook>>, NEW r \in Runs, NEW new \in Slot,
         new.age = 0, slot' = [slot EXCEPT ![r] = new], dir' = [dir EXCEPT ![r] = 0]
  PROVE  DirsInv'
<1>. USE SessionConstants DEF DirsInv, SessionsInv, Types
<1>1. SameAge'
  BY DEF SameAge, Ages
<1>2. YoungSlots'
  BY DEF YoungSlots
<1>. QED
  BY <1>1, <1>2

LEMMA DirsStep ==
  ASSUME SessionsInv, DirsInv, ~Sleeps, [Next]_vars
  PROVE  DirsInv'
<1>. USE SessionConstants
<1>t. slot \in [Runs -> Slot \cup {None}] /\ cmd \in [Pids -> Cmd \cup {None}]
      /\ hook \in [Pids -> {"idle", "pid", "live", "pids", "slots", "dirs"}]
      /\ proc \in [Pids -> Sessions \cup {None}] /\ begun \in 0..MaxRuns
  BY DEF SessionsInv, Types
<1>1. ASSUME NEW p \in Pids, NEW op \in {"begin", "next", "end", "step"},
             NEW chain \in Chains(p), NEW env \in {None, proc[p]}, Start(p, op, chain, env)
      PROVE  DirsInv'
  BY <1>1, DirsFrame DEF Start, runs
<1>2. ASSUME NEW p \in Pids, Work(p) PROVE DirsInv'
  <2>1. CASE Own(cmd[p].sid, cmd[p].rid) /\ cmd[p].rid \in Runs
    <3>. DEFINE new == [slot[cmd[p].rid] EXCEPT !.age = 0]
    <3>2. new \in Slot /\ new.age = 0
      BY <1>t, <2>1 DEF Own, Slot, Ages
    <3>. QED
      BY <1>2, <2>1, <3>2, DirsWrite DEF Work, Write
  <2>2. CASE ~Own(cmd[p].sid, cmd[p].rid) \/ cmd[p].rid \notin Runs
    <3>1. UNCHANGED <<slot, dir>>
      BY <1>2, <1>t, <2>2 DEF Work, Write, DirsInv, SameAge
    <3>. QED
      BY <1>2, <3>1, DirsFrame DEF Work
  <2>. QED
    BY <2>1, <2>2
<1>3. ASSUME NEW p \in Pids, Complete(p) PROVE DirsInv'
  <2>1. CASE Own(cmd[p].sid, cmd[p].rid) /\ IsOpen(cmd[p].rid) /\ cmd[p].rid \in Runs
    <3>. DEFINE new == [sid |-> cmd[p].sid, open |-> FALSE, age |-> 0]
    <3>1. new \in Slot /\ new.age = 0
      BY <1>3, <1>t DEF Complete, At, Cmd, Slot, Ages
    <3>. QED
      BY <1>3, <2>1, <3>1, DirsWrite DEF Complete, Write
  <2>2. CASE ~(Own(cmd[p].sid, cmd[p].rid) /\ IsOpen(cmd[p].rid)) \/ cmd[p].rid \notin Runs
    <3>1. UNCHANGED <<slot, dir>>
      BY <1>3, <1>t, <2>2 DEF Complete, Write, DirsInv, SameAge
    <3>. QED
      BY <1>3, <3>1, DirsFrame DEF Complete
  <2>. QED
    BY <2>1, <2>2
<1>4. ASSUME NEW p \in Pids, Begin(p) PROVE DirsInv'
  <2>. DEFINE new == [sid |-> cmd[p].sid, open |-> TRUE, age |-> 0]
  <2>1. begun + 1 \in Runs
    BY <1>4, <1>t DEF Begin, Runs
  <2>2. new \in Slot /\ new.age = 0
    BY <1>4, <1>t DEF Begin, At, Cmd, Slot, Ages
  <2>. QED
    BY <1>4, <2>1, <2>2, DirsWrite DEF Begin, Write
<1>5. ASSUME NEW p \in Pids, Clear(p) \/ NoMoreRuns(p) \/ WritePid(p) \/ KillCommand(p)
      PROVE  DirsInv'
  BY <1>5, DirsFrame DEF Clear, NoMoreRuns, WritePid, KillCommand, runs
<1>6. ASSUME NEW p \in Pids, HookWritesPid(p) \/ HookInitsLive(p) \/ HookCleansPids(p)
      PROVE  DirsInv'
  BY <1>6, <1>t, DirsFrame DEF HookWritesPid, HookInitsLive, HookCleansPids, Hook, runs
<1>7. ASSUME NEW p \in Pids, HookCleansSlots(p) PROVE DirsInv'
  <2>1. SameAge'
    BY <1>7, <1>t DEF HookCleansSlots, DirsInv, SameAge
  <2>2. ASSUME NEW q \in Pids, NEW r \in Runs,
               slot'[r] # None, proc'[q] = slot'[r].sid, hook'[q] \in {"dirs", "idle"}
        PROVE  slot'[r].age = 0
    <3>1. slot'[r] = slot[r] /\ slot[r] \in Slot /\ proc'[q] = proc[q]
          /\ ~(slot[r].sid = proc[p] /\ slot[r].age > 0)
      BY <1>7, <1>t, <2>2 DEF HookCleansSlots, StaleRun, Own
    <3>2. CASE q = p
      BY <2>2, <3>1, <3>2 DEF Slot, Ages
    <3>3. CASE q # p
      BY <1>7, <1>t, <2>2, <3>1, <3>3 DEF HookCleansSlots, Hook, DirsInv, YoungSlots
    <3>. QED
      BY <3>2, <3>3
  <2>. QED
    BY <2>1, <2>2 DEF DirsInv, YoungSlots
<1>8. ASSUME NEW p \in Pids, HookCleansDirs(p) PROVE DirsInv'
  <2>1. SameAge'
    BY <1>8, <1>t DEF HookCleansDirs, Expired, DirsInv, SameAge, Slot, Ages
  <2>2. YoungSlots'
    BY <1>8, <1>t DEF HookCleansDirs, Hook, DirsInv, YoungSlots
  <2>. QED
    BY <2>1, <2>2 DEF DirsInv
<1>9. ASSUME NEW p \in Pids, Exit(p) \/ \E s \in Sessions : Launch(p, s) PROVE DirsInv'
  BY <1>9, <1>t, DirsFrame DEF Exit, Launch, runs
<1>10. ASSUME NEW n \in {1, 2}, LongPause(n) PROVE DirsInv'
  <2>1. \A q \in Pids : proc'[q] = None
    BY <1>10 DEF LongPause
  <2>2. \A a \in Ages : Older(n, a) \in Ages /\ Older(n, 2) = 2
    BY <1>10 DEF Older, Ages
  <2>3. SameAge'
    BY <1>10, <1>t, <2>2 DEF LongPause, DirsInv, SameAge, Slot
  <2>4. \A r \in Runs : slot'[r] # None => slot'[r].sid \in Sessions
    BY <1>10, <1>t DEF LongPause, Slot
  <2>5. YoungSlots'
    BY <2>1, <2>4 DEF YoungSlots
  <2>. QED
    BY <2>3, <2>5 DEF DirsInv
<1>11. CASE UNCHANGED vars
  BY <1>11, DirsFrame DEF vars, runs
<1>. QED
  BY <1>1, <1>2, <1>3, <1>4, <1>5, <1>6, <1>7, <1>8, <1>9, <1>10, <1>11
  DEF Next, Command, SessionStart

\* The directory of a run that a started session shows as open is never collected:
\* the slot goes first, by cleanup in the session's own SessionStart, and every
\* write to a run makes directory and slot young again.
THEOREM OpenRunsAreKept == ASSUME ~Sleeps PROVE Spec => []OpenRunKept
<1>1. Init => SessionsInv /\ DirsInv
  BY SessionsInit DEF Init, DirsInv, SameAge, YoungSlots
<1>2. SessionsInv /\ DirsInv /\ [Next]_vars => SessionsInv' /\ DirsInv'
  BY SessionsStep, DirsStep
<1>3. SessionsInv /\ DirsInv => OpenRunKept
  BY SessionConstants DEF SessionsInv, Types, Slot, Ages, DirsInv, SameAge, YoungSlots,
     OpenRunKept, IsOpen
<1>. QED
  BY <1>1, <1>2, <1>3, PTL DEF Spec
==============================================================================

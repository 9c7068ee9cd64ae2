------------------------------- MODULE Sessions ------------------------------
(***************************************************************************)
(* Which session and which run a command belongs to, when several Claude   *)
(* Code sessions come and go in one project (harness/session_state.py,     *)
(* session_state_cli.py, handle_session_start of hooks.py).                *)
(*                                                                         *)
(* A helper command is a process of its own.  It finds the Claude process  *)
(* that called it by its parents (the chain) and looks in two files named  *)
(* by that process: .by-pid holds the session, .by-pid-current-run the     *)
(* run.  Where either is missing it scans the live.json files for the      *)
(* latest open run.  Session starts write the first file and collect       *)
(* garbage: process files and run slots after a day, run directories after *)
(* a week.                                                                 *)
(*                                                                         *)
(* Runs are numbered in the order in which they are begun.  An age is 0    *)
(* (within a day), 1 (within a week) or 2.                                  *)
(***************************************************************************)
EXTENDS Integers, FiniteSets, Sequences, SequencesExt

CONSTANTS
  None,
  Sessions, Pids,
  MaxRuns,       \* bound: runs begun in all
  MaxScan,       \* max_sessions of _scan_recent_active_run_slot
  ChainFails,    \* a command may not find its Claude process
  Sleeps         \* a session may stay open over a long pause

Runs == 1..MaxRuns
Ages == 0..2
Slot == [sid : Sessions, open : BOOLEAN, age : Ages]
Cmd == [op : {"begin", "next", "end", "step"}, at : {"go", "clear", "begin", "pid"},
        chain : Pids \cup {None}, sid : Sessions, rid : Runs \cup {None}]
PidFile == [sid : Sessions, age : Ages]
RunFile == [rid : Runs, age : Ages]

ASSUME SessionConstants ==
  /\ None \notin Sessions /\ None \notin Pids
  /\ MaxRuns \in Nat /\ MaxScan \in Nat \ {0}
  /\ ChainFails \in BOOLEAN /\ Sleeps \in BOOLEAN
  /\ None \notin Runs /\ None \notin Ages /\ None \notin Slot /\ None \notin Cmd
  /\ None \notin PidFile /\ None \notin RunFile

VARIABLES
  proc,      \* proc[p]: the session that Claude process p runs, or None
  hook,      \* hook[p]: where its SessionStart hook is, or "idle"
  cmd,       \* cmd[p]: its command in progress, or None
  bypid,     \* bypid[p]: .by-pid/p, or None
  byrun,     \* byrun[p]: .by-pid-current-run/p, or None
  slot,      \* slot[r]: the run's slot in its session's live.json, or None
  dir,       \* dir[r]: the age of the run's directory, or None
  begun,     \* the number of runs begun
  recent     \* the sessions that have a live.json, the last written first

files == <<bypid, byrun>>
runs == <<slot, dir, begun, recent>>
vars == <<proc, hook, cmd, files, runs>>

\* Files, slots and processes stay within their types.
TypeOK ==
  /\ proc \in [Pids -> Sessions \cup {None}]
  /\ hook \in [Pids -> {"idle", "pid", "live", "pids", "slots", "dirs"}]
  /\ cmd \in [Pids -> Cmd \cup {None}]
  /\ bypid \in [Pids -> PidFile \cup {None}]
  /\ byrun \in [Pids -> RunFile \cup {None}]
  /\ slot \in [Runs -> Slot \cup {None}]
  /\ dir \in [Runs -> Ages \cup {None}]
  /\ begun \in 0..MaxRuns
  /\ IsInjective(recent) /\ ToSet(recent) \subseteq Sessions

Init ==
  /\ proc = [p \in Pids |-> None] /\ hook = [p \in Pids |-> "idle"]
  /\ cmd = [p \in Pids |-> None]
  /\ bypid = [p \in Pids |-> None] /\ byrun = [p \in Pids |-> None]
  /\ slot = [r \in Runs |-> None] /\ dir = [r \in Runs |-> None]
  /\ begun = 0 /\ recent = <<>>

Older(n, age) == IF age < n THEN n ELSE age
Own(s, r) == slot[r] # None /\ slot[r].sid = s
Written(s) == <<s>> \o SelectSeq(recent, LAMBDA other : other # s)

-----------------------------------------------------------------------------
\* Resolution

\* _is_open_active_run_slot
IsOpen(r) == slot[r] # None /\ slot[r].open

LatestOf(R) == IF R = {} THEN None ELSE CHOOSE r \in R : \A q \in R : q <= r

\* _scan_live_file_for_active_run: the open run of this session begun last.
ScanSession(s) == LatestOf({r \in Runs : Own(s, r) /\ IsOpen(r)})

\* _scan_recent_active_run_slot: of the live.json files written last.
ScanAll ==
  LET seen == {recent[i] : i \in 1..IF Len(recent) < MaxScan THEN Len(recent) ELSE MaxScan}
  IN  LatestOf({ScanSession(s) : s \in seen} \ {None})

\* read_pid_session, read_pid_current_run
PidSession(p) == IF p = None \/ bypid[p] = None THEN None ELSE bypid[p].sid
PidRun(p) == IF p = None \/ byrun[p] = None THEN None ELSE byrun[p].rid

\* Mutant of DetectSession: the scan comes before the process files.
DetectSessionScan(env, p) ==
  IF env # None THEN env
  ELSE IF ScanAll # None THEN slot[ScanAll].sid ELSE PidSession(p)

\* auto_detect_session_id; env is DCNESS_SESSION_ID.
DetectSession(env, p) ==
  IF env # None THEN env
  ELSE IF PidSession(p) # None THEN PidSession(p)
  ELSE IF ScanAll # None THEN slot[ScanAll].sid ELSE None

\* auto_detect_run_id, without DCNESS_RUN_ID
DetectRun(env, p) ==
  LET inSession(s) == IF s = None THEN None ELSE ScanSession(s)
  IN  IF PidRun(p) # None THEN PidRun(p)
      ELSE IF inSession(PidSession(p)) # None THEN inSession(PidSession(p))
      ELSE IF inSession(env) # None THEN inSession(env)
      ELSE ScanAll

-----------------------------------------------------------------------------
\* Commands.  Main starts them one after another; a script may export
\* the session of its Claude process.

Ready(p) == proc[p] # None /\ hook[p] = "idle" /\ cmd[p] = None

Chains(p) == IF ChainFails THEN {p, None} ELSE {p}

\* A command resolves what it needs, or fails at once.
Start(p, op, chain, env) ==
  LET sid == DetectSession(env, chain)
      rid == DetectRun(env, chain)
  IN  /\ Ready(p)
      /\ sid # None /\ (op \notin {"begin", "next"} => rid # None)
      /\ op \in {"begin", "next"} => begun < MaxRuns
      /\ cmd' = [cmd EXCEPT ![p] =
           [op |-> op, chain |-> chain, sid |-> sid, rid |-> rid,
            at |-> IF op = "begin" \/ (op = "next" /\ rid = None) THEN "begin" ELSE "go"]]
      /\ UNCHANGED <<proc, hook, files, runs>>

Advance(p, at) == cmd' = [cmd EXCEPT ![p].at = at]
Finish(p) == cmd' = [cmd EXCEPT ![p] = None]
At(p, at, ops) == cmd[p] # None /\ cmd[p].at = at /\ cmd[p].op \in ops

\* A write to slot r of session s, and to the run's ledger.
Write(s, r, new) ==
  /\ slot' = [slot EXCEPT ![r] = new]
  /\ dir' = [dir EXCEPT ![r] = 0]
  /\ recent' = Written(s)

\* begin-step, end-step and the other commands on a run: they refuse a run that
\* is not in the session.
Work(p) ==
  LET c == cmd[p]
  IN  /\ At(p, "go", {"step"})
      /\ IF Own(c.sid, c.rid)
         THEN Write(c.sid, c.rid, [slot[c.rid] EXCEPT !.age = 0])
         ELSE UNCHANGED <<slot, dir, recent>>
      /\ Finish(p)
      /\ UNCHANGED <<proc, hook, files, begun>>

\* run_completed
Complete(p) ==
  LET c == cmd[p]
  IN  /\ At(p, "go", {"end", "next"})
      /\ IF Own(c.sid, c.rid) /\ IsOpen(c.rid)
         THEN Write(c.sid, c.rid, [sid |-> c.sid, open |-> FALSE, age |-> 0])
         ELSE UNCHANGED <<slot, dir, recent>>
      /\ Advance(p, "clear")
      /\ UNCHANGED <<proc, hook, files, begun>>

\* Mutant of Clear: the file is cleared if it names the run of this command.
ClearResolved(p) ==
  LET c == cmd[p]
  IN  /\ At(p, "clear", {"end", "next"})
      /\ byrun' = IF c.chain = None \/ ~Own(c.sid, c.rid) THEN byrun
                  ELSE [byrun EXCEPT ![c.chain] = None]
      /\ IF c.op = "end" THEN Finish(p) ELSE Advance(p, "begin")
      /\ UNCHANGED <<proc, hook, bypid, runs>>

\* clear_pid_current_run, the end of end-run
Clear(p) ==
  LET c == cmd[p]
  IN  /\ At(p, "clear", {"end", "next"})
      /\ byrun' = IF c.chain = None THEN byrun ELSE [byrun EXCEPT ![c.chain] = None]
      /\ IF c.op = "end" THEN Finish(p) ELSE Advance(p, "begin")
      /\ UNCHANGED <<proc, hook, bypid, runs>>

\* run_started, up to the bound
Begin(p) ==
  LET c == cmd[p]
      r == begun + 1
  IN  /\ At(p, "begin", {"begin", "next"}) /\ begun < MaxRuns
      /\ Write(c.sid, r, [sid |-> c.sid, open |-> TRUE, age |-> 0])
      /\ begun' = r
      /\ cmd' = [cmd EXCEPT ![p].at = "pid", ![p].rid = r]
      /\ UNCHANGED <<proc, hook, files>>

NoMoreRuns(p) ==
  /\ At(p, "begin", {"begin", "next"}) /\ begun = MaxRuns
  /\ Finish(p)
  /\ UNCHANGED <<proc, hook, files, runs>>

\* write_pid_current_run
WritePid(p) ==
  LET c == cmd[p]
  IN  /\ At(p, "pid", {"begin", "next"})
      /\ byrun' = IF c.chain = None THEN byrun
                  ELSE [byrun EXCEPT ![c.chain] = [rid |-> c.rid, age |-> 0]]
      /\ Finish(p)
      /\ UNCHANGED <<proc, hook, bypid, runs>>

\* The command's process is killed.
KillCommand(p) ==
  /\ cmd[p] # None
  /\ Finish(p)
  /\ UNCHANGED <<proc, hook, files, runs>>

-----------------------------------------------------------------------------
\* Claude processes and their SessionStart hook.  A process may start another
\* session (/clear, /resume), and a number is used again.

Launch(p, s) ==
  /\ cmd[p] = None /\ hook[p] = "idle" /\ \A q \in Pids : proc[q] # s
  /\ proc' = [proc EXCEPT ![p] = s]
  /\ hook' = [hook EXCEPT ![p] = "pid"]
  /\ UNCHANGED <<cmd, files, runs>>

Exit(p) ==
  /\ proc[p] # None /\ cmd[p] = None /\ hook[p] = "idle"
  /\ proc' = [proc EXCEPT ![p] = None]
  /\ UNCHANGED <<hook, cmd, files, runs>>

Hook(p, from, to) == hook[p] = from /\ hook' = [hook EXCEPT ![p] = to]

\* write_pid_session
HookWritesPid(p) ==
  /\ Hook(p, "pid", "live")
  /\ bypid' = [bypid EXCEPT ![p] = [sid |-> proc[p], age |-> 0]]
  /\ UNCHANGED <<proc, cmd, byrun, runs>>

\* session_initialized, unless there is a live.json
HookInitsLive(p) ==
  /\ Hook(p, "live", "pids")
  /\ recent' = IF proc[p] \in ToSet(recent) THEN recent ELSE Written(proc[p])
  /\ UNCHANGED <<proc, cmd, files, slot, dir, begun>>

\* cleanup_stale_pid_files: whoever the files belong to
HookCleansPids(p) ==
  /\ Hook(p, "pids", "slots")
  /\ bypid' = [q \in Pids |-> IF bypid[q] # None /\ bypid[q].age > 0 THEN None ELSE bypid[q]]
  /\ byrun' = [q \in Pids |-> IF byrun[q] # None /\ byrun[q].age > 0 THEN None ELSE byrun[q]]
  /\ UNCHANGED <<proc, cmd, runs>>

\* Mutant of StaleRun: open runs are kept.
StaleRunCompleted(s, r) == Own(s, r) /\ slot[r].age > 0 /\ ~slot[r].open

\* Slots of this session that were not confirmed within a day.
StaleRun(s, r) == Own(s, r) /\ slot[r].age > 0

\* stale_runs_cleaned
HookCleansSlots(p) ==
  LET stale == {r \in Runs : StaleRun(proc[p], r)}
  IN  /\ Hook(p, "slots", "dirs")
      /\ slot' = [r \in Runs |-> IF r \in stale THEN None ELSE slot[r]]
      /\ recent' = IF stale = {} THEN recent ELSE Written(proc[p])
      /\ UNCHANGED <<proc, cmd, files, dir, begun>>

Expired(r) == dir[r] # None /\ dir[r] > 1

\* cleanup_stale_run_dirs, for every session
HookCleansDirs(p) ==
  /\ Hook(p, "dirs", "idle")
  /\ dir' = [r \in Runs |-> IF Expired(r) THEN None ELSE dir[r]]
  /\ UNCHANGED <<proc, cmd, files, slot, begun, recent>>

\* A long pause: more than a day (1) or a week (2) passes.
LongPause(n) ==
  /\ \A p \in Pids : hook[p] = "idle" /\ cmd[p] = None
  /\ Sleeps \/ \A p \in Pids : proc[p] = None
  /\ bypid' = [p \in Pids |-> IF bypid[p] = None THEN None ELSE [bypid[p] EXCEPT !.age = Older(n, @)]]
  /\ byrun' = [p \in Pids |-> IF byrun[p] = None THEN None ELSE [byrun[p] EXCEPT !.age = Older(n, @)]]
  /\ slot' = [r \in Runs |-> IF slot[r] = None THEN None ELSE [slot[r] EXCEPT !.age = Older(n, @)]]
  /\ dir' = [r \in Runs |-> IF dir[r] = None THEN None ELSE Older(n, dir[r])]
  /\ UNCHANGED <<proc, hook, cmd, begun, recent>>

-----------------------------------------------------------------------------
Command(p) ==
  \/ \E op \in {"begin", "next", "end", "step"},
        chain \in Chains(p), env \in {None, proc[p]} : Start(p, op, chain, env)
  \/ Work(p) \/ Complete(p) \/ Clear(p) \/ Begin(p) \/ NoMoreRuns(p) \/ WritePid(p)
  \/ KillCommand(p)

SessionStart(p) ==
  \/ HookWritesPid(p) \/ HookInitsLive(p) \/ HookCleansPids(p)
  \/ HookCleansSlots(p) \/ HookCleansDirs(p)

Next ==
  \/ \E p \in Pids : Command(p) \/ SessionStart(p) \/ Exit(p) \/ \E s \in Sessions : Launch(p, s)
  \/ \E n \in {1, 2} : LongPause(n)

Spec == Init /\ [][Next]_vars

\* The main session of process p calls end-run again and again, and not every one
\* of its commands is killed.
Fairness(p) ==
  /\ SF_vars(Start(p, "end", p, None))
  /\ SF_vars(Complete(p)) /\ SF_vars(Clear(p))
  /\ WF_vars(SessionStart(p))
  /\ WF_vars(Work(p) \/ Begin(p) \/ NoMoreRuns(p) \/ WritePid(p))

-----------------------------------------------------------------------------
\* A command that finds its Claude process writes to no run of another session,
\* whatever is left in the process files of sessions that are over.
OwnRunsOnly ==
  [][\A p \in Pids, r \in Runs :
       cmd[p] # None /\ cmd'[p] # cmd[p] /\ cmd[p].chain # None /\ slot'[r] # slot[r]
         => slot'[r].sid = proc[p]]_vars

\* Garbage collection never takes the directory of a run that its session, once
\* started, still shows as open: slots go before directories, and a session that
\* comes back after a week drops the slot itself.
OpenRunKept ==
  \A r \in Runs :
    IsOpen(r) /\ (\E p \in Pids : proc[p] = slot[r].sid /\ hook[p] = "idle") => dir[r] # None

\* Whatever another session or a killed command has left in the process files, a
\* session that stays and keeps calling end-run ends all its runs.
EndRunHeals(p, s) ==
  <>[](proc[p] = s) => <>[](\A r \in Runs : Own(s, r) => ~IsOpen(r))
==============================================================================

------------------------------ MODULE WaveBoard ------------------------------
(***************************************************************************)
(* The claim board of independent peer sessions (harness/wave_board.py).   *)
(*                                                                         *)
(* A claim is one JSON file per registered impl task.  The file is created *)
(* with O_EXCL and written afterwards, so it exists for a while without    *)
(* readable content.  Every other operation of the board reads the record, *)
(* changes it in memory and then replaces (os.replace) or unlinks the file *)
(* without any lock: a call is therefore two steps, and boardCall[p] holds *)
(* the record that p read in the first one.                                *)
(*                                                                         *)
(* Abstracted: the canonical path and its hash (a task names its claim),   *)
(* timestamps, pids and free text; worktree and branch (a session works on *)
(* one task on one branch, so the owner of a claim stands for both).       *)
(***************************************************************************)
EXTENDS PeerActors

CONSTANTS
  Tasks,        \* impl tasks
  Registered    \* the tasks `wave-plan --register` put on the board

VARIABLES
  claims,       \* claims[t]: the claim file of task t, or None
  boardCall     \* boardCall[p]: the board call p is in the middle of, or None

boardVars == <<claims, boardCall>>

ClaimState == {"torn", "claimed", "completed", "failed"}

Claim == [owner : Sessions, state : ClaimState]

BoardOp == {"claim", "heartbeat", "complete", "fail", "release", "reclaim"}

BoardCall == [op : BoardOp, task : Tasks, rec : Claim]

ASSUME BoardConstants ==
  /\ Registered \subseteq Tasks
  /\ None \notin Claim
  /\ None \notin BoardCall

BoardTypeOK ==
  /\ claims \in [Tasks -> Claim \cup {None}]
  /\ boardCall \in [Procs -> BoardCall \cup {None}]

BoardInit ==
  /\ claims = [t \in Tasks |-> None]
  /\ boardCall = [p \in Procs |-> None]

-----------------------------------------------------------------------------
\* A torn file raises JSONDecodeError in every reader.
Readable(t) == claims[t] # None /\ claims[t].state # "torn"

Completed(t) == claims[t] # None /\ claims[t].state = "completed"

\* find_claim_by_branch: unreadable claim files are skipped.
OwnClaim(s, t) == Readable(t) /\ claims[t].owner = s

\* claim_if_registered, up to open(O_CREAT | O_EXCL): refused, with no effect,
\* when the claim file exists in whatever state.
CreateClaim(s, t) ==
  /\ boardCall[s] = None
  /\ t \in Registered
  /\ claims[t] = None
  /\ LET rec == [owner |-> s, state |-> "torn"]
     IN  /\ claims' = [claims EXCEPT ![t] = rec]
         /\ boardCall' =
              [boardCall EXCEPT ![s] = [op |-> "claim", task |-> t, rec |-> rec]]

\* The condition under which an operation goes past its checks to its write.
Accepts(p, op, t) ==
  /\ Readable(t)
  /\ op = "heartbeat" => claims[t].owner = p
  /\ op \in {"fail", "release", "reclaim"} => claims[t].state # "completed"

\* get_record / _read_json at the start of an operation.
ReadClaim(p, op, t) ==
  /\ boardCall[p] = None
  /\ Accepts(p, op, t)
  /\ boardCall' =
       [boardCall EXCEPT ![p] = [op |-> op, task |-> t, rec |-> claims[t]]]
  /\ UNCHANGED claims

\* What the file of the call's task is after the call's last step.  Heartbeat,
\* complete and fail replace the file whatever it has become; release and
\* reclaim archive the record they read and unlink the path (an absent file
\* raises FileNotFoundError and stays absent).
StateAfter == [claim |-> "claimed", complete |-> "completed", fail |-> "failed"]

ClaimAfter(call) ==
  IF call.op \in {"release", "reclaim"} THEN None
  ELSE IF call.op = "heartbeat" THEN call.rec
  ELSE [call.rec EXCEPT !.state = StateAfter[call.op]]

WriteClaim(p) ==
  /\ boardCall[p] # None
  /\ claims' = [claims EXCEPT ![boardCall[p].task] = ClaimAfter(boardCall[p])]
  /\ boardCall' = [boardCall EXCEPT ![p] = None]

\* The process dies between the two steps of a call.
DropBoardCall(p) ==
  /\ boardCall' = [boardCall EXCEPT ![p] = None]
  /\ UNCHANGED claims
==============================================================================

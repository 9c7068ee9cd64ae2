------------------------------ MODULE MergeLock ------------------------------
(***************************************************************************)
(* The repo-level merge mutex (harness/merge_lock.py, class MergeLock).    *)
(*                                                                         *)
(* The lock is one file created with O_EXCL.  Releasing it and breaking it *)
(* both read the file, check the record they read, archive that record and *)
(* then unlink the PATH: nothing ties the unlink to the record read, so    *)
(* lockCall[p] keeps that record between the two steps.                    *)
(*                                                                         *)
(* Abstracted: uuid tokens are members of Tokens, each drawn once; the     *)
(* two-hour age test is the flag "stale", set by Age at any time; the      *)
(* archive file, which no code reads, is left out.                         *)
(***************************************************************************)
EXTENDS PeerActors

CONSTANT Tokens   \* uuid4().hex values (bounds the number of acquisitions)

VARIABLES
  lock,         \* the lock file, or None
  usedTokens,   \* tokens drawn so far
  lockCall      \* lockCall[p]: the record p read in an unfinished release/break

lockVars == <<lock, usedTokens, lockCall>>

LockRecord == [token : Tokens, owner : Sessions, written : BOOLEAN, stale : BOOLEAN]

ASSUME LockConstants ==
  /\ None \notin LockRecord
  /\ None \notin Tokens

LockTypeOK ==
  /\ lock \in LockRecord \cup {None}
  /\ usedTokens \in SUBSET Tokens
  /\ lockCall \in [Procs -> LockRecord \cup {None}]

LockInit ==
  /\ lock = None
  /\ usedTokens = {}
  /\ lockCall = [p \in Procs |-> None]

-----------------------------------------------------------------------------
\* MergeLock.acquire up to the exclusive create; LockBusy when the file exists.
CreateLock(s, k) ==
  /\ lock = None
  /\ k \in Tokens \ usedTokens
  /\ lock' = [token |-> k, owner |-> s, written |-> FALSE, stale |-> FALSE]
  /\ usedTokens' = usedTokens \cup {k}
  /\ UNCHANGED lockCall

Holds(k) == lock # None /\ lock.token = k

\* The rest of _direct_create_json: the content reaches the file it created,
\* even when that file has lost its path meanwhile.
FillLock(k) ==
  /\ lock' = IF Holds(k) THEN [lock EXCEPT !.written = TRUE] ELSE lock
  /\ UNCHANGED <<usedTokens, lockCall>>

\* release: the file exists, parses, and carries the caller's token.
ReadForRelease(s, k) ==
  /\ lockCall[s] = None
  /\ Holds(k) /\ lock.written
  /\ lockCall' = [lockCall EXCEPT ![s] = lock]
  /\ UNCHANGED <<lock, usedTokens>>

\* break_stale: the file exists, parses, and its acquired_at is old enough.
ReadForBreak(o) ==
  /\ lockCall[o] = None
  /\ lock # None /\ lock.written /\ lock.stale
  /\ lockCall' = [lockCall EXCEPT ![o] = lock]
  /\ UNCHANGED <<lock, usedTokens>>

\* _archive_and_unlink: removes whatever lock file is there by now.
Unlink(p) ==
  /\ lockCall[p] # None
  /\ lock' = None
  /\ lockCall' = [lockCall EXCEPT ![p] = None]
  /\ UNCHANGED usedTokens

\* More than stale_after_seconds pass since acquired_at.
Age ==
  /\ lock # None /\ lock.written /\ ~lock.stale
  /\ lock' = [lock EXCEPT !.stale = TRUE]
  /\ UNCHANGED <<usedTokens, lockCall>>

DropLockCall(p) ==
  /\ lockCall' = [lockCall EXCEPT ![p] = None]
  /\ UNCHANGED <<lock, usedTokens>>
==============================================================================

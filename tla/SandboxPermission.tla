-------------------------- MODULE SandboxPermission --------------------------
(* harness/codex_sandbox_permission.py and what scripts/dcness-codex-worker   *)
(* does with it. A Codex worker that the sandbox kept from validating leaves  *)
(* a receipt that names the capabilities it lacked; the user answers it once, *)
(* and an approval runs the worker once more with those capabilities. The     *)
(* answer's process may be killed at any step; its worker then works on.      *)
EXTENDS Integers, FiniteSets

CONSTANTS
  None,
  MaxReceipts,   \* bound: receipts ever written
  Workers,       \* bound: slots for workers at work at one time
  TotalTimeout,  \* DCNESS_CODEX_TIMEOUT, in polls
  IdleTimeout,   \* DCNESS_CODEX_IDLE_TIMEOUT, in polls
  Answers        \* what a worker may answer, see AnswerType

Receipts == 1 .. MaxReceipts
Capabilities == {"network_access", "writable_roots"}

\* Lines of a log, by what the patterns make of them: a line of one of Roots is
\* a denied write below a Gradle root of the user or of the project, or below
\* another directory, which a line "home" announces as GRADLE_USER_HOME.
Roots == {"user", "project", "other"}
Lines == {"socket", "infra", "home"} \cup Roots

AnswerType == [blocked : BOOLEAN, log : SUBSET Lines, tools : SUBSET Lines, prose : SUBSET Lines]

VARIABLES
  receipts,  \* the permission receipts
  settings,  \* capabilities in the env of .claude/settings.local.json
  worker,    \* the workers at work
  answer,    \* the process of the user's answer to a receipt
  retries    \* history: the retries started for each receipt, and denials

vars == <<receipts, settings, worker, answer, retries>>

Settled == {"denied", "completed", "retry_failed", "retry_blocked"}
ReceiptType ==
  [state : Settled \cup {"permission_required", "retrying"}, count : {0, 1},
   caps : SUBSET Capabilities, roots : SUBSET Roots]

PermissionConstants ==
  /\ MaxReceipts \in Nat /\ TotalTimeout \in Nat \ {0} /\ IdleTimeout \in Nat \ {0}
  /\ Answers \subseteq AnswerType
  /\ None \notin Receipts /\ \A receipt \in ReceiptType : receipt # None

WorkType ==
  [pc : {"work"}, retry : Receipts \cup {None}, caps : SUBSET Capabilities, age : Nat, quiet : Nat]
AnsweringType ==
  [pc : {"read", "merged", "marked", "wait", "back"}, r : Receipts,
   decision : {"once", "project", "deny"}, receipt : ReceiptType,
   at : Workers \cup {None}, code : {0, 1, 124}]

Off == [pc |-> "off"]
NoAnswer == [pc |-> "off"]

Init ==
  /\ receipts = [r \in Receipts |-> None]
  /\ settings = {}
  /\ worker = [w \in Workers |-> Off]
  /\ answer = NoAnswer
  /\ retries = [r \in Receipts |-> [started |-> 0, denied |-> FALSE]]

-----------------------------------------------------------------------------
(* Classification of a worker's evidence                                       *)

\* A root outside the project, deep enough and of no common parent.
RootIsSafe(root) == root # "project"

DeniedRoots(lines) == lines \cap Roots

\* Announced roots that hold a denied path come first; else Gradle's own.
SuggestedRoots(lines) ==
  IF "home" \in lines /\ "other" \in DeniedRoots(lines)
    THEN {"other"}
    ELSE {root \in DeniedRoots(lines) \ {"other"} : RootIsSafe(root)}

\* The wrapper appends the final prose to the log: it is no evidence.
ProviderLog(a) == a.log

\* The capabilities lacked, or {} when this is no denial of the sandbox.
Classify(a) ==
  LET lines == ProviderLog(a) \cup a.tools
  IN IF ~a.blocked \/ "infra" \in ProviderLog(a)
       THEN {}
       ELSE {c \in Capabilities :
               \/ c = "network_access" /\ "socket" \in lines
               \/ c = "writable_roots" /\ SuggestedRoots(lines) # {}}

-----------------------------------------------------------------------------
(* The worker                                                                  *)

\* The arguments of codex: only what its environment opted in to.
At(retry, caps) ==
  [pc |-> "work", retry |-> retry, caps |-> caps, age |-> 0, quiet |-> 0]

\* A first launch, with what the project's settings put in its environment.
LaunchWorker(w) ==
  /\ worker[w].pc = "off"
  /\ worker' = [worker EXCEPT ![w] = At(None, settings)]
  /\ UNCHANGED <<receipts, settings, answer, retries>>

Overdue(w) == worker[w].age >= TotalTimeout \/ worker[w].quiet >= IdleTimeout

\* One poll of a provider that goes on: log, prose or worktree grew, or not.
Poll(w) ==
  /\ worker[w].pc = "work" /\ ~Overdue(w)
  /\ \E quiet \in {0, worker[w].quiet + 1} :
       worker' = [worker EXCEPT ![w].age = @ + 1, ![w].quiet = quiet]
  /\ UNCHANGED <<receipts, settings, answer, retries>>

\* The worker exits; the answer that waits for it sees the code.
Leave(w, code) ==
  /\ worker' = [worker EXCEPT ![w] = Off]
  /\ answer' = IF answer.pc = "wait" /\ answer.at = w
                 THEN [answer EXCEPT !.pc = "back", !.code = code] ELSE answer

\* A run that failed, was killed when overdue, or left no prose: no evidence.
RunFails(w) ==
  /\ worker[w].pc = "work"
  /\ Leave(w, IF Overdue(w) THEN 124 ELSE 1)
  /\ UNCHANGED <<receipts, settings, retries>>

NewReceipt(a) ==
  [state |-> "permission_required", count |-> 0, caps |-> Classify(a),
   roots |-> SuggestedRoots(ProviderLog(a) \cup a.tools)]

\* The answer of a run that ended by itself: the poll asks for its exit before
\* the deadlines. A denial in a first run gives a receipt of its own; a retry
\* that is still blocked, denial or not, closes the receipt it came from. The
\* guards that follow decide the exit code, which only a retry waits for.
RunAnswers(w) ==
  /\ worker[w].pc = "work"
  /\ \E a \in Answers, code \in IF worker[w].retry = None THEN {0} ELSE {0, 1} :
       /\ IF worker[w].retry # None
            THEN receipts' = IF a.blocked
                   THEN [receipts EXCEPT ![worker[w].retry].state = "retry_blocked"] ELSE receipts
            ELSE IF Classify(a) = {}
                   THEN receipts' = receipts
                   ELSE \E r \in Receipts :
                          /\ receipts[r] = None /\ \A q \in Receipts : q < r => receipts[q] # None
                          /\ receipts' = [receipts EXCEPT ![r] = NewReceipt(a)]
       /\ Leave(w, code)
  /\ UNCHANGED <<settings, retries>>

-----------------------------------------------------------------------------
(* dcness-codex-permission retry                                               *)

\* What a receipt allows to approve; {} refuses it.
Approved(receipt) ==
  IF "writable_roots" \in receipt.caps
     /\ ~(receipt.roots # {} /\ \A root \in receipt.roots : RootIsSafe(root))
    THEN {} ELSE receipt.caps

\* The receipt is read, and refused when it has been answered.
ReadReceipt ==
  /\ answer.pc = "off"
  /\ \E r \in Receipts, decision \in {"once", "project", "deny"} :
       /\ receipts[r] # None
       /\ receipts[r].count = 0 /\ receipts[r].state = "permission_required"
       /\ decision # "deny" => Approved(receipts[r]) # {}
       /\ answer' = [pc |-> "read", r |-> r, decision |-> decision, receipt |-> receipts[r],
                     at |-> None, code |-> 0]
  /\ UNCHANGED <<receipts, settings, worker, retries>>

\* _update_receipt writes the copy it holds.
Write(copy) == receipts' = [receipts EXCEPT ![answer.r] = copy]

Deny ==
  /\ answer.pc = "read" /\ answer.decision = "deny"
  /\ Write([answer.receipt EXCEPT !.state = "denied"])
  /\ answer' = NoAnswer
  /\ retries' = [retries EXCEPT ![answer.r].denied = TRUE]
  /\ UNCHANGED <<settings, worker>>

\* The project's settings come first, the receipt after.
MergeSettings ==
  /\ answer.pc = "read" /\ answer.decision = "project"
  /\ settings' = settings \cup Approved(answer.receipt)
  /\ answer' = [answer EXCEPT !.pc = "merged"]
  /\ UNCHANGED <<receipts, worker, retries>>

\* Mutant of MarkRetrying: the receipt is left for the end of the retry.
MarkRetryingLate ==
  /\ \/ answer.pc = "merged"
     \/ answer.pc = "read" /\ answer.decision = "once"
  /\ answer' = [answer EXCEPT !.pc = "marked"]
  /\ UNCHANGED <<receipts, settings, worker, retries>>

MarkRetrying ==
  /\ \/ answer.pc = "merged"
     \/ answer.pc = "read" /\ answer.decision = "once"
  /\ Write([answer.receipt EXCEPT !.state = "retrying", !.count = 1])
  /\ answer' = [answer EXCEPT !.pc = "marked"]
  /\ UNCHANGED <<settings, worker, retries>>

\* The environment of the retry is that of the call without what it holds of
\* the two capabilities, and with what was approved.
StartRetry ==
  /\ answer.pc = "marked"
  /\ \E w \in Workers :
       /\ worker[w].pc = "off"
       /\ worker' = [worker EXCEPT ![w] = At(answer.r, Approved(answer.receipt))]
       /\ answer' = [answer EXCEPT !.pc = "wait", !.at = w]
  /\ retries' = [retries EXCEPT ![answer.r].started = @ + 1]
  /\ UNCHANGED <<receipts, settings>>

RetryCannotStart ==
  /\ answer.pc = "marked"
  /\ Write([receipts[answer.r] EXCEPT !.state = "retry_failed"])
  /\ answer' = NoAnswer
  /\ UNCHANGED <<settings, worker, retries>>

\* The receipt is read again: a worker that was blocked again has closed it.
FinishRetry ==
  /\ answer.pc = "back"
  /\ LET latest == receipts[answer.r]
     IN Write(IF latest.state = "retry_blocked" THEN latest
              ELSE [latest EXCEPT !.state = IF answer.code = 0 THEN "completed" ELSE "retry_failed"])
  /\ answer' = NoAnswer
  /\ UNCHANGED <<settings, worker, retries>>

\* The call is killed, or refuses on malformed settings or a missing prompt.
AnswerGone ==
  /\ answer.pc # "off"
  /\ answer' = NoAnswer
  /\ UNCHANGED <<receipts, settings, worker, retries>>

TypeOK ==
  /\ receipts \in [Receipts -> {None} \cup ReceiptType]
  /\ settings \subseteq Capabilities
  /\ worker \in [Workers -> {Off} \cup WorkType]
  /\ answer \in {NoAnswer} \cup AnsweringType
  /\ retries \in [Receipts -> [started : Nat, denied : BOOLEAN]]

Next ==
  \/ \E w \in Workers : LaunchWorker(w) \/ Poll(w) \/ RunFails(w) \/ RunAnswers(w)
  \/ ReadReceipt \/ Deny \/ MergeSettings \/ MarkRetrying
  \/ StartRetry \/ RetryCannotStart \/ FinishRetry \/ AnswerGone

Spec == Init /\ [][Next]_vars

-----------------------------------------------------------------------------
\* A denial is answered once: whatever call is killed at whatever step, and
\* whatever its worker, working on alone, still writes, no receipt is retried
\* twice, none after its denial, and a retry has only what its receipt names.
RetriedOnce ==
  /\ \A r \in Receipts : retries[r].started + (IF retries[r].denied THEN 1 ELSE 0) <= 1
  /\ \A w \in Workers :
       worker[w].pc = "work" /\ worker[w].retry # None => worker[w].caps \subseteq receipts[worker[w].retry].caps
=============================================================================

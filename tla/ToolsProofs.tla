------------------------------ MODULE ToolsProofs ------------------------------
(* What the tools beside the conveyor keep, for any constants that             *)
(* ToolsConstants allows.  Every section is about one tool of Tools: its       *)
(* inductive invariant, that the first states have it, one lemma for each of   *)
(* the tool's actions, and the theorem.  The tools share no variable, so a     *)
(* step of another tool leaves a tool's invariant alone.                       *)
EXTENDS Tools, Sequences, WellFoundedInduction, TLAPS

-----------------------------------------------------------------------------
(* What the proofs use of numbers and of functions on them.                    *)

\* A set of numbers up to a bound has a largest one.
LEMMA LargestNumber ==
  ASSUME NEW n \in Nat, NEW S \in SUBSET (0..n), S # {}
  PROVE  J!Max(S) \in S /\ \A y \in S : J!Max(S) >= y
<1> DEFINE gaps == {k \in Nat : \E x \in S : x = n - k}
<1>1. gaps \subseteq Nat /\ gaps # {}
  <2>1. PICK x \in S : TRUE
    OBVIOUS
  <2>2. n - x \in Nat /\ x = n - (n - x)
    BY <2>1
  <2> QED BY <2>1, <2>2
<1>2. PICK k \in gaps : \A l \in gaps : ~(<<l, k>> \in OpToRel(<, Nat))
  BY <1>1, WFMin, NatLessThanWellFounded
<1>3. PICK x \in S : x = n - k
  OBVIOUS
<1>4. \A y \in S : x >= y
  <2> SUFFICES ASSUME NEW y \in S PROVE x >= y
    OBVIOUS
  <2>1. n - y \in gaps
    <3>1. n - y \in Nat /\ y = n - (n - y)
      OBVIOUS
    <3> QED BY <3>1
  <2>2. k \in Nat /\ n - y \in Nat
    BY <2>1
  <2>3. ~(n - y < k)
    BY <1>2, <2>1, <2>2 DEF OpToRel
  <2> QED BY <1>3, <2>2, <2>3
<1>5. \E y \in S : \A z \in S : y >= z
  BY <1>4
<1> QED BY <1>5, Zenon DEF J!Max

LEMMA SameMax == \A S : B!Max(S) = J!Max(S)
BY DEF B!Max, J!Max

\* What holds at 0 and passes from each number to the next holds up to a bound:
\* good is the set of the numbers at which it does.
LEMMA StepByStep ==
  ASSUME NEW n \in Nat, NEW good, 0 \in good,
         \A k \in 1..n : k - 1 \in good => k \in good
  PROVE  0..n \subseteq good
<1> SUFFICES ASSUME (0..n) \ good # {} PROVE FALSE
  OBVIOUS
<1>1. (0..n) \ good \subseteq Nat
  OBVIOUS
<1>2. PICK k \in (0..n) \ good : \A l \in (0..n) \ good : ~(<<l, k>> \in OpToRel(<, Nat))
  BY <1>1, WFMin, NatLessThanWellFounded
<1>3. k \in 1..n /\ k - 1 \in 0..n
  <2>1. k \in 0..n /\ k # 0
    OBVIOUS
  <2> QED BY <2>1
<1>4. k - 1 \in good
  <2> SUFFICES ASSUME k - 1 \notin good PROVE FALSE
    OBVIOUS
  <2>1. ~(<<k - 1, k>> \in OpToRel(<, Nat))
    BY <1>2, <1>3
  <2>2. k \in Nat /\ k - 1 \in Nat /\ k - 1 < k
    BY <1>3
  <2> QED BY <2>1, <2>2 DEF OpToRel
<1> QED BY <1>2, <1>3, <1>4

\* A function that takes its value at 0 and each next one from the one before.
Recursive(g, n, A, first, F) ==
  g \in [0..n -> A] /\ g[0] = first /\ \A k \in 1..n : g[k] = F[k][g[k - 1]]

StepFunctions(n, A) == [1..n -> [A -> A]]

LEMMA Recursion ==
  ASSUME NEW n \in Nat, NEW A, NEW first \in A, NEW F \in StepFunctions(n, A)
  PROVE  \E g : Recursive(g, n, A, first, F)
<1> USE DEF StepFunctions
<1> DEFINE upTo(k) == \E g \in [0..k -> A] : g[0] = first /\ \A i \in 1..k : g[i] = F[i][g[i - 1]]
           good == {k \in 0..n : upTo(k)}
<1>1. upTo(0)
  <2> DEFINE h == [i \in 0..0 |-> first]
  <2>1. h \in [0..0 -> A] /\ h[0] = first /\ 1..0 = {}
    OBVIOUS
  <2> HIDE DEF h
  <2>2. \A i \in 1..0 : h[i] = F[i][h[i - 1]]
    BY <2>1
  <2> QED BY <2>1, <2>2
<1>2. ASSUME NEW k \in 1..n, upTo(k - 1) PROVE upTo(k)
  <2>1. PICK g \in [0..(k - 1) -> A] : g[0] = first /\ \A i \in 1..(k - 1) : g[i] = F[i][g[i - 1]]
    BY <1>2
  <2> DEFINE h == [i \in 0..k |-> IF i = k THEN F[k][g[k - 1]] ELSE g[i]]
  <2>2. h \in [0..k -> A]
    OBVIOUS
  <2>3. h[0] = first /\ \A i \in 1..k : h[i] = F[i][h[i - 1]]
    BY <2>1
  <2> QED BY <2>2, <2>3
<1> HIDE DEF upTo
<1>3. 0..n \subseteq good
  <2>1. \A k \in 1..n : k - 1 \in good => k \in good
    BY <1>2
  <2>2. 0 \in good
    BY <1>1
  <2> HIDE DEF good
  <2> QED BY <2>1, <2>2, StepByStep
<1>4. upTo(n)
  BY <1>3
<1>5. \E g : g \in [0..n -> A] /\ g[0] = first /\ \A k \in 1..n : g[k] = F[k][g[k - 1]]
  BY <1>4 DEF upTo
<1> QED BY <1>5, Zenon DEF Recursive

-----------------------------------------------------------------------------
(* The sandbox's denials: RetriedOnce speaks of a history; what makes it       *)
(* inductive is how far each receipt may have got while an answer is at each   *)
(* of its steps, and that only a receipt already counted has a worker.         *)

Untouched(r) == retries[r].started = 0 /\ ~retries[r].denied
Used(r) == denials[r] # None /\ denials[r].count = 1 /\ ~retries[r].denied

\* A receipt that may still be answered has no history.
OpenUntouched ==
  \A r \in P!Receipts :
    denials[r] = None \/ (denials[r].count = 0 /\ denials[r].state = "permission_required")
      => Untouched(r)

\* A worker of a retry belongs to a receipt that was counted, and has no more
\* than that names.
WorkersNamed ==
  \A w \in Workers :
    worker[w].pc = "work" /\ worker[w].retry # None =>
      /\ Used(worker[w].retry)
      /\ retries[worker[w].retry].started = 1
      /\ worker[w].caps \subseteq denials[worker[w].retry].caps

\* The answer holds what the file holds until it has marked it.
AnswerCurrent ==
  /\ answer.pc \in {"read", "merged"} =>
       /\ denials[answer.r] = answer.receipt
       /\ answer.receipt.count = 0 /\ answer.receipt.state = "permission_required"
  /\ answer.pc = "marked" =>
       /\ Used(answer.r) /\ retries[answer.r].started = 0
       /\ denials[answer.r].caps = answer.receipt.caps
  /\ answer.pc \in {"wait", "back"} => Used(answer.r) /\ retries[answer.r].started = 1

AtMostOne == \A r \in P!Receipts : retries[r].started + (IF retries[r].denied THEN 1 ELSE 0) <= 1

DenialInv == P!TypeOK /\ OpenUntouched /\ WorkersNamed /\ AnswerCurrent /\ AtMostOne

-----------------------------------------------------------------------------

LEMMA ApprovedNamed == \A receipt \in P!ReceiptType : P!Approved(receipt) \subseteq receipt.caps
BY DEF P!Approved

LEMMA ClassifyType ==
  ASSUME P!PermissionConstants, NEW a \in Answers
  PROVE  P!NewReceipt(a) \in P!ReceiptType
BY DEF P!PermissionConstants, P!NewReceipt, P!Classify, P!SuggestedRoots, P!DeniedRoots, P!ProviderLog,
   P!ReceiptType, P!AnswerType, P!Lines, P!Roots, P!Capabilities, P!RootIsSafe, P!Settled

LEMMA DenialInit == P!PermissionConstants /\ P!Init => DenialInv
BY DEF P!PermissionConstants, P!Init, DenialInv, P!TypeOK, OpenUntouched, WorkersNamed, AnswerCurrent,
   AtMostOne, Untouched, Used, P!NoAnswer, P!Off, P!Receipts

LEMMA DenialTypeStep ==
  ASSUME P!PermissionConstants, DenialInv, [P!Next]_PVars
  PROVE  P!TypeOK'
<1> USE DEF P!TypeOK
<1>1. CASE UNCHANGED PVars
  BY <1>1 DEF DenialInv, PVars
<1>2. ASSUME NEW w \in Workers, P!LaunchWorker(w) PROVE P!TypeOK'
  BY <1>2 DEF DenialInv, P!LaunchWorker, P!At, P!WorkType
<1>3. ASSUME NEW w \in Workers, P!Poll(w) PROVE P!TypeOK'
  <2>1. PICK quiet \in {0, worker[w].quiet + 1} :
          worker' = [worker EXCEPT ![w].age = @ + 1, ![w].quiet = quiet]
    BY <1>3 DEF P!Poll
  <2>2. worker[w] \in P!WorkType
    BY <1>3 DEF DenialInv, P!Poll, P!Off
  <2>3. worker[w].age \in Nat /\ quiet \in Nat
    BY <2>1, <2>2 DEF P!WorkType
  <2> DEFINE older == [worker[w] EXCEPT !.age = worker[w].age + 1]
  <2>a. worker[w].age + 1 \in Nat
    BY <2>3
  <2>b. older \in P!WorkType
    BY <2>2, <2>a DEF P!WorkType
  <2>c. worker' = [worker EXCEPT ![w] = [older EXCEPT !.quiet = quiet]]
    BY <2>1 DEF DenialInv
  <2> HIDE DEF older
  <2>4. [older EXCEPT !.quiet = quiet] \in P!WorkType
    BY <2>3, <2>b DEF P!WorkType
  <2>5. worker' = [worker EXCEPT ![w] = [older EXCEPT !.quiet = quiet]]
    BY <2>c
  <2>6. worker' \in [Workers -> {P!Off} \cup P!WorkType]
    BY <2>4, <2>5 DEF DenialInv
  <2> QED BY <1>3, <2>6 DEF DenialInv, P!Poll
<1>4. ASSUME NEW w \in Workers, NEW code \in {0, 1, 124}, P!Leave(w, code)
      PROVE  worker' \in [Workers -> {P!Off} \cup P!WorkType] /\ answer' \in {P!NoAnswer} \cup P!AnsweringType
  <2>1. worker' \in [Workers -> {P!Off} \cup P!WorkType]
    BY <1>4 DEF DenialInv, P!Leave
  <2>2. CASE answer.pc = "wait" /\ answer.at = w
    <3>1. answer \in P!AnsweringType
      BY <2>2 DEF DenialInv, P!NoAnswer
    <3>2. answer' = [answer EXCEPT !.pc = "back", !.code = code]
      BY <1>4, <2>2 DEF P!Leave
    <3> QED BY <2>1, <3>1, <3>2 DEF P!AnsweringType
  <2>3. CASE ~(answer.pc = "wait" /\ answer.at = w)
    BY <1>4, <2>1, <2>3 DEF DenialInv, P!Leave
  <2> QED BY <2>2, <2>3
<1>5. ASSUME NEW w \in Workers, P!RunFails(w) PROVE P!TypeOK'
  BY <1>4, <1>5 DEF DenialInv, P!RunFails
<1>6. ASSUME NEW w \in Workers, P!RunAnswers(w) PROVE P!TypeOK'
  <2>1. PICK a \in Answers, code \in {0, 1} :
          /\ IF worker[w].retry # None
               THEN denials' = IF a.blocked
                      THEN [denials EXCEPT ![worker[w].retry].state = "retry_blocked"] ELSE denials
               ELSE IF P!Classify(a) = {}
                      THEN denials' = denials
                      ELSE \E r \in P!Receipts :
                             /\ denials[r] = None /\ \A q \in P!Receipts : q < r => denials[q] # None
                             /\ denials' = [denials EXCEPT ![r] = P!NewReceipt(a)]
          /\ P!Leave(w, code)
    BY <1>6 DEF P!RunAnswers
  <2>2. denials' \in [P!Receipts -> {None} \cup P!ReceiptType]
    <3>1. CASE worker[w].retry # None
      <4>1. worker[w].pc = "work" /\ worker[w].retry \in P!Receipts
        BY <1>6, <3>1 DEF DenialInv, P!RunAnswers, P!WorkType, P!Off
      <4>2. denials[worker[w].retry] \in P!ReceiptType
        BY <4>1, <3>1 DEF DenialInv, WorkersNamed, Used
      <4> QED BY <2>1, <3>1, <4>1, <4>2 DEF DenialInv, P!ReceiptType, P!Settled
    <3>2. CASE worker[w].retry = None
      BY <2>1, <3>2, ClassifyType DEF DenialInv
    <3> QED BY <3>1, <3>2
  <2> QED BY <1>4, <2>1, <2>2, <1>6 DEF DenialInv, P!RunAnswers
<1>7. CASE P!ReadReceipt
  BY <1>7 DEF DenialInv, P!ReadReceipt, P!AnsweringType, P!PermissionConstants
<1>8. CASE P!Deny
  <2>1. answer \in P!AnsweringType
    BY <1>8 DEF DenialInv, P!Deny, P!NoAnswer
  <2>2. answer.r \in P!Receipts /\ [answer.receipt EXCEPT !.state = "denied"] \in P!ReceiptType
    BY <2>1 DEF P!AnsweringType, P!ReceiptType, P!Settled
  <2>3. denials' \in [P!Receipts -> {None} \cup P!ReceiptType]
    BY <1>8, <2>2 DEF DenialInv, P!Deny, P!Write
  <2>4. retries' \in [P!Receipts -> [started : Nat, denied : BOOLEAN]]
    BY <1>8, <2>2 DEF DenialInv, P!Deny
  <2> QED BY <1>8, <2>3, <2>4 DEF DenialInv, P!Deny
<1>9. CASE P!MergeSettings
  BY <1>9, ApprovedNamed DEF DenialInv, P!MergeSettings, P!AnsweringType, P!NoAnswer, P!ReceiptType
<1>10. CASE P!MarkRetrying
  <2>1. answer \in P!AnsweringType
    BY <1>10 DEF DenialInv, P!MarkRetrying, P!NoAnswer
  <2>2. answer.r \in P!Receipts /\ answer.receipt \in P!ReceiptType
    BY <2>1 DEF P!AnsweringType
  <2>4. [answer.receipt EXCEPT !.state = "retrying", !.count = 1] \in P!ReceiptType
    BY <2>2 DEF P!ReceiptType, P!Settled
  <2>5. denials' \in [P!Receipts -> {None} \cup P!ReceiptType]
    BY <1>10, <2>2, <2>4 DEF DenialInv, P!MarkRetrying, P!Write
  <2>6. answer' \in P!AnsweringType
    BY <1>10, <2>1 DEF P!MarkRetrying, P!AnsweringType
  <2> QED BY <1>10, <2>5, <2>6 DEF DenialInv, P!MarkRetrying
<1>11. CASE P!StartRetry
  <2>1. PICK w \in Workers :
          /\ worker' = [worker EXCEPT ![w] = P!At(answer.r, P!Approved(answer.receipt))]
          /\ answer' = [answer EXCEPT !.pc = "wait", !.at = w]
    BY <1>11 DEF P!StartRetry
  <2>2. answer \in P!AnsweringType
    BY <1>11 DEF DenialInv, P!StartRetry, P!NoAnswer
  <2>3. P!At(answer.r, P!Approved(answer.receipt)) \in P!WorkType
    BY <2>2, ApprovedNamed DEF P!At, P!WorkType, P!AnsweringType, P!ReceiptType
  <2>4. answer' \in P!AnsweringType
    BY <2>1, <2>2 DEF P!AnsweringType
  <2>5. retries' \in [P!Receipts -> [started : Nat, denied : BOOLEAN]]
    BY <1>11, <2>2 DEF DenialInv, P!StartRetry, P!AnsweringType
  <2> QED BY <1>11, <2>1, <2>3, <2>4, <2>5 DEF DenialInv, P!StartRetry
<1>12. CASE P!RetryCannotStart
  <2>1. answer \in P!AnsweringType
    BY <1>12 DEF DenialInv, P!RetryCannotStart, P!NoAnswer
  <2>2. answer.r \in P!Receipts /\ answer.receipt \in P!ReceiptType
    BY <2>1 DEF P!AnsweringType
  <2>3. denials[answer.r] \in P!ReceiptType
    BY <1>12, <2>2 DEF DenialInv, P!RetryCannotStart, AnswerCurrent, Used
  <2>4. [denials[answer.r] EXCEPT !.state = "retry_failed"] \in P!ReceiptType
    BY <2>2, <2>3 DEF P!ReceiptType, P!Settled
  <2>5. denials' \in [P!Receipts -> {None} \cup P!ReceiptType]
    BY <1>12, <2>2, <2>4 DEF DenialInv, P!RetryCannotStart, P!Write
  <2> QED BY <1>12, <2>5 DEF DenialInv, P!RetryCannotStart
<1>13. CASE P!FinishRetry
  <2>1. answer \in P!AnsweringType
    BY <1>13 DEF DenialInv, P!FinishRetry, P!NoAnswer
  <2>2. answer.r \in P!Receipts /\ answer.receipt \in P!ReceiptType
    BY <2>1 DEF P!AnsweringType
  <2>3. denials[answer.r] \in P!ReceiptType
    BY <1>13, <2>2 DEF DenialInv, P!FinishRetry, AnswerCurrent, Used
  <2>4. (IF denials[answer.r].state = "retry_blocked" THEN denials[answer.r]
         ELSE [denials[answer.r] EXCEPT !.state = IF answer.code = 0 THEN "completed" ELSE "retry_failed"]) \in P!ReceiptType
    BY <2>2, <2>3 DEF P!ReceiptType, P!Settled
  <2>5. denials' \in [P!Receipts -> {None} \cup P!ReceiptType]
    BY <1>13, <2>2, <2>4 DEF DenialInv, P!FinishRetry, P!Write
  <2> QED BY <1>13, <2>5 DEF DenialInv, P!FinishRetry
<1>14. CASE P!AnswerGone
  BY <1>14 DEF DenialInv, P!AnswerGone
<1> QED
  BY <1>1, <1>2, <1>3, <1>5, <1>6, <1>7, <1>8, <1>9, <1>10, <1>11, <1>12, <1>13, <1>14 DEF P!Next

-----------------------------------------------------------------------------

\* A run's answer leaves a receipt alone, fills an empty one, or closes its own.
LEMMA ReceiptsEvolve ==
  ASSUME P!PermissionConstants, DenialInv, NEW w \in Workers, P!RunAnswers(w), NEW r \in P!Receipts
  PROVE  \/ denials'[r] = denials[r]
         \/ /\ denials[r] = None
            /\ denials'[r] \in P!ReceiptType
            /\ denials'[r].count = 0 /\ denials'[r].state = "permission_required"
         \/ /\ Used(r) /\ retries[r].started = 1 /\ denials[r] \in P!ReceiptType
            /\ denials'[r] = [denials[r] EXCEPT !.state = "retry_blocked"]
<1>1. PICK a \in Answers :
        IF worker[w].retry # None
          THEN denials' = IF a.blocked
                 THEN [denials EXCEPT ![worker[w].retry].state = "retry_blocked"] ELSE denials
          ELSE IF P!Classify(a) = {}
                 THEN denials' = denials
                 ELSE \E q \in P!Receipts :
                        denials[q] = None /\ denials' = [denials EXCEPT ![q] = P!NewReceipt(a)]
  BY DEF P!RunAnswers
<1>2. CASE worker[w].retry # None
  <2>1. Used(worker[w].retry) /\ retries[worker[w].retry].started = 1
    BY <1>2 DEF DenialInv, WorkersNamed, P!RunAnswers
  <2> QED BY <1>1, <1>2, <2>1 DEF DenialInv, P!TypeOK, Used
<1>3. CASE worker[w].retry = None
  <2>1. CASE denials' = denials
    BY <2>1
  <2>2. CASE denials' # denials
    <3>1. PICK q \in P!Receipts : denials[q] = None /\ denials' = [denials EXCEPT ![q] = P!NewReceipt(a)]
      BY <1>1, <1>3, <2>2
    <3>2. P!NewReceipt(a) \in P!ReceiptType
      BY ClassifyType
    <3>3. P!NewReceipt(a).count = 0 /\ P!NewReceipt(a).state = "permission_required"
      BY DEF P!NewReceipt
    <3> HIDE DEF P!NewReceipt
    <3> QED BY <3>1, <3>2, <3>3 DEF DenialInv, P!TypeOK
  <2> QED BY <2>1, <2>2
<1> QED BY <1>2, <1>3

LEMMA WorkerStep ==
  ASSUME P!PermissionConstants, DenialInv, P!TypeOK', NEW w \in Workers,
         P!LaunchWorker(w) \/ P!Poll(w) \/ P!RunFails(w) \/ P!RunAnswers(w)
  PROVE  OpenUntouched' /\ WorkersNamed' /\ AnswerCurrent' /\ AtMostOne'
<1>1. retries' = retries
  BY DEF P!LaunchWorker, P!Poll, P!RunFails, P!RunAnswers
<1>2. \A r \in P!Receipts :
        \/ denials'[r] = denials[r]
        \/ /\ denials[r] = None
           /\ denials'[r] \in P!ReceiptType
           /\ denials'[r].count = 0 /\ denials'[r].state = "permission_required"
        \/ /\ Used(r) /\ retries[r].started = 1 /\ denials[r] \in P!ReceiptType
           /\ denials'[r] = [denials[r] EXCEPT !.state = "retry_blocked"]
  BY ReceiptsEvolve DEF P!LaunchWorker, P!Poll, P!RunFails
<1>3. \A r \in P!Receipts :
        Used(r) => Used(r)' /\ denials'[r].caps = denials[r].caps
  <2> SUFFICES ASSUME NEW r \in P!Receipts, Used(r)
               PROVE  Used(r)' /\ denials'[r].caps = denials[r].caps
    OBVIOUS
  <2>1. CASE denials'[r] = denials[r]
    BY <1>1, <2>1 DEF Used
  <2>2. CASE denials[r] \in P!ReceiptType /\ denials'[r] = [denials[r] EXCEPT !.state = "retry_blocked"]
    <3>1. [denials[r] EXCEPT !.state = "retry_blocked"] \in P!ReceiptType
      BY <2>2 DEF P!ReceiptType, P!Settled
    <3>2. denials'[r].count = denials[r].count /\ denials'[r].caps = denials[r].caps
      BY <2>2 DEF P!ReceiptType
    <3> QED BY <1>1, <2>2, <3>1, <3>2 DEF Used, P!PermissionConstants
  <2> QED BY <1>2, <2>1, <2>2 DEF Used
<1>4. \A v \in Workers :
        worker'[v].pc = "work" /\ worker'[v].retry # None =>
          /\ worker[v].pc = "work" /\ worker[v].retry = worker'[v].retry
          /\ worker[v].caps = worker'[v].caps
  <2>1. CASE P!LaunchWorker(w)
    BY <2>1 DEF P!LaunchWorker, P!At, DenialInv, P!TypeOK
  <2>2. CASE P!Poll(w)
    <3>1. worker[w] \in P!WorkType
      BY <2>2 DEF P!Poll, DenialInv, P!TypeOK, P!Off
    <3>2. PICK quiet : worker' = [worker EXCEPT ![w].age = @ + 1, ![w].quiet = quiet]
      BY <2>2 DEF P!Poll
    <3>3. \A v \in Workers : v # w => worker'[v] = worker[v]
      BY <3>2 DEF DenialInv, P!TypeOK
    <3>4. /\ worker'[w].pc = worker[w].pc /\ worker'[w].retry = worker[w].retry
          /\ worker'[w].caps = worker[w].caps
      BY <3>1, <3>2 DEF DenialInv, P!TypeOK, P!WorkType
    <3> QED BY <3>3, <3>4
  <2>3. CASE P!RunFails(w) \/ P!RunAnswers(w)
    <3>1. worker' = [worker EXCEPT ![w] = P!Off]
      BY <2>3 DEF P!RunFails, P!RunAnswers, P!Leave
    <3>2. \A v \in Workers : worker'[v] = IF v = w THEN P!Off ELSE worker[v]
      BY <3>1 DEF DenialInv, P!TypeOK
    <3>3. P!Off.pc # "work"
      BY DEF P!Off
    <3> QED BY <3>2, <3>3
  <2> QED BY <2>1, <2>2, <2>3
<1>5. answer' = answer \/ (answer.pc = "wait" /\ answer \in P!AnsweringType
                           /\ \E code \in {0, 1, 124} : answer' = [answer EXCEPT !.pc = "back", !.code = code])
  <2>1. ASSUME NEW code \in {0, 1, 124}, P!Leave(w, code)
        PROVE  \/ answer' = answer
               \/ /\ answer.pc = "wait" /\ answer \in P!AnsweringType
                  /\ answer' = [answer EXCEPT !.pc = "back", !.code = code]
    BY <2>1 DEF P!Leave, DenialInv, P!TypeOK, P!NoAnswer
  <2>2. CASE P!LaunchWorker(w) \/ P!Poll(w)
    BY <2>2 DEF P!LaunchWorker, P!Poll
  <2>3. CASE P!RunFails(w)
    BY <2>1, <2>3 DEF P!RunFails
  <2>4. CASE P!RunAnswers(w)
    <3>1. PICK code \in {0, 1} : P!Leave(w, code)
      BY <2>4 DEF P!RunAnswers
    <3> QED BY <2>1, <3>1
  <2> QED BY <2>2, <2>3, <2>4
<1>6. OpenUntouched'
  <2> SUFFICES ASSUME NEW r \in P!Receipts,
                      denials'[r] = None
                      \/ (denials'[r].count = 0 /\ denials'[r].state = "permission_required")
               PROVE  Untouched(r)
    BY <1>1 DEF OpenUntouched, Untouched
  <2>1. ~Used(r)
    BY <1>3 DEF Used
  <2>2. denials'[r] = denials[r] \/ denials[r] = None
    BY <1>2, <2>1
  <2> QED BY <2>2 DEF DenialInv, OpenUntouched
<1>7. WorkersNamed'
  <2>1. \A v \in Workers : worker[v].pc = "work" /\ worker[v].retry # None => worker[v].retry \in P!Receipts
    BY DEF DenialInv, P!TypeOK, P!WorkType, P!Off
  <2> QED BY <1>1, <1>3, <1>4, <2>1 DEF DenialInv, WorkersNamed
<1>8. AnswerCurrent'
  <2>1. answer.pc # "off" => answer.r \in P!Receipts /\ answer.receipt \in P!ReceiptType
    BY DEF DenialInv, P!TypeOK, P!AnsweringType, P!NoAnswer
  <2>2. CASE answer' = answer
    <3>1. CASE answer.pc \in {"read", "merged"}
      <4>1. denials[answer.r] = answer.receipt /\ answer.receipt.count = 0
            /\ answer.receipt \in P!ReceiptType /\ answer.r \in P!Receipts
        BY <2>1, <3>1 DEF DenialInv, AnswerCurrent
      <4>2. denials[answer.r] # None /\ ~Used(answer.r)
        BY <4>1 DEF P!PermissionConstants, Used
      <4>3. denials'[answer.r] = denials[answer.r]
        BY <1>2, <4>1, <4>2
      <4> QED BY <2>2, <3>1, <4>3 DEF DenialInv, AnswerCurrent
    <3>2. CASE answer.pc \in {"marked", "wait", "back"}
      <4>1. Used(answer.r) /\ answer.r \in P!Receipts
        BY <2>1, <3>2 DEF DenialInv, AnswerCurrent
      <4>2. Used(answer.r)' /\ denials'[answer.r].caps = denials[answer.r].caps
        BY <1>3, <2>2, <4>1 DEF Used
      <4> QED BY <1>1, <2>2, <3>2, <4>2 DEF DenialInv, AnswerCurrent
    <3>3. CASE answer.pc \notin {"read", "merged", "marked", "wait", "back"}
      BY <2>2, <3>3 DEF AnswerCurrent
    <3> QED BY <3>1, <3>2, <3>3
  <2>3. CASE answer' # answer
    BY <1>1, <1>3, <1>5, <2>1, <2>3 DEF DenialInv, AnswerCurrent, P!AnsweringType
  <2> QED BY <2>2, <2>3
<1>9. AtMostOne'
  BY <1>1 DEF DenialInv, AtMostOne
<1> QED BY <1>6, <1>7, <1>8, <1>9

LEMMA AnswerStep ==
  ASSUME P!PermissionConstants, DenialInv, P!TypeOK',
         \/ P!ReadReceipt \/ P!Deny \/ P!MergeSettings \/ P!MarkRetrying
         \/ P!StartRetry \/ P!RetryCannotStart \/ P!FinishRetry \/ P!AnswerGone
  PROVE  OpenUntouched' /\ WorkersNamed' /\ AnswerCurrent' /\ AtMostOne'
<1> USE DEF DenialInv
<1>1. answer.pc # "off" =>
        /\ answer \in P!AnsweringType
        /\ answer.r \in P!Receipts /\ answer.receipt \in P!ReceiptType
        /\ answer.receipt # None
  BY DEF P!TypeOK, P!AnsweringType, P!NoAnswer, P!PermissionConstants
<1>2. \A v \in Workers :
        worker[v].pc = "work" /\ worker[v].retry # None => worker[v].retry \in P!Receipts
  BY DEF P!TypeOK, P!WorkType, P!Off
<1>3. P!NoAnswer.pc = "off"
  BY DEF P!NoAnswer
<1>4. CASE P!ReadReceipt
  <2>1. denials' = denials /\ worker' = worker /\ retries' = retries
    BY <1>4 DEF P!ReadReceipt
  <2>2. PICK r \in P!Receipts, decision \in {"once", "project", "deny"} :
          /\ denials[r].count = 0 /\ denials[r].state = "permission_required"
          /\ answer' = [pc |-> "read", r |-> r, decision |-> decision, receipt |-> denials[r],
                        at |-> None, code |-> 0]
    BY <1>4 DEF P!ReadReceipt
  <2>3. OpenUntouched' /\ WorkersNamed' /\ AtMostOne'
    BY <2>1 DEF OpenUntouched, Untouched, WorkersNamed, Used, AtMostOne
  <2>4. AnswerCurrent'
    BY <2>1, <2>2 DEF AnswerCurrent
  <2> QED BY <2>3, <2>4
<1>5. CASE P!Deny
  <2> DEFINE copy == [answer.receipt EXCEPT !.state = "denied"]
  <2>1. /\ answer.pc = "read" /\ answer' = P!NoAnswer /\ worker' = worker
        /\ denials' = [denials EXCEPT ![answer.r] = copy]
        /\ retries' = [retries EXCEPT ![answer.r].denied = TRUE]
    BY <1>5 DEF P!Deny, P!Write
  <2>2. copy.state = "denied" /\ copy \in P!ReceiptType
    BY <1>1, <2>1 DEF P!AnsweringType, P!ReceiptType, P!Settled
  <2> HIDE DEF copy
  <2>3. denials[answer.r].count = 0 /\ Untouched(answer.r)
    BY <1>1, <2>1 DEF AnswerCurrent, OpenUntouched
  <2>4. \A r \in P!Receipts : r # answer.r => denials'[r] = denials[r] /\ retries'[r] = retries[r]
    BY <2>1 DEF P!TypeOK
  <2>5. /\ denials'[answer.r] = copy
        /\ retries'[answer.r].started = 0 /\ retries'[answer.r].denied = TRUE
    BY <1>1, <2>1, <2>3 DEF P!TypeOK, Untouched
  <2>6. OpenUntouched'
    BY <2>2, <2>4, <2>5 DEF OpenUntouched, Untouched, P!PermissionConstants
  <2>7. WorkersNamed'
    BY <1>2, <2>1, <2>3, <2>4 DEF WorkersNamed, Used
  <2>8. AtMostOne'
    BY <2>4, <2>5 DEF AtMostOne
  <2> QED BY <1>3, <2>1, <2>6, <2>7, <2>8 DEF AnswerCurrent
<1>6. CASE P!MergeSettings
  <2>1. /\ denials' = denials /\ worker' = worker /\ retries' = retries
        /\ answer.pc = "read" /\ answer' = [answer EXCEPT !.pc = "merged"]
    BY <1>6 DEF P!MergeSettings
  <2>2. OpenUntouched' /\ WorkersNamed' /\ AtMostOne'
    BY <2>1 DEF OpenUntouched, Untouched, WorkersNamed, Used, AtMostOne
  <2>3. answer'.pc = "merged" /\ answer'.r = answer.r /\ answer'.receipt = answer.receipt
    BY <1>1, <2>1 DEF P!AnsweringType
  <2>4. AnswerCurrent'
    BY <2>1, <2>3 DEF AnswerCurrent
  <2> QED BY <2>2, <2>4
<1>7. CASE P!MarkRetrying
  <2> DEFINE copy == [answer.receipt EXCEPT !.state = "retrying", !.count = 1]
  <2>1. /\ answer.pc \in {"read", "merged"} /\ worker' = worker /\ retries' = retries
        /\ denials' = [denials EXCEPT ![answer.r] = copy]
        /\ answer' = [answer EXCEPT !.pc = "marked"]
    BY <1>7 DEF P!MarkRetrying, P!Write
  <2>2. /\ copy.count = 1 /\ copy.caps = answer.receipt.caps /\ copy \in P!ReceiptType
    BY <1>1, <2>1 DEF P!AnsweringType, P!ReceiptType, P!Settled
  <2> HIDE DEF copy
  <2>3. denials[answer.r].count = 0 /\ Untouched(answer.r)
    BY <1>1, <2>1 DEF AnswerCurrent, OpenUntouched
  <2>4. \A r \in P!Receipts : r # answer.r => denials'[r] = denials[r]
    BY <2>1 DEF P!TypeOK
  <2>5. denials'[answer.r] = copy
    BY <1>1, <2>1 DEF P!TypeOK
  <2>6. answer'.pc = "marked" /\ answer'.r = answer.r /\ answer'.receipt = answer.receipt
    BY <1>1, <2>1 DEF P!AnsweringType
  <2>7. OpenUntouched' /\ AtMostOne'
    BY <2>1, <2>3, <2>4 DEF OpenUntouched, Untouched, AtMostOne
  <2>8. WorkersNamed'
    BY <1>2, <2>1, <2>3, <2>4 DEF WorkersNamed, Used
  <2>9. AnswerCurrent'
    BY <2>1, <2>2, <2>3, <2>5, <2>6 DEF AnswerCurrent, Used, Untouched, P!PermissionConstants
  <2> QED BY <2>7, <2>8, <2>9
<1>8. CASE P!StartRetry
  <2>1. PICK w \in Workers :
          /\ worker' = [worker EXCEPT ![w] = P!At(answer.r, P!Approved(answer.receipt))]
          /\ answer' = [answer EXCEPT !.pc = "wait", !.at = w]
    BY <1>8 DEF P!StartRetry
  <2>2. /\ answer.pc = "marked" /\ denials' = denials
        /\ retries' = [retries EXCEPT ![answer.r].started = @ + 1]
    BY <1>8 DEF P!StartRetry
  <2>3. /\ Used(answer.r) /\ retries[answer.r].started = 0
        /\ denials[answer.r].caps = answer.receipt.caps
    BY <2>2 DEF AnswerCurrent
  <2>4. \A r \in P!Receipts : r # answer.r => retries'[r] = retries[r]
    BY <2>2 DEF P!TypeOK
  <2>5. retries'[answer.r].started = 1 /\ retries'[answer.r].denied = retries[answer.r].denied
    BY <1>1, <2>2, <2>3 DEF P!TypeOK
  <2>6. answer'.pc = "wait" /\ answer'.r = answer.r
    BY <1>1, <2>1, <2>2 DEF P!AnsweringType
  <2>7. OpenUntouched'
    BY <2>2, <2>3, <2>4 DEF OpenUntouched, Untouched, Used
  <2>8. WorkersNamed'
    <3> SUFFICES ASSUME NEW v \in Workers, worker'[v].pc = "work", worker'[v].retry # None
                 PROVE  /\ Used(worker[v].retry)'
                        /\ retries'[worker'[v].retry].started = 1
                        /\ worker'[v].caps \subseteq denials'[worker'[v].retry].caps
      BY DEF WorkersNamed, Used
    <3>1. CASE v = w
      <4>1. worker'[v].retry = answer.r /\ worker'[v].caps = P!Approved(answer.receipt)
        BY <2>1, <3>1 DEF P!At, P!TypeOK
      <4>2. P!Approved(answer.receipt) \subseteq answer.receipt.caps
        BY <1>1, <2>2, ApprovedNamed
      <4> QED BY <2>2, <2>3, <2>5, <4>1, <4>2 DEF Used
    <3>2. CASE v # w
      <4>1. worker'[v] = worker[v]
        BY <2>1, <3>2 DEF P!TypeOK
      <4>2. worker[v].retry # answer.r
        BY <2>3, <4>1 DEF WorkersNamed
      <4> QED BY <1>2, <2>2, <2>4, <4>1, <4>2 DEF WorkersNamed, Used
    <3> QED BY <3>1, <3>2
  <2>9. AnswerCurrent'
    BY <2>2, <2>3, <2>5, <2>6 DEF AnswerCurrent, Used
  <2>10. AtMostOne'
    BY <2>3, <2>4, <2>5 DEF AtMostOne, Used
  <2> QED BY <2>7, <2>8, <2>9, <2>10
<1>9. ASSUME NEW copy \in P!ReceiptType,
             answer.pc \in {"marked", "back"}, copy.count = 1,
             copy.caps = denials[answer.r].caps,
             denials' = [denials EXCEPT ![answer.r] = copy],
             answer' = P!NoAnswer, worker' = worker, retries' = retries
      PROVE  OpenUntouched' /\ WorkersNamed' /\ AnswerCurrent' /\ AtMostOne'
  <2>1. \A r \in P!Receipts : denials'[r] = IF r = answer.r THEN copy ELSE denials[r]
    BY <1>9 DEF P!TypeOK
  <2>2. copy # None /\ Used(answer.r) /\ answer.r \in P!Receipts
    BY <1>1, <1>9 DEF P!PermissionConstants, AnswerCurrent
  <2>3. OpenUntouched'
    BY <1>9, <2>1, <2>2 DEF OpenUntouched, Untouched
  <2>4. WorkersNamed'
    BY <1>2, <1>9, <2>1, <2>2 DEF WorkersNamed, Used
  <2>5. AtMostOne'
    BY <1>9 DEF AtMostOne
  <2> QED BY <1>3, <1>9, <2>3, <2>4, <2>5 DEF AnswerCurrent
<1>10. answer.pc \in {"marked", "back"} => denials[answer.r] \in P!ReceiptType /\ denials[answer.r].count = 1
  BY <1>1 DEF AnswerCurrent, Used, P!TypeOK
<1>11. CASE P!RetryCannotStart
  <2> DEFINE copy == [denials[answer.r] EXCEPT !.state = "retry_failed"]
  <2>1. copy \in P!ReceiptType /\ copy.count = 1 /\ copy.caps = denials[answer.r].caps
    BY <1>10, <1>11 DEF P!RetryCannotStart, P!ReceiptType, P!Settled
  <2> QED BY <1>9, <1>11, <2>1 DEF P!RetryCannotStart, P!Write
<1>12. CASE P!FinishRetry
  <2> DEFINE copy == IF denials[answer.r].state = "retry_blocked" THEN denials[answer.r]
                     ELSE [denials[answer.r] EXCEPT !.state = IF answer.code = 0 THEN "completed" ELSE "retry_failed"]
  <2>1. copy \in P!ReceiptType /\ copy.count = 1 /\ copy.caps = denials[answer.r].caps
    BY <1>10, <1>12 DEF P!FinishRetry, P!ReceiptType, P!Settled
  <2> QED BY <1>9, <1>12, <2>1 DEF P!FinishRetry, P!Write
<1>13. CASE P!AnswerGone
  <2>1. denials' = denials /\ worker' = worker /\ retries' = retries /\ answer' = P!NoAnswer
    BY <1>13 DEF P!AnswerGone
  <2> QED BY <1>3, <2>1 DEF OpenUntouched, Untouched, WorkersNamed, Used, AtMostOne, AnswerCurrent
<1> QED BY <1>4, <1>5, <1>6, <1>7, <1>8, <1>11, <1>12, <1>13

LEMMA DenialInvStep == P!PermissionConstants /\ DenialInv /\ [P!Next]_PVars => DenialInv'
<1> SUFFICES ASSUME P!PermissionConstants, DenialInv, [P!Next]_PVars PROVE DenialInv'
  OBVIOUS
<1>1. P!TypeOK'
  BY DenialTypeStep
<1>2. CASE UNCHANGED PVars
  BY <1>1, <1>2 DEF PVars, DenialInv, OpenUntouched, WorkersNamed, AnswerCurrent, AtMostOne, Untouched, Used
<1>3. ASSUME NEW w \in Workers, P!LaunchWorker(w) \/ P!Poll(w) \/ P!RunFails(w) \/ P!RunAnswers(w) PROVE DenialInv'
  BY <1>1, <1>3, WorkerStep DEF DenialInv
<1>4. CASE \/ P!ReadReceipt \/ P!Deny \/ P!MergeSettings \/ P!MarkRetrying
           \/ P!StartRetry \/ P!RetryCannotStart \/ P!FinishRetry \/ P!AnswerGone
  BY <1>1, <1>4, AnswerStep DEF DenialInv
<1> QED BY <1>2, <1>3, <1>4 DEF P!Next

LEMMA DenialInvRetriedOnce == DenialInv => P!RetriedOnce
BY DEF DenialInv, AtMostOne, WorkersNamed, P!RetriedOnce

LEMMA DenialMoves == [Next]_vars => [P!Next]_PVars
BY DEF Next, Moves, vars

\* For any number of receipts and workers: a denial of the sandbox is retried
\* at most once and never after the user denied it, and a retry has no more
\* than its receipt names, whichever call is killed (dcness-codex-permission
\* retry, and the worker that closes the receipt of its own retry).
THEOREM DenialAnsweredOnce == Spec => []RetriedOnce
<1>0. P!PermissionConstants
  BY ToolsConstants
<1>1. Init => DenialInv
  BY <1>0, DenialInit DEF Init
<1>2. DenialInv /\ [Next]_vars => DenialInv'
  BY <1>0, DenialMoves, DenialInvStep
<1>3. DenialInv => RetriedOnce
  BY DenialInvRetriedOnce DEF RetriedOnce
<1> QED BY <1>1, <1>2, <1>3, PTL DEF Spec

-----------------------------------------------------------------------------
(* The failure cache: CacheExact speaks of the files; what makes it inductive  *)
(* is what a launch holds between its failure and the write, and that a run's  *)
(* file and memory are empty until the run begins.                             *)

\* What a launch is about to record was found of its provider, in the run that
\* is current now, or in the run whose scope it has read.
RecordsAreSeen ==
  \A s \in Launches :
    /\ launches[s].pc = "record" => launches[s].p \in seen[story.run]
    /\ launches[s].pc = "write" /\ C!Active(launches[s].scope) =>
         launches[s].scope.run <= story.run /\ launches[s].p \in seen[launches[s].scope.run]

FutureIsEmpty == \A c \in C!Runs : c > story.run => files[c] = None /\ kept[c] = {}

RunExists ==
  /\ story.phase # "none" => story.run >= 1
  /\ \A s \in Launches : launches[s].pc # "off" => story.run >= 1
  /\ story.init => story.run < MaxRuns

CacheInv == C!TypeOK /\ RecordsAreSeen /\ FutureIsEmpty /\ RunExists /\ C!CacheExact

-----------------------------------------------------------------------------

\* What the chain script takes for a failure to record is an unfit provider.
LEMMA RecordableUnfit ==
  ASSUME C!CacheConstants, NEW o \in Observations, NEW p, C!Recordable(C!Emit(p, C!Classify(o)), p)
  PROVE  C!Unfit(o)
<1>1. C!Classify(o) \in C!CacheableCategories
  BY DEF C!Recordable, C!Emit
<1>2. o \in C!ObservationType
  BY DEF C!CacheConstants
<1>3. CASE o.cause # None
  BY <1>1, <1>3 DEF C!Classify, C!Unfit
<1>4. CASE o.cause = None
  <2>1. o.exit \notin {124, 130}
    BY <1>1, <1>4 DEF C!Classify, C!CacheableCategories
  <2>2. "auth" \in o.words \/ "config" \in o.words
    BY <1>1, <1>4, <2>1 DEF C!Classify, C!CacheableCategories
  <2> QED BY <1>4, <2>1, <2>2 DEF C!Unfit
<1> QED BY <1>3, <1>4

LEMMA EntriesType ==
  ASSUME C!CacheConstants, C!TypeOK, NEW c \in C!Runs
  PROVE  C!Entries(c) \subseteq Providers
BY DEF C!TypeOK, C!Entries

LEMMA CacheInit == C!CacheConstants /\ C!Init => CacheInv
BY DEF C!CacheConstants, C!Init, CacheInv, C!TypeOK, RecordsAreSeen, FutureIsEmpty, RunExists, C!CacheExact,
   C!Entries, C!Idle, C!Runs

-----------------------------------------------------------------------------
(* The story runner's steps                                                    *)

LEMMA StoryStep ==
  ASSUME C!CacheConstants, CacheInv, C!PrepareInit \/ C!SaveRun \/ C!MarkTask
  PROVE  CacheInv'
<1> USE DEF CacheInv
<1>0. MaxRuns \in Nat
  BY DEF C!CacheConstants
<1>1. CASE C!MarkTask
  <2>1. PICK phase \in {"open", "done"} : story' = [story EXCEPT !.phase = phase]
    BY <1>1 DEF C!MarkTask
  <2>2. story'.run = story.run /\ story'.init = story.init /\ story.run >= 1
    BY <1>1, <2>1 DEF C!MarkTask, C!TypeOK, RunExists
  <2>3. C!TypeOK'
    BY <1>1, <2>1 DEF C!MarkTask, C!TypeOK
  <2> QED BY <1>1, <2>2, <2>3
       DEF C!MarkTask, RecordsAreSeen, C!Active, FutureIsEmpty, RunExists, C!CacheExact, C!Entries
<1>2. CASE C!SaveRun
  <2>1. /\ story' = [run |-> story.run + 1, phase |-> "open", init |-> FALSE]
        /\ seen' = [seen EXCEPT ![story.run + 1] =
                      {launches[s].p : s \in {s \in Launches : launches[s].pc = "record"}}]
        /\ files' = files /\ launches' = launches /\ kept' = kept
    BY <1>2 DEF C!SaveRun
  <2>2. story.run \in Nat /\ story.run + 1 \in C!Runs
    BY <1>0, <1>2 DEF C!SaveRun, RunExists, C!TypeOK, C!Runs
  <2>3. \A s \in Launches : launches[s].pc = "record" => launches[s].p \in Providers
    BY DEF C!TypeOK, C!LaunchType, C!Idle
  <2>4. C!TypeOK'
    BY <2>1, <2>2, <2>3 DEF C!TypeOK, C!Runs
  <2>5. /\ seen'[story.run + 1] = {launches[s].p : s \in {s \in Launches : launches[s].pc = "record"}}
        /\ \A c \in C!Runs : c # story.run + 1 => seen'[c] = seen[c]
    BY <2>1, <2>2 DEF C!TypeOK
  <2>6. RecordsAreSeen'
    <3>1. \A s \in Launches :
            launches[s].pc = "write" /\ C!Active(launches[s].scope) => launches[s].scope.run \in C!Runs
      BY DEF C!TypeOK, C!LaunchType, C!ScopeType, C!Idle, C!Active
    <3>2. \A s \in Launches :
            launches[s].pc = "write" /\ C!Active(launches[s].scope) =>
              launches[s].scope.run <= story.run + 1 /\ launches[s].p \in seen'[launches[s].scope.run]
      BY <2>2, <2>5, <3>1 DEF RecordsAreSeen, C!Runs
    <3> QED BY <2>1, <2>5, <3>2 DEF RecordsAreSeen, C!Active
  <2>7. FutureIsEmpty' /\ RunExists'
    BY <2>1, <2>2 DEF FutureIsEmpty, RunExists, C!Runs
  <2>8. C!CacheExact'
    <3>1. C!Entries(story.run + 1) = {} /\ kept[story.run + 1] = {}
      BY <2>2 DEF FutureIsEmpty, C!Entries
    <3> QED BY <2>1, <2>5, <3>1 DEF C!CacheExact, C!Entries
  <2> QED BY <2>4, <2>6, <2>7, <2>8
<1>3. CASE C!PrepareInit
  <2>1. /\ story'.run = story.run /\ story'.init = TRUE /\ story.run < MaxRuns
        /\ story'.phase # "none" => story.phase # "none"
        /\ story' \in [run : 0 .. MaxRuns, phase : {"none", "open", "done"}, init : BOOLEAN]
    BY <1>3 DEF C!PrepareInit, C!TypeOK
  <2>2. launches' = launches /\ seen' = seen
    BY <1>3 DEF C!PrepareInit
  <2>3. \/ files' = files /\ kept' = kept
        \/ files' = [files EXCEPT ![story.run] = None] /\ kept' = [kept EXCEPT ![story.run] = {}]
    BY <1>3 DEF C!PrepareInit, C!Invalidate
  <2>4. \A c \in C!Runs :
          \/ files'[c] = files[c] /\ kept'[c] = kept[c]
          \/ files'[c] = None /\ kept'[c] = {}
    BY <2>3 DEF C!TypeOK
  <2>5. C!TypeOK'
    BY <2>1, <2>2, <2>3 DEF C!TypeOK
  <2>6. RecordsAreSeen'
    BY <2>1, <2>2 DEF RecordsAreSeen, C!Active
  <2>7. FutureIsEmpty' /\ RunExists'
    BY <2>1, <2>2, <2>4 DEF FutureIsEmpty, RunExists
  <2>8. C!CacheExact'
    BY <2>2, <2>4 DEF C!CacheExact, C!Entries
  <2> QED BY <2>5, <2>6, <2>7, <2>8
<1> QED BY <1>1, <1>2, <1>3

-----------------------------------------------------------------------------
(* The steps of a launch                                                       *)

LEMMA LaunchStep ==
  ASSUME C!CacheConstants, CacheInv, NEW s \in Launches,
         C!Launch(s) \/ C!ReadScope(s) \/ C!Check(s) \/ C!Succeeds(s) \/ C!Stops(s)
  PROVE  CacheInv'
<1> USE DEF CacheInv
<1>1. story' = story /\ files' = files /\ seen' = seen /\ kept' = kept
  BY DEF C!Launch, C!ReadScope, C!Check, C!Succeeds, C!Stops, C!Goes, C!Ends
<1>2. FutureIsEmpty' /\ C!CacheExact'
  BY <1>1 DEF FutureIsEmpty, C!CacheExact, C!Entries
<1>3. ASSUME NEW next, launches' = [launches EXCEPT ![s] = next],
             next \in {C!Idle} \cup C!LaunchType,
             next.pc # "off" => story.run >= 1,
             next.pc = "record" => next.p \in seen[story.run],
             next.pc = "write" /\ C!Active(next.scope) =>
               next.scope.run <= story.run /\ next.p \in seen[next.scope.run]
      PROVE  CacheInv'
  <2>1. \A t \in Launches : launches'[t] = IF t = s THEN next ELSE launches[t]
    BY <1>3 DEF C!TypeOK
  <2>2. C!TypeOK'
    BY <1>1, <1>3 DEF C!TypeOK
  <2>3. RecordsAreSeen' /\ RunExists'
    BY <1>1, <1>3, <2>1 DEF RecordsAreSeen, RunExists, C!Active
  <2> QED BY <1>2, <2>2, <2>3
<1>4. launches[s].pc # "off" => launches[s] \in C!LaunchType /\ story.run >= 1
  BY DEF C!TypeOK, C!Idle, RunExists
<1>5. ASSUME NEW pc \in {"start", "clear"}, launches[s].pc # "off", C!Goes(s, pc) PROVE CacheInv'
  <2>1. [launches[s] EXCEPT !.pc = pc] \in C!LaunchType /\ [launches[s] EXCEPT !.pc = pc].pc = pc
    BY <1>4, <1>5 DEF C!LaunchType
  <2>2. launches' = [launches EXCEPT ![s] = [launches[s] EXCEPT !.pc = pc]]
    BY <1>5 DEF C!Goes, C!TypeOK
  <2> QED BY <1>3, <1>4, <1>5, <2>1, <2>2
<1>6. ASSUME C!Ends(s) PROVE CacheInv'
  <2>1. C!Idle.pc = "off"
    BY DEF C!Idle
  <2> QED BY <1>3, <1>6, <2>1 DEF C!Ends
<1>7. CASE C!Launch(s)
  <2>1. PICK p \in Providers, bypass \in BOOLEAN :
          launches' = [launches EXCEPT ![s] =
            [pc |-> IF bypass THEN "start" ELSE "ask", p |-> p, bypass |-> bypass,
             scope |-> [kind |-> "none"]]]
    BY <1>7 DEF C!Launch
  <2> DEFINE next == [pc |-> IF bypass THEN "start" ELSE "ask", p |-> p, bypass |-> bypass,
                      scope |-> [kind |-> "none"]]
  <2>2. next \in C!LaunchType /\ next.pc \in {"start", "ask"}
    BY DEF C!LaunchType, C!ScopeType
  <2>3. story.run >= 1
    BY <1>7 DEF C!Launch, RunExists
  <2> HIDE DEF next
  <2>4. launches' = [launches EXCEPT ![s] = next]
    BY <2>1 DEF next
  <2> QED BY <1>3, <2>2, <2>3, <2>4
<1>8. CASE C!ReadScope(s)
  <2> DEFINE old == launches[s]
  <2> DEFINE next == [old EXCEPT !.pc = C!Locks[old.pc], !.scope = C!Scope]
  <2>1. launches' = [launches EXCEPT ![s] = next] /\ old.pc \in {"ask", "record", "clear"}
    BY <1>8 DEF C!ReadScope, C!TypeOK, C!Locks
  <2>2. old \in C!LaunchType /\ story.run >= 1
    BY <1>4, <2>1
  <2>3. C!Scope \in C!ScopeType /\ (C!Active(C!Scope) => C!Scope.run = story.run)
    BY <2>2 DEF C!Scope, C!ScopeType, C!Active, C!TypeOK, C!Runs
  <2>4. C!Locks[old.pc] \in {"check", "write", "erase"} /\ (C!Locks[old.pc] = "write" => old.pc = "record")
    BY <2>1 DEF C!Locks
  <2>5. /\ next \in C!LaunchType /\ next.pc = C!Locks[old.pc] /\ next.scope = C!Scope
        /\ next.p = old.p
    BY <2>2, <2>3, <2>4 DEF C!LaunchType
  <2>6. old.pc = "record" => old.p \in seen[story.run]
    BY DEF RecordsAreSeen
  <2>7. story.run \in Int
    BY DEF C!TypeOK
  <2> HIDE DEF next, old
  <2>8. next.pc # "off" /\ next.pc # "record"
    BY <2>4, <2>5
  <2>9. next.pc = "write" /\ C!Active(next.scope) =>
          next.scope.run <= story.run /\ next.p \in seen[next.scope.run]
    BY <2>3, <2>4, <2>5, <2>6, <2>7
  <2> HIDE DEF CacheInv
  <2> QED BY <1>3, <2>1, <2>2, <2>5, <2>8, <2>9
<1>9. CASE C!Check(s)
  BY <1>5, <1>6, <1>9 DEF C!Check
<1>10. CASE C!Succeeds(s)
  BY <1>5, <1>6, <1>10 DEF C!Succeeds
<1>11. CASE C!Stops(s)
  BY <1>6, <1>11 DEF C!Stops
<1> QED BY <1>7, <1>8, <1>9, <1>10, <1>11

LEMMA FailsStep ==
  ASSUME C!CacheConstants, CacheInv, NEW s \in Launches, C!Fails(s)
  PROVE  CacheInv'
<1> USE DEF CacheInv
<1>1. launches[s].pc = "start" /\ story' = story /\ files' = files /\ kept' = kept
  BY DEF C!Fails
<1>2. launches[s] \in C!LaunchType /\ story.run \in C!Runs /\ launches[s].p \in Providers
  BY <1>1 DEF C!TypeOK, C!Idle, RunExists, C!LaunchType, C!Runs
<1>3. PICK o \in Observations, clean \in BOOLEAN :
        LET p == launches[s].p
            records == clean /\ ~launches[s].bypass /\ C!Recordable(C!Emit(p, C!Classify(o)), p)
        IN /\ IF records THEN C!Goes(s, "record") ELSE C!Ends(s)
           /\ seen' = IF clean /\ C!Unfit(o) THEN [seen EXCEPT ![story.run] = @ \cup {p}] ELSE seen
  BY DEF C!Fails
<1>4. seen' \in [C!Runs -> SUBSET Providers] /\ \A c \in C!Runs : seen[c] \subseteq seen'[c]
  BY <1>2, <1>3 DEF C!TypeOK
<1>5. \A t \in Launches : t # s => launches'[t] = launches[t]
  BY <1>3 DEF C!Goes, C!Ends, C!TypeOK
<1>6. \/ launches'[s] = C!Idle
      \/ /\ launches'[s] \in C!LaunchType /\ launches'[s].pc = "record"
         /\ launches'[s].p \in seen'[story.run]
  <2>1. CASE clean /\ ~launches[s].bypass /\ C!Recordable(C!Emit(launches[s].p, C!Classify(o)), launches[s].p)
    <3>1. launches'[s] = [launches[s] EXCEPT !.pc = "record"]
      BY <1>3, <2>1 DEF C!Goes, C!TypeOK
    <3>2. launches'[s] \in C!LaunchType /\ launches'[s].pc = "record" /\ launches'[s].p = launches[s].p
      BY <1>2, <3>1 DEF C!LaunchType
    <3>3. seen' = [seen EXCEPT ![story.run] = @ \cup {launches[s].p}]
      BY <1>3, <2>1, RecordableUnfit
    <3> QED BY <1>2, <3>2, <3>3 DEF C!TypeOK
  <2>2. CASE ~(clean /\ ~launches[s].bypass /\ C!Recordable(C!Emit(launches[s].p, C!Classify(o)), launches[s].p))
    BY <1>3, <2>2 DEF C!Ends, C!TypeOK
  <2> QED BY <2>1, <2>2
<1>7. C!TypeOK'
  <2>1. launches' \in [Launches -> {C!Idle} \cup C!LaunchType]
    <3>1. launches' = [t \in Launches |-> launches'[t]]
      BY <1>3 DEF C!Goes, C!Ends, C!TypeOK
    <3>2. \A t \in Launches : launches'[t] \in {C!Idle} \cup C!LaunchType
      BY <1>5, <1>6 DEF C!TypeOK
    <3> QED BY <3>1, <3>2
  <2> QED BY <1>1, <1>4, <2>1 DEF C!TypeOK
<1>8. RecordsAreSeen'
  <2>1. \A t \in Launches :
          launches[t].pc = "write" /\ C!Active(launches[t].scope) => launches[t].scope.run \in C!Runs
    BY DEF C!TypeOK, C!LaunchType, C!ScopeType, C!Idle, C!Active
  <2>2. \A t \in Launches \ {s} :
          /\ launches'[t].pc = "record" => launches'[t].p \in seen'[story.run]
          /\ launches'[t].pc = "write" /\ C!Active(launches'[t].scope) =>
               /\ launches'[t].scope.run <= story.run
               /\ launches'[t].p \in seen'[launches'[t].scope.run]
    BY <1>2, <1>4, <1>5, <2>1 DEF RecordsAreSeen
  <2>3. C!Idle.pc = "off"
    BY DEF C!Idle
  <2> QED BY <1>1, <1>6, <2>2, <2>3 DEF RecordsAreSeen, C!Active
<1>9. FutureIsEmpty' /\ RunExists'
  BY <1>1, <1>2, <1>5 DEF FutureIsEmpty, RunExists, C!Runs
<1>10. C!CacheExact'
  BY <1>1, <1>4 DEF C!CacheExact, C!Entries
<1> QED BY <1>7, <1>8, <1>9, <1>10

\* A call that writes the cache file of one run, or none.
LEMMA FileStep ==
  ASSUME C!CacheConstants, CacheInv, story' = story, seen' = seen,
         NEW c \in C!Runs, c <= story.run,
         NEW file \in {None, Damaged} \cup SUBSET Providers, NEW memory \in SUBSET Providers,
         \/ files' = files /\ kept' = kept
         \/ files' = [files EXCEPT ![c] = file] /\ kept' = [kept EXCEPT ![c] = memory],
         LET entries == IF file \in {None, Damaged} THEN {} ELSE file
         IN memory \subseteq entries /\ entries \subseteq seen[c],
         \/ launches' = launches
         \/ \E s \in Launches : C!Ends(s)
  PROVE  CacheInv'
<1> USE DEF CacheInv
<1>1. \A t \in Launches : launches'[t] = C!Idle \/ launches'[t] = launches[t]
  BY DEF C!Ends, C!TypeOK
<1>2. C!TypeOK'
  BY DEF C!TypeOK, C!Ends
<1>3. RecordsAreSeen' /\ RunExists'
  BY <1>1 DEF RecordsAreSeen, RunExists, C!Active, C!Idle
<1>4. \A d \in C!Runs :
        \/ files'[d] = files[d] /\ kept'[d] = kept[d]
        \/ d = c /\ files'[d] = file /\ kept'[d] = memory
  BY DEF C!TypeOK
<1>5. FutureIsEmpty'
  BY <1>4 DEF FutureIsEmpty, C!Runs, C!TypeOK, C!CacheConstants
<1>6. C!CacheExact'
  BY <1>4 DEF C!CacheExact, C!Entries
<1> QED BY <1>2, <1>3, <1>5, <1>6

LEMMA CacheStep ==
  ASSUME C!CacheConstants, CacheInv, NEW s \in Launches, C!RecordFailure(s) \/ C!ClearCachedFailure(s)
  PROVE  CacheInv'
<1> USE DEF CacheInv
<1>1. story' = story /\ seen' = seen /\ C!Ends(s)
  BY DEF C!RecordFailure, C!ClearCachedFailure
<1>2. launches[s] \in C!LaunchType /\ story.run \in C!Runs /\ launches[s].p \in Providers
  BY DEF C!RecordFailure, C!ClearCachedFailure, C!TypeOK, C!Idle, RunExists, C!LaunchType, C!Runs
<1>3. CASE files' = files /\ kept' = kept
  <2> DEFINE c == story.run  file == None  memory == {}
  <2>1. c \in C!Runs /\ c <= story.run
    BY <1>2 DEF C!Runs
  <2>2. file \in {None, Damaged} /\ memory \in SUBSET Providers /\ memory = {}
    OBVIOUS
  <2> HIDE DEF CacheInv, c, file, memory
  <2> QED BY <1>1, <1>3, <2>1, <2>2, FileStep
<1>4. CASE C!RecordFailure(s) /\ C!Active(launches[s].scope)
  <2> DEFINE c == launches[s].scope.run
             file == C!Entries(c) \cup {launches[s].p}
             memory == kept[c] \cup {launches[s].p}
  <2>1. c \in C!Runs /\ c <= story.run /\ launches[s].p \in seen[c]
    BY <1>2, <1>4 DEF C!RecordFailure, RecordsAreSeen, C!Active, C!LaunchType, C!ScopeType
  <2>2. files' = [files EXCEPT ![c] = file] /\ kept' = [kept EXCEPT ![c] = memory]
    BY <1>4, <2>1 DEF C!RecordFailure, C!TypeOK
  <2>3. file \in SUBSET Providers /\ memory \in SUBSET Providers
    BY <1>2, <2>1, EntriesType DEF C!TypeOK
  <2>4. memory \subseteq file /\ file \subseteq seen[c] /\ file \notin {None, Damaged}
    BY <2>1, <2>3 DEF C!CacheExact, C!CacheConstants
  <2> HIDE DEF CacheInv, c, file, memory
  <2> QED BY <1>1, <2>1, <2>2, <2>3, <2>4, FileStep
<1>5. CASE C!ClearCachedFailure(s) /\ launches[s].scope.kind = "run" /\ launches[s].p \in C!Entries(launches[s].scope.run)
  <2> DEFINE c == launches[s].scope.run
             file == C!Without(c, launches[s].p)
             memory == kept[c] \ {launches[s].p}
  <2>1. c \in C!Runs
    BY <1>2, <1>5 DEF C!LaunchType, C!ScopeType
  <2>2. c <= story.run
    BY <1>2, <1>5, <2>1 DEF FutureIsEmpty, C!Entries, C!Runs
  <2>3. files' = [files EXCEPT ![c] = file] /\ kept' = [kept EXCEPT ![c] = memory]
    BY <1>5, <2>1 DEF C!ClearCachedFailure, C!TypeOK
  <2>4. file \in {None, Damaged} \cup SUBSET Providers /\ memory \in SUBSET Providers
    BY <2>1, EntriesType DEF C!TypeOK, C!Without
  <2>5. kept[c] \subseteq C!Entries(c) /\ C!Entries(c) \subseteq seen[c] /\ C!Entries(c) \subseteq Providers
    BY <2>1, EntriesType DEF C!CacheExact
  <2>6. CASE C!Entries(c) = {launches[s].p}
    <3>1. file = None /\ memory = {}
      BY <2>5, <2>6 DEF C!Without
    <3> HIDE DEF CacheInv, c, file, memory
    <3> QED BY <1>1, <2>1, <2>2, <2>3, <2>4, <3>1, FileStep
  <2>7. CASE C!Entries(c) # {launches[s].p}
    <3>1. file = C!Entries(c) \ {launches[s].p} /\ file \notin {None, Damaged}
      BY <2>5, <2>7 DEF C!Without, C!CacheConstants
    <3>2. memory \subseteq file /\ file \subseteq seen[c]
      BY <2>5, <3>1
    <3> HIDE DEF CacheInv, c, file, memory
    <3> QED BY <1>1, <2>1, <2>2, <2>3, <2>4, <3>1, <3>2, FileStep
  <2> QED BY <2>6, <2>7
<1> QED BY <1>3, <1>4, <1>5 DEF C!RecordFailure, C!ClearCachedFailure

LEMMA DamageStep ==
  ASSUME C!CacheConstants, CacheInv, NEW c \in C!Runs, C!Damage(c)
  PROVE  CacheInv'
<1>1. c <= story.run
  BY DEF CacheInv, C!Damage, FutureIsEmpty, C!Runs, C!TypeOK
<1>2. /\ files' = [files EXCEPT ![c] = Damaged] /\ kept' = [kept EXCEPT ![c] = {}]
      /\ story' = story /\ seen' = seen /\ launches' = launches
  BY DEF C!Damage
<1> DEFINE file == Damaged  memory == {}
<1>3. file \in {None, Damaged} /\ memory \in SUBSET Providers /\ memory = {}
  OBVIOUS
<1>4. files' = [files EXCEPT ![c] = file] /\ kept' = [kept EXCEPT ![c] = memory]
  BY <1>2
<1> HIDE DEF file, memory
<1> QED BY <1>1, <1>2, <1>3, <1>4, FileStep

-----------------------------------------------------------------------------

LEMMA CacheInvStep == C!CacheConstants /\ CacheInv /\ [C!Next]_CVars => CacheInv'
<1> SUFFICES ASSUME C!CacheConstants, CacheInv, [C!Next]_CVars PROVE CacheInv'
  OBVIOUS
<1>1. CASE UNCHANGED CVars
  BY <1>1 DEF CVars, CacheInv, C!TypeOK, RecordsAreSeen, FutureIsEmpty, RunExists, C!CacheExact, C!Entries, C!Active
<1>2. CASE C!PrepareInit \/ C!SaveRun \/ C!MarkTask
  BY <1>2, StoryStep
<1>3. ASSUME NEW s \in Launches,
             C!Launch(s) \/ C!ReadScope(s) \/ C!Check(s) \/ C!Succeeds(s) \/ C!Stops(s)
      PROVE  CacheInv'
  BY <1>3, LaunchStep
<1>4. ASSUME NEW s \in Launches, C!Fails(s) PROVE CacheInv'
  BY <1>4, FailsStep
<1>5. ASSUME NEW s \in Launches, C!RecordFailure(s) \/ C!ClearCachedFailure(s) PROVE CacheInv'
  BY <1>5, CacheStep
<1>6. ASSUME NEW c \in C!Runs, C!Damage(c) PROVE CacheInv'
  BY <1>6, DamageStep
<1> QED BY <1>1, <1>2, <1>3, <1>4, <1>5, <1>6 DEF C!Next

LEMMA CacheMoves == [Next]_vars => [C!Next]_CVars
BY DEF Next, Moves, vars

\* For any launches, runs and providers: the cache of a run holds what was
\* recorded for it and not since cleared, and only providers found unfit
\* before any change and by no limit or signal (harness/provider_failure_cache.py,
\* record_failure, clear_cached_failure and _load_failure).
THEOREM CacheIsMemory == Spec => []CacheExact
<1>0. C!CacheConstants
  BY ToolsConstants
<1>1. Init => CacheInv
  BY <1>0, CacheInit DEF Init
<1>2. CacheInv /\ [Next]_vars => CacheInv'
  BY <1>0, CacheMoves, CacheInvStep
<1>3. CacheInv => CacheExact
  BY DEF CacheInv, CacheExact
<1> QED BY <1>1, <1>2, <1>3, PTL DEF Spec

-----------------------------------------------------------------------------
(* The issues of an epic: only the script that wrote the epic's number makes   *)
(* stories, one after the other; and a registration that still holds the item  *)
(* it looked up or added finds no field empty that was not empty then.         *)

BoardTyped ==
  /\ stories \in [I!Parts -> Nat]
  /\ issues \in Seq(I!Parts) /\ Len(issues) <= MaxIssues
  /\ board \in [1..MaxIssues -> {None} \cup [I!Fields -> I!Values]]
  /\ creating \in {None} \cup I!ScriptType
  /\ reg \in {None} \cup I!CallType

\* Each number that stories.md or the script holds is that of an issue made.
NumbersMade ==
  /\ \A p \in I!Parts : stories[p] # 0 => stories[p] \in DOMAIN issues /\ issues[stories[p]] = p
  /\ creating # None => creating.todo \subseteq DOMAIN issues
  /\ reg # None => reg.issue \in DOMAIN issues

Making == creating # None /\ creating.step \in {"create", "write"}

\* Stories come after the epic's number is written.
EpicFirst ==
  stories[0] = 0 =>
    /\ \A n \in DOMAIN issues : issues[n] = 0
    /\ Making => creating.part = 0

\* A script is at the first story without an issue, or has just made its issue.
StoriesInOrder ==
  /\ \A n, k \in DOMAIN issues : issues[n] = issues[k] /\ issues[n] # 0 => n = k
  /\ Making =>
       \A n \in DOMAIN issues :
         issues[n] # 0 => \/ issues[n] < creating.part
                          \/ creating.step = "write" /\ n = Len(issues)
  /\ Making /\ creating.step = "write" =>
       Len(issues) # 0 /\ issues[Len(issues)] = creating.part

\* A script that made the issues registers them when the last is there.
FreshAtTheEnd ==
  creating # None /\ creating.step = "register" /\ creating.fresh => creating.part = NumStories

\* A call holds an item with no field empty that its first look did not show
\* empty, or one that was taken off the board since and has no type.
CallOwn ==
  reg # None =>
    /\ creating # None /\ creating.step = "register"
    /\ ~creating.fresh => reg.preserve
    /\ reg.step = "add" => reg.before = None
    /\ reg.preserve => \A f \in reg.sets : f # "IssueType" => I!Field(reg.before, f) = None
    /\ reg.step = "set" /\ reg.held =>
         /\ board[reg.issue] # None
         /\ \A f \in I!Fields : I!Field(reg.before, f) # None => board[reg.issue][f] # None
    /\ reg.step = "set" /\ ~reg.held =>
         board[reg.issue] = None \/ board[reg.issue]["IssueType"] = None

IssuesInv ==
  BoardTyped /\ NumbersMade /\ EpicFirst /\ StoriesInOrder /\ FreshAtTheEnd /\ CallOwn

LEMMA BoardParts ==
  ASSUME I!BoardConstants
  PROVE  0 \in I!Parts /\ I!Parts \subseteq Nat /\ NumStories \in I!Parts
BY DEF I!BoardConstants, I!Parts

LEMMA NoneApart ==
  ASSUME I!BoardConstants
  PROVE  /\ None \notin I!ScriptType /\ None \notin I!CallType
         /\ None \notin [I!Fields -> I!Values] /\ None \notin I!Choices
BY DEF I!BoardConstants

LEMMA IssuesInit == I!BoardConstants /\ I!Init => IssuesInv
BY BoardParts DEF I!Init, IssuesInv, BoardTyped, FreshAtTheEnd, CallOwn, NumbersMade, EpicFirst, StoriesInOrder, Making,
   I!Blank, I!BoardConstants

\* What a script and a registration may hold: they differ from None.
LEMMA BoardRecords ==
  ASSUME I!BoardConstants, IssuesInv
  PROVE  /\ creating # None => creating \in I!ScriptType
         /\ reg # None => reg \in I!CallType
BY DEF IssuesInv, BoardTyped

LEMMA ScriptStep ==
  ASSUME I!BoardConstants, IssuesInv,
         I!BeginScript \/ I!CreateIssue \/ I!WriteNumber \/ I!EndScript
  PROVE  IssuesInv'
<1> USE DEF IssuesInv
<1>1. CASE I!BeginScript
  <2>1. I!Numbers \subseteq DOMAIN issues /\ I!Numbers \subseteq Nat
    BY <1>1 DEF I!Numbers, NumbersMade, BoardTyped
  <2> DEFINE again == [step |-> "register", fresh |-> FALSE, part |-> 0, todo |-> I!Numbers]
             first == [step |-> "create", fresh |-> TRUE, part |-> 0, todo |-> {}]
  <2>2. again \in I!ScriptType /\ first \in I!ScriptType
    BY <2>1, BoardParts DEF I!ScriptType
  <2>3. creating' = IF stories[0] # 0 THEN again ELSE first
    BY <1>1 DEF I!BeginScript
  <2>4. UNCHANGED <<stories, issues, board, reg>>
    BY <1>1 DEF I!BeginScript
  <2>5. BoardTyped'
    BY <2>2, <2>3, <2>4 DEF BoardTyped
  <2>6. NumbersMade'
    BY <2>1, <2>3, <2>4 DEF NumbersMade
  <2>7. EpicFirst' /\ StoriesInOrder' /\ FreshAtTheEnd'
    BY <2>3, <2>4 DEF EpicFirst, StoriesInOrder, Making, FreshAtTheEnd
  <2>8. CallOwn'
    BY <1>1, <2>4 DEF CallOwn, I!BeginScript
  <2> QED BY <2>5, <2>6, <2>7, <2>8
<1>2. CASE I!CreateIssue
  <2> DEFINE part == creating.part
             next == [creating EXCEPT !.step = "write", !.todo = @ \cup {Len(issues) + 1}]
  <2>1. creating \in I!ScriptType /\ creating.step = "create" /\ Len(issues) < MaxIssues
    BY <1>2, BoardRecords DEF I!CreateIssue, I!At
  <2>2. /\ issues' = Append(issues, part) /\ part \in I!Parts /\ issues \in Seq(I!Parts)
        /\ creating' = next
        /\ UNCHANGED <<stories, board, reg>>
    BY <1>2, <2>1 DEF I!CreateIssue, I!ScriptType, BoardTyped
  <2>3. /\ issues' \in Seq(I!Parts) /\ Len(issues') = Len(issues) + 1
        /\ \A n \in DOMAIN issues : n \in DOMAIN issues' /\ issues'[n] = issues[n]
        /\ issues'[Len(issues) + 1] = part
        /\ DOMAIN issues' = DOMAIN issues \cup {Len(issues) + 1}
        /\ Len(issues) + 1 \notin DOMAIN issues /\ Len(issues) \in Nat
    BY <2>2
  <2>a. creating.todo \cup {Len(issues) + 1} \in SUBSET Nat
    BY <2>1, <2>3 DEF I!ScriptType
  <2>b. /\ next \in I!ScriptType /\ next.step = "write" /\ next.part = part
        /\ next.todo = creating.todo \cup {Len(issues) + 1}
    BY <2>1, <2>a DEF I!ScriptType
  <2>4. /\ next \in I!ScriptType /\ next.step = "write" /\ next.part = part
        /\ next.todo = creating.todo \cup {Len(issues) + 1} /\ next # None
    BY <2>b, NoneApart
  <2>5. Making
    BY <1>2, <2>1 DEF Making, I!CreateIssue, I!At
  <2> HIDE DEF next, part
  <2>6. BoardTyped'
    BY <2>1, <2>2, <2>3, <2>4 DEF BoardTyped, I!BoardConstants
  <2>7. NumbersMade'
    BY <2>2, <2>3, <2>4, <1>2 DEF NumbersMade, I!CreateIssue, I!At
  <2>8. EpicFirst'
    BY <2>2, <2>3, <2>4, <2>5 DEF EpicFirst, Making, part
  <2>9. \A n \in DOMAIN issues : issues[n] # 0 => issues[n] < part
    BY <2>1, <2>5 DEF StoriesInOrder, part
  <2>10. \A n \in DOMAIN issues : issues[n] \in Nat
    BY <2>2, BoardParts
  <2>11. \A n \in DOMAIN issues : issues'[n] # 0 => issues'[n] # part
    BY <2>2, <2>3, <2>9, <2>10, BoardParts
  <2>12. \A n, k \in DOMAIN issues' : issues'[n] = issues'[k] /\ issues'[n] # 0 => n = k
    BY <2>3, <2>11 DEF StoriesInOrder
  <2>13. StoriesInOrder'
    BY <2>2, <2>3, <2>4, <2>9, <2>12 DEF StoriesInOrder, Making
  <2>14. FreshAtTheEnd' /\ CallOwn'
    BY <2>1, <2>2, <2>4 DEF FreshAtTheEnd, CallOwn
  <2> QED BY <2>6, <2>7, <2>8, <2>13, <2>14
<1>3. CASE I!WriteNumber
  <2> DEFINE part == creating.part
             next == IF part = NumStories THEN [creating EXCEPT !.step = "register"]
                     ELSE [creating EXCEPT !.step = "create", !.part = part + 1]
  <2>1. creating \in I!ScriptType /\ creating.step = "write" /\ part \in I!Parts /\ creating # None
    BY <1>3, BoardRecords DEF I!WriteNumber, I!At, I!ScriptType
  <2>2. /\ stories' = [stories EXCEPT ![part] = Len(issues)] /\ creating' = next
        /\ UNCHANGED <<issues, board, reg>>
    BY <1>3 DEF I!WriteNumber
  <2>3. /\ next \in I!ScriptType /\ next.todo = creating.todo
        /\ \/ part = NumStories /\ next.step = "register"
           \/ next.step = "create" /\ next.part = part + 1
    <3>1. CASE part = NumStories
      BY <2>1, <3>1 DEF I!ScriptType
    <3>2. CASE part # NumStories
      <4>1. part + 1 \in I!Parts
        BY <2>1, <3>2 DEF I!Parts, I!BoardConstants
      <4> QED BY <2>1, <3>2, <4>1 DEF I!ScriptType
    <3> QED BY <3>1, <3>2
  <2>12a. next.step = "register" => next.part = NumStories
    BY <2>1 DEF I!ScriptType
  <2>4. Making
    BY <2>1 DEF Making
  <2>5. Len(issues) # 0 /\ Len(issues) \in DOMAIN issues /\ issues[Len(issues)] = part
        /\ Len(issues) \in Nat
    BY <2>1, <2>4 DEF StoriesInOrder, BoardTyped
  <2>6. \A p \in I!Parts : stories'[p] = IF p = part THEN Len(issues) ELSE stories[p]
    BY <2>1, <2>2 DEF BoardTyped
  <2> HIDE DEF next, part
  <2>7. BoardTyped'
    BY <2>2, <2>3, <2>5 DEF BoardTyped
  <2>8. NumbersMade'
    BY <2>1, <2>2, <2>3, <2>5, <2>6 DEF NumbersMade
  <2>9. EpicFirst'
    <3>1. CASE part = 0
      BY <2>5, <2>6, <3>1, BoardParts DEF EpicFirst
    <3>2. CASE part # 0
      BY <2>1, <2>4, <2>6, <3>2, BoardParts DEF EpicFirst, part
    <3> QED BY <3>1, <3>2
  <2>10. \A n \in DOMAIN issues : issues[n] # 0 => issues[n] < part + 1
    BY <2>1, <2>4, <2>5, BoardParts DEF StoriesInOrder, BoardTyped, part
  <2>11. StoriesInOrder'
    BY <2>2, <2>3, <2>10 DEF StoriesInOrder, Making
  <2>12. FreshAtTheEnd' /\ CallOwn'
    BY <2>1, <2>2, <2>12a DEF FreshAtTheEnd, CallOwn
  <2> QED BY <2>7, <2>8, <2>9, <2>11, <2>12
<1>4. CASE I!EndScript
  BY <1>4 DEF I!EndScript, BoardTyped, NumbersMade, EpicFirst, StoriesInOrder, Making,
     FreshAtTheEnd, CallOwn
<1> QED BY <1>1, <1>2, <1>3, <1>4

-----------------------------------------------------------------------------
(* The registration of an issue.                                               *)

LEMMA FieldOfItem ==
  ASSUME I!BoardConstants, NEW item \in {None} \cup [I!Fields -> I!Values], NEW f \in I!Fields
  PROVE  /\ item # None => I!Field(item, f) = item[f]
         /\ item = None => I!Field(item, f) = None
BY DEF I!Field

LEMMA ExpectedValue ==
  ASSUME I!BoardConstants, NEW part, NEW f \in I!Fields
  PROVE  I!Expected(part)[f] \in I!Values /\ I!Expected(part)[f] # None
<1>1. I!TypeOf(part) \in {"epic", "story"}
  BY DEF I!TypeOf
<1> HIDE DEF I!TypeOf
<1>2. f \in {"Status", "IssueType", "Priority"}
  BY DEF I!Fields
<1>3. I!Expected(part)[f] \in I!Choices
  <2>1. /\ I!Expected(part)["Status"] = "Todo" /\ I!Expected(part)["Priority"] = "major"
        /\ I!Expected(part)["IssueType"] = I!TypeOf(part)
    BY DEF I!Expected
  <2> HIDE DEF I!Expected
  <2> QED BY <1>1, <1>2, <2>1 DEF I!Choices
<1> QED BY <1>3, NoneApart DEF I!Values

\* A step of a call, or a person's: it changes the item of one issue.
LEMMA CallStep ==
  ASSUME I!BoardConstants, IssuesInv,
         \/ I!BeginRegister \/ I!AddItem \/ I!SetField \/ I!EndRegister \/ I!RegisterFails
         \/ \E n \in Triaged : I!Triage(n) \/ I!Place(n)
  PROVE  IssuesInv'
<1> USE DEF IssuesInv
<1> DEFINE Items == {None} \cup [I!Fields -> I!Values]
<1>1. UNCHANGED <<stories, issues>>
  BY DEF I!BeginRegister, I!AddItem, I!SetField, I!EndRegister, I!RegisterFails, I!Triage, I!Place
<1>2. reg # None => /\ reg \in I!CallType /\ reg.issue \in DOMAIN issues
                    /\ reg.issue \in 1..MaxIssues
                    /\ board[reg.issue] \in Items
  BY BoardRecords DEF NumbersMade, BoardTyped, I!BoardConstants
<1>3. ASSUME creating' = creating, board' \in [1..MaxIssues -> Items],
             reg' \in {None} \cup I!CallType,
             reg' # None => reg'.issue \in DOMAIN issues,
             CallOwn'
      PROVE  IssuesInv'
  BY <1>1, <1>3 DEF BoardTyped, NumbersMade, EpicFirst, StoriesInOrder, Making, FreshAtTheEnd
<1>4. CASE I!BeginRegister
  <2> DEFINE call(n) == [issue |-> n, step |-> IF board[n] = None THEN "add" ELSE "set",
                  held |-> board[n] # None, before |-> board[n], preserve |-> ~creating.fresh,
                  sets |-> I!SetsIn(board[n], issues[n], ~creating.fresh)]
  <2>1. PICK n \in creating.todo : reg' = call(n)
    BY <1>4 DEF I!BeginRegister
  <2>2. /\ creating \in I!ScriptType /\ n \in DOMAIN issues
        /\ creating # None /\ creating.step = "register"
    BY <1>4, BoardRecords DEF I!BeginRegister, I!At, NumbersMade
  <2>3. n \in 1..MaxIssues /\ n \in Nat
    BY <2>2 DEF BoardTyped, I!BoardConstants
  <2>4. /\ board[n] \in Items
        /\ I!SetsIn(board[n], issues[n], ~creating.fresh) \in SUBSET I!Fields
    BY <2>3 DEF BoardTyped, I!SetsIn
  <2>5. creating' = creating /\ board' = board
    BY <1>4 DEF I!BeginRegister
  <2>6. call(n) \in I!CallType /\ call(n).issue = n
    BY <2>2, <2>3, <2>4 DEF I!CallType, I!ScriptType
  <2>7. ~creating.fresh =>
          \A f \in I!SetsIn(board[n], issues[n], ~creating.fresh) :
            f # "IssueType" => I!Field(board[n], f) = None
    BY DEF I!SetsIn, I!NeedsSet
  <2>8. \A f \in I!Fields : I!Field(board[n], f) # None => board[n] # None /\ board[n][f] # None
    BY DEF I!Field
  <2>9. /\ call(n).step = (IF board[n] = None THEN "add" ELSE "set")
        /\ call(n).held = (board[n] # None)
        /\ call(n).before = board[n] /\ call(n).preserve = ~creating.fresh
        /\ call(n).sets = I!SetsIn(board[n], issues[n], ~creating.fresh)
    OBVIOUS
  <2> HIDE DEF call
  <2>10. CallOwn'
    BY <2>1, <2>2, <2>5, <2>6, <2>7, <2>8, <2>9 DEF CallOwn
  <2> QED BY <1>3, <2>1, <2>2, <2>5, <2>6, <2>10 DEF BoardTyped
<1>5. CASE I!AddItem
  <2>1. reg # None /\ reg.step = "add" /\ creating' = creating
        /\ reg' = [reg EXCEPT !.step = "set", !.held = TRUE]
    BY <1>5 DEF I!AddItem, I!Doing
  <2>2. /\ reg' \in I!CallType /\ reg'.issue = reg.issue
        /\ reg'.step = "set" /\ reg'.held = TRUE /\ reg'.before = reg.before
        /\ reg'.preserve = reg.preserve /\ reg'.sets = reg.sets
    BY <1>2, <2>1 DEF I!CallType
  <2>3. PICK s \in {None, "Todo"} :
          board' = [board EXCEPT ![reg.issue] =
                      IF @ = None THEN [I!Blank EXCEPT !.Status = s] ELSE @]
    BY <1>5 DEF I!AddItem
  <2>4. [I!Blank EXCEPT !.Status = s] \in [I!Fields -> I!Values]
    BY DEF I!Blank, I!Values, I!Choices, I!Fields
  <2>5. board' \in [1..MaxIssues -> Items] /\ board'[reg.issue] # None
    BY <1>2, <2>1, <2>3, <2>4, NoneApart DEF BoardTyped
  <2>6. reg.before = None
    BY <2>1 DEF CallOwn
  <2>7. \A f \in I!Fields : I!Field(reg'.before, f) = None
    BY <2>2, <2>6 DEF I!Field
  <2>8. CallOwn'
    BY <2>1, <2>2, <2>5, <2>7 DEF CallOwn, I!Field
  <2> QED BY <1>2, <1>3, <2>1, <2>2, <2>5, <2>8
<1>6. CASE I!SetField
  <2>1. PICK f \in reg.sets :
          /\ board' = [board EXCEPT ![reg.issue][f] = I!Expected(issues[reg.issue])[f]]
          /\ reg' = [reg EXCEPT !.sets = @ \ {f}]
    BY <1>6 DEF I!SetField
  <2>2. reg # None /\ reg.step = "set" /\ reg.held /\ creating' = creating
    BY <1>6 DEF I!SetField, I!Doing
  <2>3. /\ reg' \in I!CallType /\ reg'.issue = reg.issue /\ f \in I!Fields
        /\ reg'.step = "set" /\ reg'.held = reg.held /\ reg'.before = reg.before
        /\ reg'.preserve = reg.preserve /\ reg'.sets = reg.sets \ {f}
    BY <1>2, <2>1, <2>2 DEF I!CallType
  <2>4. /\ I!Expected(issues[reg.issue])[f] \in I!Values
        /\ I!Expected(issues[reg.issue])[f] # None
    BY <2>3, ExpectedValue
  <2>5. board[reg.issue] \in [I!Fields -> I!Values]
    BY <1>2, <2>2 DEF CallOwn
  <2> DEFINE value == I!Expected(issues[reg.issue])[f]
             item == [board[reg.issue] EXCEPT ![f] = value]
  <2>6. board' = [board EXCEPT ![reg.issue] = item]
    BY <1>2, <2>1, <2>2 DEF BoardTyped
  <2> HIDE DEF value
  <2>7. item \in [I!Fields -> I!Values] /\ \A g \in I!Fields : item[g] = IF g = f THEN value ELSE board[reg.issue][g]
    BY <2>3, <2>4, <2>5 DEF value
  <2> HIDE DEF item
  <2>8. board' \in [1..MaxIssues -> Items] /\ board'[reg.issue] = item
    BY <1>2, <2>2, <2>6, <2>7 DEF BoardTyped
  <2>9. item # None
    BY <2>7, NoneApart
  <2>10. value # None
    BY <2>4 DEF value
  <2>11. CallOwn'
    BY <2>2, <2>3, <2>7, <2>8, <2>9, <2>10 DEF CallOwn, I!Field
  <2> QED BY <1>2, <1>3, <2>2, <2>3, <2>8, <2>11
<1>7. CASE I!EndRegister \/ I!RegisterFails
  <2>1. reg # None /\ creating # None /\ creating.step = "register"
    BY <1>7 DEF I!EndRegister, I!RegisterFails, I!Doing, CallOwn
  <2>2. /\ creating' = [creating EXCEPT !.todo = @ \ {reg.issue}]
        /\ reg' = None /\ board' = board
    BY <1>7 DEF I!EndRegister, I!RegisterFails
  <2>3. creating \in I!ScriptType
    BY <2>1, BoardRecords
  <2>4. /\ creating' \in I!ScriptType /\ creating'.step = "register"
        /\ creating'.fresh = creating.fresh /\ creating'.part = creating.part
        /\ creating'.todo \subseteq creating.todo
    BY <2>1, <2>2, <2>3 DEF I!ScriptType
  <2> QED BY <1>1, <2>1, <2>2, <2>4
          DEF BoardTyped, NumbersMade, EpicFirst, StoriesInOrder, Making, FreshAtTheEnd, CallOwn
<1>8. ASSUME NEW n \in Triaged, I!Triage(n) PROVE IssuesInv'
  <2> DEFINE item == board'[n]
  <2>1. creating' = creating /\ reg' = reg /\ board[n] # None
    BY <1>8 DEF I!Triage
  <2>2. PICK f \in {"Status", "Priority"}, v \in {"In progress", "Done", "critical"} :
          board' = [board EXCEPT ![n][f] = v]
    BY <1>8 DEF I!Triage
  <2>3. f \in I!Fields /\ f # "IssueType" /\ v \in I!Values /\ v # None
    BY NoneApart DEF I!Fields, I!Values, I!Choices
  <2>4. CASE n \in 1..MaxIssues
    <3>1. board[n] \in [I!Fields -> I!Values]
      BY <2>1, <2>4 DEF BoardTyped
    <3> DEFINE new == [board[n] EXCEPT ![f] = v]
    <3>2. board' = [board EXCEPT ![n] = new]
      BY <2>2, <2>4 DEF BoardTyped
    <3>3. new \in [I!Fields -> I!Values] /\ \A g \in I!Fields : new[g] = IF g = f THEN v ELSE board[n][g]
      BY <2>3, <3>1
    <3> HIDE DEF new
    <3>4. board' \in [1..MaxIssues -> Items]
      BY <3>2, <3>3 DEF BoardTyped
    <3>5. \A k \in 1..MaxIssues : board'[k] = IF k = n THEN new ELSE board[k]
      BY <2>4, <3>2 DEF BoardTyped
    <3>6. new # None /\ new["IssueType"] = board[n]["IssueType"]
      BY <2>3, <3>3, NoneApart DEF I!Fields
    <3>7. CallOwn'
      <4>1. reg # None => board'[reg.issue] = IF reg.issue = n THEN new ELSE board[reg.issue]
        BY <1>2, <3>5
      <4>2. \A g \in I!Fields : board[n][g] # None => new[g] # None
        BY <2>3, <3>3
      <4> QED BY <2>1, <3>6, <4>1, <4>2 DEF CallOwn
    <3> QED BY <1>2, <1>3, <2>1, <3>4, <3>7 DEF BoardTyped
  <2>5. CASE n \notin 1..MaxIssues
    <3>1. board' = board
      BY <2>2, <2>5 DEF BoardTyped
    <3> QED BY <1>1, <2>1, <3>1 DEF BoardTyped, NumbersMade, EpicFirst, StoriesInOrder, Making, FreshAtTheEnd, CallOwn
  <2> QED BY <2>4, <2>5
<1>9. ASSUME NEW n \in Triaged, I!Place(n) PROVE IssuesInv'
  <2>1. creating' = creating
    BY <1>9 DEF I!Place
  <2>2. I!Blank \in [I!Fields -> I!Values] /\ I!Blank["IssueType"] = None
    BY DEF I!Blank, I!Fields, I!Values
  <2>3. CASE board[n] = None
    <3>1. reg' = reg /\ board' = [board EXCEPT ![n] = I!Blank]
      BY <1>9, <2>3 DEF I!Place
    <3>2. board' \in [1..MaxIssues -> Items]
      BY <2>2, <3>1 DEF BoardTyped
    <3>3. \A k \in 1..MaxIssues : board'[k] = IF k = n THEN I!Blank ELSE board[k]
      BY <3>1 DEF BoardTyped
    <3>4. CallOwn'
      BY <1>2, <2>1, <2>2, <2>3, <3>1, <3>3 DEF CallOwn
    <3> QED BY <1>2, <1>3, <2>1, <3>1, <3>2, <3>4 DEF BoardTyped
  <2>4. CASE board[n] # None
    <3>1. /\ board' = [board EXCEPT ![n] = None]
          /\ reg' = IF reg # None /\ reg.issue = n THEN [reg EXCEPT !.held = FALSE] ELSE reg
      BY <1>9, <2>4 DEF I!Place
    <3>2. board' \in [1..MaxIssues -> Items]
      BY <3>1 DEF BoardTyped
    <3>3. \A k \in 1..MaxIssues : board'[k] = IF k = n THEN None ELSE board[k]
      BY <3>1 DEF BoardTyped
    <3>4. CASE reg # None /\ reg.issue = n
      <4>1. /\ reg' \in I!CallType /\ reg'.issue = n /\ reg'.held = FALSE
            /\ reg'.step = reg.step /\ reg'.before = reg.before
            /\ reg'.preserve = reg.preserve /\ reg'.sets = reg.sets
        BY <1>2, <3>1, <3>4 DEF I!CallType
      <4>2. CallOwn'
        BY <1>2, <2>1, <3>3, <3>4, <4>1 DEF CallOwn
      <4> QED BY <1>2, <1>3, <2>1, <3>2, <3>4, <4>1, <4>2
    <3>5. CASE ~(reg # None /\ reg.issue = n)
      <4>1. reg' = reg
        BY <3>1, <3>5
      <4>2. CallOwn'
        BY <1>2, <2>1, <3>3, <3>5, <4>1 DEF CallOwn
      <4> QED BY <1>2, <1>3, <2>1, <3>2, <4>1, <4>2 DEF BoardTyped
    <3> QED BY <3>4, <3>5
  <2> QED BY <2>3, <2>4
<1> QED BY <1>4, <1>5, <1>6, <1>7, <1>8, <1>9

LEMMA IssuesMoves == [Next]_vars => [I!Next]_IVars
BY DEF Next, Moves, vars

LEMMA IssuesStep == I!BoardConstants /\ IssuesInv /\ [I!Next]_IVars => IssuesInv'
<1> SUFFICES ASSUME I!BoardConstants, IssuesInv, [I!Next]_IVars PROVE IssuesInv'
  OBVIOUS
<1>1. CASE UNCHANGED IVars
  BY <1>1 DEF IVars, IssuesInv, BoardTyped, NumbersMade, EpicFirst, StoriesInOrder, Making,
     FreshAtTheEnd, CallOwn
<1>2. CASE I!Next
  BY <1>2, ScriptStep, CallStep DEF I!Next
<1> QED BY <1>1, <1>2

LEMMA IssuesHold == Spec => []IssuesInv
<1>0. I!BoardConstants
  BY ToolsConstants
<1>1. Init => IssuesInv
  BY <1>0, IssuesInit DEF Init
<1>2. IssuesInv /\ [Next]_vars => IssuesInv'
  BY <1>0, IssuesMoves, IssuesStep
<1> QED BY <1>1, <1>2, PTL DEF Spec

\* For any number of stories and issues: however often
\* create_epic_story_issues.sh fails, is killed and runs again, no story gets a
\* second issue and stories.md names for each part an issue of that part.
THEOREM StoriesHaveOneIssue == Spec => []StoryOnce
<1>1. IssuesInv => StoryOnce
  BY DEF IssuesInv, NumbersMade, StoriesInOrder, StoryOnce, I!StoryOnce
<1> QED BY <1>1, IssuesHold, PTL

\* For any triage by people: a backfill leaves each status and priority that its
\* look at the item showed, and a registration writes to no other item than its
\* own (planRegistration and the register-issue command of
\* github_project_lifecycle.mjs).
THEOREM BackfillKeepsTriage == Spec => TriageKept
<1> DEFINE Kept ==
      \A n \in 1..MaxIssues :
        reg # None /\ reg' # reg /\ board'[n] \notin {None, board[n]} =>
          /\ n = reg.issue
          /\ creating.part # NumStories =>
               \A f \in {"Status", "Priority"} :
                 I!Field(reg.before, f) # None => I!Field(board'[n], f) = I!Field(board[n], f)
<1>0. I!BoardConstants
  BY ToolsConstants
<1>1. ASSUME IssuesInv, [Next]_vars PROVE [Kept]_IVars
  <2> SUFFICES ASSUME I!Next, NEW n \in 1..MaxIssues,
                      reg # None, reg' # reg, board'[n] \notin {None, board[n]}
               PROVE  /\ n = reg.issue
                      /\ creating.part # NumStories =>
                           \A f \in {"Status", "Priority"} :
                             I!Field(reg.before, f) # None =>
                               I!Field(board'[n], f) = I!Field(board[n], f)
    BY <1>1, IssuesMoves
  <2>1. /\ creating # None /\ creating.step = "register"
        /\ creating.part # NumStories => reg.preserve
    BY <1>1 DEF IssuesInv, CallOwn, FreshAtTheEnd
  <2>2. board \in [1..MaxIssues -> {None} \cup [I!Fields -> I!Values]]
    BY <1>1 DEF IssuesInv, BoardTyped
  <2>3. CASE I!AddItem
    <3>1. n = reg.issue
      BY <2>2, <2>3 DEF I!AddItem
    <3>2. reg.before = None
      BY <1>1, <2>3 DEF I!AddItem, I!Doing, IssuesInv, CallOwn
    <3> QED BY <3>1, <3>2 DEF I!Field
  <2>4. CASE I!SetField
    <3>1. PICK f \in reg.sets :
            board' = [board EXCEPT ![reg.issue][f] = I!Expected(issues[reg.issue])[f]]
      BY <2>4 DEF I!SetField
    <3>2. n = reg.issue
      BY <2>2, <3>1
    <3>3. board[n] # None /\ board[n] \in [I!Fields -> I!Values]
      BY <1>1, <2>2, <2>4, <3>2 DEF I!SetField, I!Doing, IssuesInv, CallOwn
    <3>4. board'[n] = [board[n] EXCEPT ![f] = I!Expected(issues[n])[f]]
      BY <2>2, <3>1, <3>2
    <3>5. board'[n] # None
      OBVIOUS
    <3>6. \A g \in I!Fields : g # f => I!Field(board'[n], g) = I!Field(board[n], g)
      BY <3>3, <3>4, <3>5 DEF I!Field
    <3>7. reg.preserve => f = "IssueType" \/ I!Field(reg.before, f) = None
      BY <1>1, <3>1 DEF IssuesInv, CallOwn
    <3>8. {"Status", "Priority"} \subseteq I!Fields
      BY DEF I!Fields
    <3>9. SUFFICES ASSUME reg.preserve, NEW g \in {"Status", "Priority"},
                          I!Field(reg.before, g) # None
                   PROVE  I!Field(board'[n], g) = I!Field(board[n], g)
      BY <2>1, <3>2
    <3> QED BY <3>6, <3>7, <3>8, <3>9
  <2>5. CASE \/ I!BeginScript \/ I!CreateIssue \/ I!WriteNumber \/ I!EndScript
             \/ I!BeginRegister \/ I!EndRegister \/ I!RegisterFails
    <3>1. board' = board
      BY <2>5 DEF I!BeginScript, I!CreateIssue, I!WriteNumber, I!EndScript, I!BeginRegister,
         I!EndRegister, I!RegisterFails
    <3> QED BY <3>1
  <2>6. ASSUME NEW k \in Triaged, I!Triage(k) \/ I!Place(k) PROVE FALSE
    <3>1. CASE I!Triage(k)
      BY <3>1 DEF I!Triage
    <3>2. CASE I!Place(k)
      <4>1. board[k] # None /\ board' = [board EXCEPT ![k] = None]
        BY <3>2 DEF I!Place
      <4> QED BY <2>2, <4>1
    <3> QED BY <2>6, <3>1, <3>2
  <2> QED BY <2>3, <2>4, <2>5, <2>6 DEF I!Next
<1>2. TriageKept <=> [][Kept]_IVars
  BY DEF TriageKept, I!TriageKept, IVars, I!vars
<1> QED BY <1>1, <1>2, IssuesHold, PTL DEF Spec

\* A call that reports an issue as registered leaves no field of its item empty
\* and the type right, unless the item was taken off the board meanwhile
\* (validateIssueProjectRegistration of register-issue --apply).
THEOREM ReportedIsRegistered == Spec => RegisteredFully
<1> DEFINE Full ==
      \A n \in reported' :
        reg # None /\ reg' = None /\ creating' # None /\ reg.issue = n /\ board[n] # None =>
          /\ \A f \in I!Fields : board[n][f] # None
          /\ board[n].IssueType = I!TypeOf(issues[n])
<1>0. I!BoardConstants
  BY ToolsConstants
<1>1. ASSUME IssuesInv, [Next]_vars PROVE [Full]_IVars
  <2> SUFFICES ASSUME I!Next, NEW n \in reported',
                      reg # None, reg' = None, creating' # None, reg.issue = n, board[n] # None
               PROVE  /\ \A f \in I!Fields : board[n][f] # None
                      /\ board[n].IssueType = I!TypeOf(issues[n])
    BY <1>1, IssuesMoves
  <2>1. /\ reg \in I!CallType /\ n \in 1..MaxIssues
        /\ board[n] \in [I!Fields -> I!Values]
    BY <1>0, <1>1, BoardRecords DEF IssuesInv, NumbersMade, BoardTyped, I!BoardConstants
  <2>2. CASE I!EndRegister
    <3>1. I!Validated /\ reg.step = "set"
      BY <2>2 DEF I!EndRegister, I!Doing
    <3>2. \A f \in I!Fields : I!ExpectedAny(f) \/ board[n][f] = I!Expected(issues[n])[f]
      BY <3>1 DEF I!Validated, I!Field
    <3>3. board[n]["IssueType"] = I!TypeOf(issues[n])
      BY <3>2 DEF I!ExpectedAny, I!Fields, I!Expected
    <3>4. I!TypeOf(issues[n]) # None
      BY <1>0, NoneApart DEF I!TypeOf, I!Choices
    <3>5. reg.held
      BY <1>1, <2>1, <3>1, <3>3, <3>4 DEF IssuesInv, CallOwn, I!CallType
    <3>6. \A f \in I!Fields : I!Field(reg.before, f) # None => board[n][f] # None
      BY <1>1, <3>1, <3>5 DEF IssuesInv, CallOwn
    <3>7. \A f \in I!Fields : I!Expected(issues[n])[f] # None
      BY <1>0, ExpectedValue
    <3>8. \A f \in I!Fields : board[n][f] # None
      BY <3>2, <3>6, <3>7 DEF I!ExpectedAny
    <3> QED BY <3>3, <3>8
  <2>3. CASE I!RegisterFails
    BY <2>3 DEF I!RegisterFails
  <2>4. CASE I!EndScript
    BY <2>4 DEF I!EndScript
  <2>5. CASE I!BeginScript \/ I!CreateIssue \/ I!WriteNumber
    BY <2>5 DEF I!BeginScript, I!CreateIssue, I!WriteNumber
  <2>6. CASE I!BeginRegister
    BY <2>6 DEF I!BeginRegister
  <2>7. CASE I!AddItem \/ I!SetField
    <3>1. reg' \in I!CallType
      BY <2>1, <2>7 DEF I!AddItem, I!SetField, I!CallType
    <3> QED BY <1>0, <3>1, NoneApart
  <2>8. ASSUME NEW k \in Triaged, I!Triage(k) \/ I!Place(k) PROVE FALSE
    <3>1. reg' = reg \/ reg' = [reg EXCEPT !.held = FALSE]
      BY <2>8 DEF I!Triage, I!Place
    <3>2. reg' \in I!CallType
      BY <2>1, <3>1 DEF I!CallType
    <3> QED BY <1>0, <3>2, NoneApart
  <2> QED BY <2>2, <2>3, <2>4, <2>5, <2>6, <2>7, <2>8 DEF I!Next
<1>2. RegisteredFully <=> [][Full]_IVars
  BY DEF RegisteredFully, I!RegisteredFully, IVars, I!vars
<1> QED BY <1>1, <1>2, IssuesHold, PTL DEF Spec

-----------------------------------------------------------------------------
(* The labels of issues: an issue that a merge closed and that still carries   *)
(* in-progress is still before a job that will take it off, or was flagged.    *)

JobType == [todo : Seq(Issues), has : BOOLEAN, step : {"unmerged", "view", "edit", "done"}]

LabelsTyped ==
  /\ issue \in [Issues -> {None} \cup L!IssueType]
  /\ start \in {None} \cup L!StartType
  /\ job \in [L!PRs -> JobType]
  /\ asked \subseteq Issues

AtWork(pr) == job[pr].step \in {"view", "edit"}

JobsHave ==
  /\ start # None => issue[start.issue] # None
  /\ \A pr \in L!PRs :
       /\ AtWork(pr) => Len(job[pr].todo) # 0
       /\ job[pr].step = "edit" => issue[job[pr].todo[1]] # None

\* The job takes the label of i off, if its next calls do not fail.
Takes(pr, i) ==
  /\ AtWork(pr)
  /\ \E k \in 1..Len(job[pr].todo) :
       job[pr].todo[k] = i /\ (job[pr].step = "edit" /\ k = 1 => job[pr].has)

Owed ==
  \A i \in Issues :
    issue[i] # None /\ issue[i].state = "merged" /\ issue[i].running =>
      i \in asked \/ i \in flagged \/ \E pr \in L!PRs : Takes(pr, i)

OddKindsSeen ==
  \A i \in Issues :
    issue[i] # None /\ L!Cardinality(issue[i].kind.types) # 1 => i \in asked \/ i \in flagged

LabelsInv == LabelsTyped /\ JobsHave /\ Owed /\ OddKindsSeen

LEMMA LabelsInit == L!LabelsConstants /\ L!Init => LabelsInv
BY DEF L!Init, L!LabelsConstants, L!Waiting, LabelsInv, LabelsTyped, JobType, JobsHave, AtWork,
   Owed, OddKindsSeen

Seen(i) == i \in asked \/ i \in flagged

\* A step that leaves the jobs alone: an issue stays as it is and seen, or was
\* validated, or has been asked about, or is changed by a hand that no merge is.
LEMMA IssueStep ==
  ASSUME L!LabelsConstants, LabelsInv, job' = job,
         issue' \in [Issues -> {None} \cup L!IssueType], asked' \subseteq Issues,
         \/ start' \in {None, start}
         \/ start' \in L!StartType /\ issue[start'.issue] # None,
         \A i \in Issues :
           /\ issue[i] # None => issue'[i] # None
           /\ \/ issue'[i] = issue[i] /\ (Seen(i) => Seen(i)')
              \/ issue'[i] = issue[i] /\ issue[i] # None /\ L!LabelsOk(i)
              \/ i \in asked'
              \/ /\ issue[i] # None /\ issue'[i].kind = issue[i].kind
                 /\ issue'[i].state # "merged" /\ (Seen(i) => Seen(i)')
  PROVE  LabelsInv'
<1> USE DEF LabelsInv, Seen
<1>1. LabelsTyped'
  BY DEF LabelsTyped
<1>2. JobsHave'
  BY DEF JobsHave, LabelsTyped, AtWork, L!StartType, JobType
<1>3. \A pr \in L!PRs, i \in Issues : Takes(pr, i)' <=> Takes(pr, i)
  BY DEF Takes, AtWork
<1>4. Owed'
  BY <1>3 DEF Owed, L!LabelsOk
<1>5. OddKindsSeen'
  <2> SUFFICES ASSUME NEW i \in Issues, issue'[i] # None, L!Cardinality(issue'[i].kind.types) # 1,
                      ~(i \in asked'), ~(i \in flagged')
               PROVE  FALSE
    BY DEF OddKindsSeen
  <2>1. CASE issue'[i] = issue[i] /\ (Seen(i) => Seen(i)')
    BY <2>1 DEF OddKindsSeen
  <2>2. CASE issue'[i] = issue[i] /\ L!LabelsOk(i)
    BY <2>2 DEF L!LabelsOk
  <2>3. CASE issue[i] # None /\ issue'[i].kind = issue[i].kind /\ (Seen(i) => Seen(i)')
    BY <2>3 DEF OddKindsSeen
  <2> QED BY <2>1, <2>2, <2>3
<1> QED BY <1>1, <1>2, <1>4, <1>5

LEMMA PeopleStep ==
  ASSUME L!LabelsConstants, LabelsInv,
         \/ L!AddLabel \/ L!EndStart
         \/ \E i \in Issues :
              \/ L!BeginStart(i) \/ L!ValidateIssue(i) \/ L!ValidationFails(i)
              \/ L!CloseIssue(i) \/ L!ReopenIssue(i)
              \/ \E kind \in IssueKinds : L!OpenIssue(i, kind) \/ L!EditIssue(i, kind)
  PROVE  LabelsInv'
<1>1. issue \in [Issues -> {None} \cup L!IssueType] /\ asked \subseteq Issues /\ None \notin L!IssueType
  BY DEF LabelsInv, LabelsTyped, L!LabelsConstants
<1>2. \A i \in Issues : issue[i] # None => issue[i] \in L!IssueType
  BY <1>1
<1>3. CASE L!EndStart
  BY <1>1, <1>3, IssueStep DEF L!EndStart, Seen
<1>4. CASE L!AddLabel
  <2> DEFINE i == start.issue
             new == [issue[i] EXCEPT !.running = TRUE]
  <2>1. i \in Issues /\ issue[i] # None
    BY <1>4 DEF L!AddLabel, LabelsInv, LabelsTyped, JobsHave, L!StartType
  <2>2. new \in L!IssueType
    BY <1>2, <2>1 DEF L!IssueType
  <2>3. issue' = [issue EXCEPT ![i] = new] /\ asked' = asked \cup {i} /\ start' = None
        /\ job' = job /\ flagged' = flagged
    BY <1>1, <1>4, <2>1 DEF L!AddLabel
  <2> HIDE DEF new, i
  <2>4. \A k \in Issues : issue'[k] = IF k = i THEN new ELSE issue[k]
    BY <1>1, <2>3
  <2> QED BY <1>1, <2>1, <2>2, <2>3, <2>4, IssueStep DEF Seen
<1>5. ASSUME NEW i \in Issues, L!BeginStart(i) PROVE LabelsInv'
  BY <1>1, <1>2, <1>5, IssueStep DEF L!BeginStart, Seen, L!StartType, L!Opened, L!IssueType
<1>6. ASSUME NEW i \in Issues, L!ValidateIssue(i) PROVE LabelsInv'
  <2>1. /\ UNCHANGED <<issue, start, job>> /\ asked' = asked \ {i}
        /\ flagged' = IF L!LabelsOk(i) THEN flagged \ {i} ELSE flagged \cup {i}
    BY <1>6 DEF L!ValidateIssue
  <2>2. CASE issue[i] = None
    <3>1. \A k \in Issues : k # i => (Seen(k) => Seen(k)')
      BY <2>1 DEF Seen
    <3>2. LabelsTyped' /\ JobsHave'
      BY <1>1, <2>1 DEF LabelsInv, LabelsTyped, JobsHave, AtWork
    <3>3. \A pr \in L!PRs, k \in Issues : Takes(pr, k)' <=> Takes(pr, k)
      BY <2>1 DEF Takes, AtWork
    <3>4. Owed' /\ OddKindsSeen'
      BY <2>1, <2>2, <3>1, <3>3 DEF LabelsInv, Owed, OddKindsSeen, Seen
    <3> QED BY <3>2, <3>4 DEF LabelsInv
  <2>3. CASE issue[i] # None /\ L!LabelsOk(i)
    BY <1>1, <2>1, <2>3, IssueStep DEF Seen
  <2>4. CASE ~L!LabelsOk(i)
    BY <1>1, <2>1, <2>4, IssueStep DEF Seen
  <2> QED BY <2>2, <2>3, <2>4
<1>7. ASSUME NEW i \in Issues, L!ValidationFails(i) PROVE LabelsInv'
  BY <1>1, <1>7, IssueStep DEF L!ValidationFails, Seen
<1>8. ASSUME NEW i \in Issues, L!CloseIssue(i) \/ L!ReopenIssue(i) PROVE LabelsInv'
  <2> PICK state \in {"open", "closed"} : issue' = [issue EXCEPT ![i].state = state]
    BY <1>8 DEF L!CloseIssue, L!ReopenIssue
  <2> DEFINE new == [issue[i] EXCEPT !.state = state]
  <2>1. issue[i] # None /\ UNCHANGED <<start, job, asked, flagged>>
    BY <1>8 DEF L!CloseIssue, L!ReopenIssue, L!Open, L!Opened
  <2>2. new \in L!IssueType /\ new.kind = issue[i].kind /\ new.state = state
    BY <1>2, <2>1 DEF L!IssueType
  <2>3. issue' = [issue EXCEPT ![i] = new]
    BY <1>1
  <2> HIDE DEF new
  <2>4. \A k \in Issues : issue'[k] = IF k = i THEN new ELSE issue[k]
    BY <1>1, <2>3
  <2> QED BY <1>1, <2>1, <2>2, <2>3, <2>4, IssueStep DEF Seen
<1>9. ASSUME NEW i \in Issues, NEW kind \in IssueKinds, L!OpenIssue(i, kind) \/ L!EditIssue(i, kind)
      PROVE  LabelsInv'
  <2> DEFINE fresh == [kind |-> kind, state |-> "open", running |-> FALSE]
             edited == [issue[i] EXCEPT !.kind = kind]
  <2>1. PICK new \in L!IssueType : issue' = [issue EXCEPT ![i] = new]
    <3>1. CASE L!OpenIssue(i, kind)
      <4>1. fresh \in L!IssueType
        BY DEF L!IssueType
      <4> QED BY <3>1, <4>1 DEF L!OpenIssue
    <3>2. CASE L!EditIssue(i, kind)
      <4>1. issue[i] # None
        BY <3>2 DEF L!EditIssue, L!Opened
      <4>2. edited \in L!IssueType
        BY <1>2, <4>1 DEF L!IssueType
      <4>3. issue' = [issue EXCEPT ![i] = edited]
        BY <1>1, <3>2 DEF L!EditIssue
      <4> QED BY <4>2, <4>3
    <3> QED BY <1>9, <3>1, <3>2
  <2>2. asked' = asked \cup {i} /\ UNCHANGED <<start, job, flagged>>
    BY <1>9 DEF L!OpenIssue, L!EditIssue
  <2>3. \A k \in Issues : issue'[k] = IF k = i THEN new ELSE issue[k]
    BY <1>1, <2>1
  <2> QED BY <1>1, <2>1, <2>2, <2>3, IssueStep DEF Seen
<1> QED BY <1>3, <1>4, <1>5, <1>6, <1>7, <1>8, <1>9

LEMMA MergeStep ==
  ASSUME L!LabelsConstants, LabelsInv, NEW pr \in L!PRs, NEW closes \in BOOLEAN, L!Merge(pr, closes)
  PROVE  LabelsInv'
<1> USE DEF LabelsInv
<1>1. /\ issue \in [Issues -> {None} \cup L!IssueType] /\ None \notin L!IssueType
      /\ job \in [L!PRs -> JobType] /\ Bodies[pr] \in Seq(Issues)
  BY DEF LabelsTyped, L!LabelsConstants
<1> DEFINE next == IF Bodies[pr] = <<>> THEN L!Done
                   ELSE [todo |-> Bodies[pr], has |-> FALSE, step |-> "view"]
<1>2. /\ job' = [job EXCEPT ![pr] = next] /\ job[pr].step = "unmerged"
      /\ UNCHANGED <<start, asked, flagged>>
      /\ issue' = [i \in Issues |-> IF closes /\ i \in L!Open \cap L!Range(Bodies[pr])
                                    THEN [issue[i] EXCEPT !.state = "merged"] ELSE issue[i]]
  BY DEF L!Merge
<1>3. /\ next \in JobType
      /\ next.step # "edit"
      /\ next.step = "view" => Len(next.todo) # 0 /\ next.todo = Bodies[pr]
      /\ \A i \in L!Range(Bodies[pr]) : 
           next.step = "view" /\ \E k \in 1..Len(Bodies[pr]) : Bodies[pr][k] = i
  BY <1>1 DEF JobType, L!Done, L!Range
<1> HIDE DEF next
<1>4. \A q \in L!PRs : job'[q] = IF q = pr THEN next ELSE job[q]
  BY <1>1, <1>2
<1>5. \A i \in Issues :
        /\ issue[i] # None => issue[i] \in L!IssueType
        /\ \/ issue'[i] = issue[i]
           \/ /\ issue[i] # None /\ issue'[i] \in L!IssueType /\ i \in L!Range(Bodies[pr])
              /\ issue'[i].kind = issue[i].kind
  <2> TAKE i \in Issues
  <2>1. issue[i] # None => issue[i] \in L!IssueType
    BY <1>1
  <2>2. CASE closes /\ i \in L!Open \cap L!Range(Bodies[pr])
    <3>1. issue[i] # None
      BY <2>2 DEF L!Open, L!Opened
    <3>2. issue'[i] = [issue[i] EXCEPT !.state = "merged"]
      BY <1>2, <2>2
    <3>3. issue'[i] \in L!IssueType /\ issue'[i].kind = issue[i].kind
      BY <2>1, <3>1, <3>2 DEF L!IssueType
    <3> QED BY <2>1, <2>2, <3>1, <3>3
  <2>3. CASE ~(closes /\ i \in L!Open \cap L!Range(Bodies[pr]))
    BY <1>2, <2>1, <2>3
  <2> QED BY <2>2, <2>3
<1>6. LabelsTyped'
  <2>1. issue' \in [Issues -> {None} \cup L!IssueType]
    <3>1. \A i \in Issues : issue'[i] \in {None} \cup L!IssueType
      BY <1>1, <1>5
    <3>2. issue' = [i \in Issues |-> issue'[i]]
      BY <1>2
    <3> QED BY <3>1, <3>2
  <2> QED BY <1>1, <1>2, <1>3, <2>1 DEF LabelsTyped
<1>7. \A i \in Issues : issue[i] # None => issue'[i] # None
  BY <1>1, <1>5
<1>8. JobsHave'
  BY <1>2, <1>3, <1>4, <1>7 DEF JobsHave, AtWork, LabelsTyped, L!StartType, JobType
<1>9. \A i \in Issues, q \in L!PRs : Takes(q, i) => Takes(q, i)'
  BY <1>2, <1>4 DEF Takes, AtWork
<1>10. \A i \in L!Range(Bodies[pr]) : Takes(pr, i)'
  BY <1>3, <1>4 DEF Takes, AtWork
<1>11. Owed'
  BY <1>2, <1>5, <1>9, <1>10 DEF Owed
<1>12. OddKindsSeen'
  BY <1>1, <1>2, <1>5 DEF OddKindsSeen
<1> QED BY <1>6, <1>8, <1>11, <1>12

LEMMA JobStep ==
  ASSUME L!LabelsConstants, LabelsInv, NEW pr \in L!PRs,
         L!ViewIssue(pr) \/ L!JobFails(pr) \/ \E token \in BOOLEAN : L!RemoveLabel(pr, token)
  PROVE  LabelsInv'
<1> USE DEF LabelsInv
<1>1. /\ issue \in [Issues -> {None} \cup L!IssueType] /\ None \notin L!IssueType
      /\ job \in [L!PRs -> JobType] /\ asked \subseteq Issues
  BY DEF LabelsTyped, L!LabelsConstants
<1>2. /\ AtWork(pr) /\ job[pr] \in JobType /\ job[pr].todo \in Seq(Issues)
      /\ Len(job[pr].todo) # 0 /\ L!Ref(pr) = job[pr].todo[1] /\ L!Ref(pr) \in Issues
  BY <1>1 DEF L!ViewIssue, L!JobFails, L!RemoveLabel, AtWork, JobsHave, JobType, L!Ref
<1>3. ASSUME NEW next \in JobType, job' = [job EXCEPT ![pr] = next]
      PROVE  \A q \in L!PRs : job'[q] = IF q = pr THEN next ELSE job[q]
  BY <1>1, <1>3
<1>4. CASE L!ViewIssue(pr)
  <2> DEFINE next == [job[pr] EXCEPT !.step = "edit", !.has = issue[L!Ref(pr)].running]
  <2>1. issue[L!Ref(pr)] # None /\ issue[L!Ref(pr)] \in L!IssueType
    BY <1>1, <1>2, <1>4 DEF L!ViewIssue, L!Opened
  <2>2. /\ next \in JobType /\ next.step = "edit" /\ next.has = issue[L!Ref(pr)].running
        /\ next.todo = job[pr].todo
    BY <1>2, <2>1 DEF JobType, L!IssueType
  <2>3. job' = [job EXCEPT ![pr] = next] /\ UNCHANGED <<issue, start, asked, flagged>>
    BY <1>1, <1>4 DEF L!ViewIssue
  <2> HIDE DEF next
  <2>4. \A q \in L!PRs : job'[q] = IF q = pr THEN next ELSE job[q]
    BY <1>3, <2>2, <2>3
  <2>5. LabelsTyped' /\ JobsHave'
    BY <1>1, <1>2, <2>1, <2>2, <2>3, <2>4 DEF LabelsTyped, JobsHave, AtWork
  <2>6. \A i \in Issues, q \in L!PRs : issue[i].running /\ Takes(q, i) => Takes(q, i)'
    BY <1>2, <2>2, <2>4 DEF Takes, AtWork
  <2>7. Owed' /\ OddKindsSeen'
    BY <2>3, <2>6 DEF Owed, OddKindsSeen
  <2> QED BY <2>5, <2>7
<1>5. CASE L!JobFails(pr)
  <2>1. /\ job' = [job EXCEPT ![pr] = L!Done] /\ UNCHANGED <<issue, start, asked>>
        /\ flagged' = flagged \cup L!Range(job[pr].todo)
    BY <1>5 DEF L!JobFails
  <2>2. L!Done \in JobType /\ L!Done.step = "done"
    BY DEF JobType, L!Done
  <2>3. \A q \in L!PRs : job'[q] = IF q = pr THEN L!Done ELSE job[q]
    BY <1>3, <2>1, <2>2
  <2>4. LabelsTyped' /\ JobsHave'
    BY <1>1, <2>1, <2>2, <2>3 DEF LabelsTyped, JobsHave, AtWork
  <2>5. \A i \in Issues, q \in L!PRs : Takes(q, i) => Takes(q, i)' \/ i \in flagged'
    BY <1>2, <2>1, <2>3 DEF Takes, AtWork, L!Range
  <2>6. Owed' /\ OddKindsSeen'
    BY <2>1, <2>5 DEF Owed, OddKindsSeen
  <2> QED BY <2>4, <2>6
<1>6. ASSUME NEW token \in BOOLEAN, L!RemoveLabel(pr, token) PROVE LabelsInv'
  <2> DEFINE ref == L!Ref(pr)
             next == IF Len(job[pr].todo) = 1 THEN L!Done
                     ELSE [todo |-> Tail(job[pr].todo), has |-> FALSE, step |-> "view"]
  <2>1. /\ job' = [job EXCEPT ![pr] = next] /\ UNCHANGED <<start, flagged>>
        /\ job[pr].step = "edit"
        /\ IF job[pr].has
           THEN /\ issue' = [issue EXCEPT ![ref].running = FALSE]
                /\ asked \subseteq asked' /\ asked' \subseteq asked \cup {ref}
           ELSE issue' = issue /\ asked' = asked
    BY <1>1, <1>6 DEF L!RemoveLabel
  <2>2. /\ next \in JobType /\ next.step # "edit"
        /\ next.step = "view" => Len(next.todo) # 0
    BY <1>2 DEF JobType, L!Done
  <2>3. \A k \in 2..Len(job[pr].todo) :
          /\ next.step = "view" /\ k - 1 \in 1..Len(next.todo)
          /\ next.todo[k - 1] = job[pr].todo[k]
    BY <1>2
  <2> HIDE DEF next
  <2>4. \A q \in L!PRs : job'[q] = IF q = pr THEN next ELSE job[q]
    BY <1>3, <2>1, <2>2
  <2>5. issue[ref] # None /\ issue[ref] \in L!IssueType /\ ref \in Issues
    BY <1>1, <1>2, <2>1 DEF JobsHave
  <2> DEFINE plain == [issue[ref] EXCEPT !.running = FALSE]
  <2>6. plain \in L!IssueType /\ plain.kind = issue[ref].kind /\ plain.running = FALSE
    BY <2>5 DEF L!IssueType
  <2>7. job[pr].has => issue' = [issue EXCEPT ![ref] = plain]
    BY <1>1, <2>1, <2>5
  <2> HIDE DEF plain, ref
  <2>8. /\ issue' \in [Issues -> {None} \cup L!IssueType]
        /\ \A i \in Issues : issue'[i] = IF job[pr].has /\ i = ref THEN plain ELSE issue[i]
    BY <1>1, <2>1, <2>5, <2>6, <2>7
  <2>9. asked' \subseteq Issues
    BY <1>1, <2>1, <2>5
  <2>10. \A i \in Issues : issue[i] # None => issue'[i] # None
    BY <1>1, <2>6, <2>8
  <2>11. LabelsTyped'
    BY <1>1, <2>1, <2>2, <2>8, <2>9 DEF LabelsTyped
  <2>12. JobsHave'
    BY <2>1, <2>2, <2>4, <2>10 DEF JobsHave, AtWork, LabelsTyped, L!StartType, JobType
  <2>13. \A i \in Issues, q \in L!PRs :
           Takes(q, i) /\ (q # pr \/ i # ref \/ ~job[pr].has) => Takes(q, i)'
    <3> TAKE i \in Issues, q \in L!PRs
    <3> HAVE Takes(q, i) /\ (q # pr \/ i # ref \/ ~job[pr].has)
    <3>1. CASE q # pr
      BY <2>4, <3>1 DEF Takes, AtWork
    <3>2. CASE q = pr
      <4>1. PICK k \in 1..Len(job[pr].todo) : job[pr].todo[k] = i /\ (k = 1 => job[pr].has)
        BY <2>1, <3>2 DEF Takes
      <4>2. k # 1
        BY <1>2, <3>2, <4>1 DEF ref
      <4>3. k \in 2..Len(job[pr].todo)
        BY <1>2, <4>1, <4>2
      <4>4. /\ next.step = "view" /\ k - 1 \in 1..Len(next.todo) /\ next.todo[k - 1] = i
        BY <2>3, <4>1, <4>3
      <4> QED BY <2>4, <3>2, <4>4 DEF Takes, AtWork
    <3> QED BY <3>1, <3>2
  <2>14. Owed'
    BY <2>1, <2>6, <2>8, <2>13 DEF Owed
  <2>15. OddKindsSeen'
    BY <2>1, <2>5, <2>6, <2>8 DEF OddKindsSeen
  <2> QED BY <2>11, <2>12, <2>14, <2>15
<1> QED BY <1>4, <1>5, <1>6

LEMMA LabelsMoves == [Next]_vars => [L!Next]_LVars
BY DEF Next, Moves, vars

LEMMA LabelsStep == L!LabelsConstants /\ LabelsInv /\ [L!Next]_LVars => LabelsInv'
<1> SUFFICES ASSUME L!LabelsConstants, LabelsInv, [L!Next]_LVars PROVE LabelsInv'
  OBVIOUS
<1>1. CASE UNCHANGED LVars
  BY <1>1 DEF LVars, LabelsInv, LabelsTyped, JobsHave, AtWork, Takes, Owed, OddKindsSeen
<1>2. CASE L!Next
  BY <1>2, PeopleStep, MergeStep, JobStep DEF L!Next
<1> QED BY <1>1, <1>2

LEMMA LabelsHold == Spec => []LabelsInv
<1>0. L!LabelsConstants
  BY ToolsConstants
<1>1. Init => LabelsInv
  BY <1>0, LabelsInit DEF Init
<1>2. LabelsInv /\ [Next]_vars => LabelsInv'
  BY <1>0, LabelsMoves, LabelsStep
<1> QED BY <1>1, <1>2, PTL DEF Spec

\* For any issues and pull requests: an issue that a merge closed and that still
\* carries in-progress has been flagged once the jobs and runs about it are over
\* (start-work, pr-merged and validate-issue of github_project_lifecycle.mjs).
THEOREM MergedIssuesAreSettled == Spec => []RetainedLabelSeen
<1>1. LabelsInv => RetainedLabelSeen
  <2> SUFFICES ASSUME LabelsInv, NEW i \in L!Opened,
                      issue[i].state = "merged", issue[i].running, ~L!Busy(i)
               PROVE  i \in flagged
    BY DEF RetainedLabelSeen, L!RetainedLabelSeen
  <2>1. \A pr \in L!PRs : ~Takes(pr, i)
    BY DEF L!Busy, L!Range, Takes, LabelsInv, LabelsTyped, JobType
  <2> QED BY <2>1 DEF L!Busy, L!Opened, LabelsInv, Owed
<1> QED BY <1>1, LabelsHold, PTL

\* Whatever labels the issues have: next-work offers every open issue in one
\* place or leaves it out for a reason that its labels show, and what it places
\* by one label of several has been flagged (selectNextCandidates).
THEOREM NextWorkIsComplete == Spec => []EveryIssueOffered
<1>0. L!LabelsConstants
  BY ToolsConstants
<1>1. LabelsInv => EveryIssueOffered
  <2> SUFFICES ASSUME LabelsInv PROVE L!EveryIssueOffered
    BY DEF EveryIssueOffered
  <2>1. \A i \in L!Opened : issue[i].kind \in IssueKinds /\ i \in Issues
    BY DEF L!Opened, LabelsInv, LabelsTyped, L!IssueType
  <2>2. L!L1 \cap (L!Attached \cup L!L2 \cup L!L3) = {} /\ L!Attached \cap (L!L2 \cup L!L3) = {}
    BY DEF L!L1, L!Attached, L!SubTasks, L!L2, L!L3, L!WorkItems, L!Is
  <2>3. \A i \in L!L2 : ~L!Is(i, "story")
    BY DEF L!L2
  <2>4. \A i \in L!Open \ (L!L1 \cup L!Attached \cup L!L2 \cup L!L3) :
          \/ L!Is(i, "epic")
          \/ L!Is(i, "subTask") /\ issue[i].kind.parent \notin L!L1
          \/ issue[i].kind.types = {}
    <3> TAKE i \in L!Open \ (L!L1 \cup L!Attached \cup L!L2 \cup L!L3)
    <3>1. issue[i].kind \in IssueKinds
      BY <2>1 DEF L!Open
    <3>2. issue[i].kind.first = None => issue[i].kind.types = {}
      <4>1. issue[i].kind.types \subseteq L!Types /\ None \notin L!Types
        BY <1>0, <3>1 DEF L!LabelsConstants, L!KindType
      <4> QED BY <1>0, <3>1, <4>1 DEF L!LabelsConstants
    <3> QED BY <3>2 DEF L!Attached, L!SubTasks, L!L3, L!WorkItems, L!Is
  <2>5. \A i \in L!Open : L!Cardinality(issue[i].kind.types) # 1 => i \in asked \cup flagged
    BY DEF L!Open, L!Opened, LabelsInv, OddKindsSeen
  <2> QED BY <2>2, <2>3, <2>4, <2>5 DEF L!EveryIssueOffered
<1> QED BY <1>1, LabelsHold, PTL

-----------------------------------------------------------------------------
(* The TDD guard: the contract that an ensure registers has passed its         *)
(* self-test, in whatever order others change the files meanwhile.             *)

TddContracts == Presets \cup Contracts

EnsureType ==
  [c : TddContracts, todo : {<<"cc">>, <<"codex">>, <<"cc", "codex">>},
   step : {"test", "install", "register", "record"}, flags : SUBSET T!Target]

CodexAfterClaude(targets) == "codex" \in targets => "cc" \in targets

TddInv ==
  /\ contract \in {None, Broken} \cup TddContracts
  /\ registered \subseteq T!Target /\ CodexAfterClaude(registered)
  /\ ensure # None =>
       /\ ensure \in EnsureType
       /\ ensure.step # "test" => T!SelfTest(ensure.c)
       /\ CodexAfterClaude(ensure.flags)
       /\ ensure.todo = <<"codex">> => "cc" \in ensure.flags

LEMMA TddInit == T!Init => TddInv
BY DEF T!Init, TddInv, CodexAfterClaude

LEMMA TddMoves == [Next]_vars => [T!Next]_TVars
BY DEF Next, Moves, vars

LEMMA TddStep == T!TddConstants /\ TddInv /\ [T!Next]_TVars => TddInv'
<1> SUFFICES ASSUME T!TddConstants, TddInv, [T!Next]_TVars PROVE TddInv'
  OBVIOUS
<1> USE DEF TddInv
<1>1. CASE UNCHANGED T!installed
  BY <1>1 DEF T!installed
<1>2. ASSUME NEW f \in SourceFiles,
             \/ \E exempt, headless \in BOOLEAN : T!WriteSource(f, exempt, headless)
             \/ T!WriteTest(f) \/ T!DeleteFile(f)
      PROVE  TddInv'
  BY <1>1, <1>2 DEF T!WriteSource, T!WriteTest, T!DeleteFile
<1>3. ASSUME NEW targets \in SUBSET T!Target \ {{}},
             NEW given \in {{}} \cup {{p} : p \in Presets}, T!BeginEnsure(targets, given)
      PROVE  TddInv'
  <2>1. PICK c \in T!Built(given) :
          ensure' = [c |-> c, todo |-> T!Order(targets), step |-> "test",
                     flags |-> IF contract = None THEN {} ELSE registered]
    BY <1>3 DEF T!BeginEnsure
  <2>2. c \in TddContracts
    BY <2>1 DEF T!Built, TddContracts
  <2>3. T!Order(targets) \in {<<"cc">>, <<"cc", "codex">>}
    BY DEF T!Order
  <2>4. T!Order(targets) # <<"codex">>
    BY DEF T!Order
  <2> QED BY <1>3, <2>1, <2>2, <2>3, <2>4 DEF T!BeginEnsure, EnsureType, CodexAfterClaude
<1>4. CASE T!RunSelfTest \/ T!InstallHookScript
  <2>1. ensure # None /\ ensure \in EnsureType /\ UNCHANGED <<contract, registered>>
    BY <1>4 DEF T!RunSelfTest, T!InstallHookScript, T!At
  <2>2. \/ ensure' = None
        \/ /\ ensure' = [ensure EXCEPT !.step = "install"] /\ T!SelfTest(ensure.c)
        \/ /\ ensure' = [ensure EXCEPT !.step = "register"] /\ ensure.step = "install"
    BY <1>4 DEF T!RunSelfTest, T!InstallHookScript, T!At
  <2>3. CASE ensure' = None
    BY <2>1, <2>3
  <2>4. ASSUME NEW step \in {"install", "register"}, ensure' = [ensure EXCEPT !.step = step],
               T!SelfTest(ensure.c)
        PROVE  TddInv'
    <3>1. /\ ensure' \in EnsureType /\ ensure'.c = ensure.c /\ ensure'.todo = ensure.todo
          /\ ensure'.flags = ensure.flags
      BY <2>1, <2>4 DEF EnsureType
    <3> QED BY <2>1, <2>4, <3>1
  <2> QED BY <2>1, <2>2, <2>3, <2>4
<1>5. CASE T!RegisterHook
  <2>1. ensure # None /\ ensure \in EnsureType /\ UNCHANGED <<contract, registered>>
        /\ T!SelfTest(ensure.c)
    BY <1>5 DEF T!RegisterHook, T!At
  <2>2. CASE ensure' = None
    BY <2>1, <2>2
  <2>3. CASE ensure' = [ensure EXCEPT !.step = "record"]
    <3>1. /\ ensure' \in EnsureType /\ ensure'.c = ensure.c /\ ensure'.todo = ensure.todo
          /\ ensure'.flags = ensure.flags
      BY <2>1, <2>3 DEF EnsureType
    <3> QED BY <2>1, <3>1
  <2> QED BY <1>5, <2>2, <2>3 DEF T!RegisterHook
<1>6. CASE T!RecordRegistration
  <2>1. /\ ensure # None /\ ensure \in EnsureType /\ contract' = ensure.c
        /\ registered' = ensure.flags \cup {ensure.todo[1]}
    BY <1>6 DEF T!RecordRegistration, T!At, T!Goal
  <2>2. /\ contract' \in TddContracts /\ registered' \subseteq T!Target
        /\ CodexAfterClaude(registered')
    BY <2>1 DEF EnsureType, T!Target, CodexAfterClaude
  <2>3. CASE Len(ensure.todo) = 1
    <3>1. ensure' = None
      BY <1>6, <2>3 DEF T!RecordRegistration
    <3> QED BY <2>2, <3>1 DEF CodexAfterClaude
  <2>4. CASE Len(ensure.todo) # 1
    <3>1. /\ ensure.todo = <<"cc", "codex">> /\ Tail(ensure.todo) = <<"codex">>
          /\ "cc" \in registered'
      <4>1. ensure.todo \in {<<"cc">>, <<"codex">>, <<"cc", "codex">>}
        BY <2>1 DEF EnsureType
      <4>2. Len(<<"cc">>) = 1 /\ Len(<<"codex">>) = 1
        OBVIOUS
      <4>3. ensure.todo = <<"cc", "codex">>
        BY <2>4, <4>1, <4>2
      <4>4. Tail(<<"cc", "codex">>) = <<"codex">> /\ <<"cc", "codex">>[1] = "cc"
        OBVIOUS
      <4> QED BY <2>1, <4>3, <4>4
    <3>2. ensure' = [ensure EXCEPT !.step = "test", !.todo = <<"codex">>, !.flags = registered']
      BY <1>6, <2>4, <3>1 DEF T!RecordRegistration
    <3>3. /\ ensure' \in EnsureType /\ ensure'.step = "test" /\ ensure'.flags = registered'
      BY <2>1, <2>2, <3>2 DEF EnsureType
    <3> QED BY <2>2, <3>1, <3>3 DEF CodexAfterClaude
  <2> QED BY <2>3, <2>4
<1>7. CASE T!StopEnsure
  BY <1>7 DEF T!StopEnsure
<1>8. ASSUME NEW c \in {None, Broken} \cup Contracts, T!EditContract(c) PROVE TddInv'
  BY <1>8 DEF T!EditContract, TddContracts, CodexAfterClaude
<1>9. ASSUME NEW t \in T!Target,
             T!RemoveScript(t) \/ \E s \in {"plain", "broken"} : T!EditSettings(t, s)
      PROVE  TddInv'
  BY <1>9 DEF T!RemoveScript, T!EditSettings
<1> QED
  BY <1>1, <1>2, <1>3, <1>4, <1>5, <1>6, <1>7, <1>8, <1>9 DEF T!Next, TVars, T!installed

LEMMA TddHolds == Spec => []TddInv
<1>0. T!TddConstants
  BY ToolsConstants
<1>1. Init => TddInv
  BY TddInit DEF Init
<1>2. TddInv /\ [Next]_vars => TddInv'
  BY <1>0, TddMoves, TddStep
<1> QED BY <1>1, <1>2, PTL DEF Spec

\* For any contracts and files: a target is marked as registered only for a
\* contract that denies what has no test and lets the test be written, codex only
\* after cc (ensure_generated_hooks of harness/tdd_hooks.py).
THEOREM RegistrationIsTested == Spec => RegisteredTested
<1> DEFINE Tested ==
      \A t \in registered' \ registered :
        /\ contract' \notin {None, Broken}
        /\ \E f \in [ext : T!Range(contract'.exts), root : T!Range(contract'.roots)] :
             T!ShouldEnforce(contract', f) /\ ~T!TestEnforced(contract', f)
        /\ t = "codex" => "cc" \in registered'
<1>0. T!TddConstants
  BY ToolsConstants
<1>1. ASSUME TddInv, TddInv', [Next]_vars PROVE [Tested]_TVars
  <2> SUFFICES ASSUME T!Next, NEW t \in registered' \ registered
               PROVE  /\ contract' \notin {None, Broken}
                      /\ \E f \in [ext : T!Range(contract'.exts), root : T!Range(contract'.roots)] :
                           T!ShouldEnforce(contract', f) /\ ~T!TestEnforced(contract', f)
                      /\ t = "codex" => "cc" \in registered'
    BY <1>1, TddMoves
  <2>1. T!RecordRegistration
    BY DEF T!Next, T!WriteSource, T!WriteTest, T!DeleteFile, T!installed, T!BeginEnsure, T!RunSelfTest,
       T!InstallHookScript, T!RegisterHook, T!StopEnsure, T!EditContract, T!RemoveScript, T!EditSettings
  <2>2. contract' = ensure.c /\ T!SelfTest(ensure.c) /\ ensure.c \in TddContracts
    BY <1>1, <2>1 DEF T!RecordRegistration, T!At, TddInv, EnsureType
  <2>3. contract' \notin {None, Broken}
    BY <1>0, <2>2 DEF T!TddConstants, TddContracts
  <2> DEFINE c == ensure.c
             f == [ext |-> c.exts[1], root |-> c.roots[1]]
  <2>4. 1 \in DOMAIN c.exts /\ 1 \in DOMAIN c.roots
    BY <1>0, <2>2 DEF T!TddConstants, TddContracts
  <2>5. f \in [ext : T!Range(c.exts), root : T!Range(c.roots)]
    BY <2>4 DEF T!Range
  <2>6. T!ShouldEnforce(c, f) /\ ~T!TestEnforced(c, f)
    BY <2>2 DEF T!SelfTest
  <2>7. t = "codex" => "cc" \in registered'
    BY <1>1 DEF TddInv, CodexAfterClaude
  <2> QED BY <2>2, <2>3, <2>5, <2>6, <2>7
<1>2. RegisteredTested <=> [][Tested]_TVars
  BY DEF RegisteredTested, T!RegisteredTested, TVars, T!vars
<1>3. TddInv /\ TddInv' /\ [Next]_vars => [Tested]_TVars
  BY <1>1
<1> QED BY <1>2, <1>3, TddHolds, PTL DEF Spec

\* Wherever an ensure was stopped and whatever others made of its files: a source
\* file in the scope of the hooks is written only with a test or an exemption
\* (hooks/tdd-guard.sh and the generated hook never leave it to each other).
THEOREM TestsComeFirst == Spec => TestFirst
<1> DEFINE First ==
      \A f \in written' \ written : f \in T!Scope => f \in tests \cup exempted'
<1>1. [Next]_vars => [First]_TVars
  <2> SUFFICES ASSUME T!Next, NEW f \in written' \ written, f \in T!Scope
               PROVE  f \in tests \cup exempted'
    BY TddMoves
  <2>1. PICK exempt \in BOOLEAN, headless \in BOOLEAN : T!WriteSource(f, exempt, headless)
    BY DEF T!Next, T!WriteSource, T!WriteTest, T!DeleteFile, T!sources, T!BeginEnsure, T!RunSelfTest,
       T!InstallHookScript, T!RegisterHook, T!RecordRegistration, T!StopEnsure, T!EditContract,
       T!RemoveScript, T!EditSettings
  <2>2. ~T!Denied(f, exempt, headless) /\ (exempt => f \in exempted')
        /\ (~exempt => exempted' = exempted)
    BY <2>1 DEF T!WriteSource
  <2>3. CASE T!HandsOver
    <3>1. ~T!GeneratedBlocks(f, exempt)
      BY <2>2, <2>3 DEF T!Denied, T!CentralBlocks, T!ProjectBlocks, T!HandsOver
    <3>2. contract \notin {None, Broken} /\ T!ShouldEnforce(contract, f)
      BY <2>3 DEF T!Scope, T!HandsOver
    <3> QED BY <2>2, <3>1, <3>2 DEF T!GeneratedBlocks, T!Blocks
  <2>4. CASE ~T!HandsOver
    <3>1. ~T!CentralRules(f, exempt)
      BY <2>2, <2>4 DEF T!Denied, T!CentralBlocks
    <3>2. T!CentralScope(f)
      BY <2>4 DEF T!Scope, T!HandsOver
    <3> QED BY <2>2, <3>1, <3>2 DEF T!CentralRules
  <2> QED BY <2>3, <2>4
<1>2. TestFirst <=> [][First]_TVars
  BY DEF TestFirst, T!TestFirst, TVars, T!vars
<1> QED BY <1>1, <1>2, PTL DEF Spec

-----------------------------------------------------------------------------
(* The file guard: what a command may have written is followed through the     *)
(* segments of the shell, where the guard can tell every write of the command. *)

\* A shell at any point of a command.
ShellState == [t : B!Area, ok : BOOLEAN, wrote : SUBSET (B!Area \cup {Unknown})]

\* A segment takes a shell to shells.
LEMMA SegmentState ==
  ASSUME NEW c \in Seq(B!Segments), NEW i \in DOMAIN c, NEW s \in ShellState
  PROVE  B!Segment(c, i, s) \subseteq ShellState
<1>1. /\ c[i] \in B!Segments /\ c[i].value \in B!Area \cup {Unknown}
      /\ s.t \in B!Area /\ s.ok \in BOOLEAN /\ s.wrote \subseteq B!Area \cup {Unknown}
  <2>1. c[i] \in B!Segments
    OBVIOUS
  <2>2. c[i].value \in B!Area \cup {Unknown}
    BY <2>1 DEF B!Segments
  <2>3. s.t \in B!Area /\ s.ok \in BOOLEAN /\ s.wrote \subseteq B!Area \cup {Unknown}
    BY DEF ShellState
  <2> QED BY <2>1, <2>2, <2>3
<1> DEFINE value == IF c[i].value = Unknown THEN B!Area ELSE {c[i].value}
           sets == (IF B!InChild(c, i) THEN {s.t} ELSE {})
                     \cup (IF c[i].op \in {"|", "&"} THEN {} ELSE value)
<1>2. value \subseteq B!Area /\ sets \subseteq B!Area /\ "readme" \in B!Area
  BY <1>1 DEF B!Area
<1> HIDE DEF value, sets
<1>3. B!Segment(c, i, s) =
        (IF \/ B!Before(c, i) = "&&" /\ ~s.ok
            \/ B!Before(c, i) = "||" /\ s.ok
         THEN {s}
         ELSE CASE c[i].kind = "assign" -> [t : sets, ok : {TRUE}, wrote : {s.wrote}]
            [] c[i].kind \in {"rebind", "dynamic"} ->
                 [t : sets \cup {s.t}, ok : BOOLEAN, wrote : {s.wrote}]
            [] c[i].kind = "write" ->
                 [t : {s.t}, ok : BOOLEAN, wrote : {s.wrote \cup {c[i].value}}]
            [] c[i].kind = "writeT" ->
                 [t : {s.t}, ok : BOOLEAN, wrote : {s.wrote \cup {s.t}}]
            [] c[i].kind = "quotedT" ->
                 [t : {s.t}, ok : BOOLEAN, wrote : {s.wrote \cup {"readme"}}]
            [] c[i].kind = "python" ->
                 [t : {s.t}, ok : BOOLEAN, wrote : {s.wrote \cup {at} : at \in value}]
            [] OTHER -> [t : {s.t}, ok : BOOLEAN, wrote : {s.wrote}])
  BY DEF B!Segment, sets, value
<1>4. s.wrote \in SUBSET (B!Area \cup {Unknown}) /\ s.t \in B!Area
  BY <1>1
<1>5. /\ s.wrote \cup {c[i].value} \in SUBSET (B!Area \cup {Unknown})
      /\ s.wrote \cup {s.t} \in SUBSET (B!Area \cup {Unknown})
      /\ s.wrote \cup {"readme"} \in SUBSET (B!Area \cup {Unknown})
      /\ \A at \in value : s.wrote \cup {at} \in SUBSET (B!Area \cup {Unknown})
  BY <1>1, <1>2
<1>7. /\ {s.wrote} \in SUBSET SUBSET (B!Area \cup {Unknown})
      /\ {s.wrote \cup {at} : at \in value} \in SUBSET SUBSET (B!Area \cup {Unknown})
      /\ {s.wrote \cup {c[i].value}} \in SUBSET SUBSET (B!Area \cup {Unknown})
      /\ {s.wrote \cup {s.t}} \in SUBSET SUBSET (B!Area \cup {Unknown})
      /\ {s.wrote \cup {"readme"}} \in SUBSET SUBSET (B!Area \cup {Unknown})
      /\ sets \in SUBSET B!Area /\ sets \cup {s.t} \in SUBSET B!Area /\ {s.t} \in SUBSET B!Area
  BY <1>2, <1>4, <1>5
<1> HIDE DEF value, sets
<1>8. /\ [t : sets, ok : {TRUE}, wrote : {s.wrote}] \subseteq ShellState
      /\ [t : sets \cup {s.t}, ok : BOOLEAN, wrote : {s.wrote}] \subseteq ShellState
      /\ [t : {s.t}, ok : BOOLEAN, wrote : {s.wrote \cup {c[i].value}}] \subseteq ShellState
      /\ [t : {s.t}, ok : BOOLEAN, wrote : {s.wrote \cup {s.t}}] \subseteq ShellState
      /\ [t : {s.t}, ok : BOOLEAN, wrote : {s.wrote \cup {"readme"}}] \subseteq ShellState
      /\ [t : {s.t}, ok : BOOLEAN, wrote : {s.wrote \cup {at} : at \in value}] \subseteq ShellState
      /\ [t : {s.t}, ok : BOOLEAN, wrote : {s.wrote}] \subseteq ShellState
  <2>1. [t : sets, ok : {TRUE}, wrote : {s.wrote}] \subseteq ShellState
    BY <1>7 DEF ShellState
  <2>2. [t : sets \cup {s.t}, ok : BOOLEAN, wrote : {s.wrote}] \subseteq ShellState
    BY <1>7 DEF ShellState
  <2>3. [t : {s.t}, ok : BOOLEAN, wrote : {s.wrote \cup {c[i].value}}] \subseteq ShellState
    BY <1>7 DEF ShellState
  <2>4. [t : {s.t}, ok : BOOLEAN, wrote : {s.wrote \cup {s.t}}] \subseteq ShellState
    BY <1>7 DEF ShellState
  <2>5. [t : {s.t}, ok : BOOLEAN, wrote : {s.wrote \cup {"readme"}}] \subseteq ShellState
    BY <1>7 DEF ShellState
  <2>6. [t : {s.t}, ok : BOOLEAN, wrote : {s.wrote \cup {at} : at \in value}] \subseteq ShellState
    BY <1>7 DEF ShellState
  <2>7. [t : {s.t}, ok : BOOLEAN, wrote : {s.wrote}] \subseteq ShellState
    BY <1>7 DEF ShellState
  <2> QED BY <2>1, <2>2, <2>3, <2>4, <2>5, <2>6, <2>7
<1>9. {s} \subseteq ShellState
  OBVIOUS
<1> QED BY <1>3, <1>8, <1>9

\* The function that Runs names exists, so its values are those it is defined by.
LEMMA RunsStep ==
  ASSUME NEW c \in Seq(B!Segments)
  PROVE  /\ B!Runs(c)[0] = [t : B!Area, ok : {TRUE}, wrote : {{}}]
         /\ \A k \in 1..Len(c) :
              B!Runs(c)[k] = UNION {B!Segment(c, k, s) : s \in B!Runs(c)[k - 1]}
<1> DEFINE n == Len(c)
           A == SUBSET ShellState
           first == [t : B!Area, ok : {TRUE}, wrote : {{}}]
           F == [k \in 1..n |-> [X \in A |-> UNION {B!Segment(c, k, s) : s \in X}]]
           IsRuns(f) == f = [k \in 0..n |-> IF k = 0 THEN first
                                 ELSE UNION {B!Segment(c, k, s) : s \in f[k - 1]}]
<1>1. n \in Nat /\ first \in A
  <2>1. n \in Nat
    OBVIOUS
  <2>2. \A s \in first : s \in ShellState
    BY DEF ShellState
  <2>3. first \subseteq ShellState
    BY <2>2
  <2> QED BY <2>1, <2>3
<1>2. \A k \in 1..n : \A X \in A : UNION {B!Segment(c, k, s) : s \in X} \in A
  <2> SUFFICES ASSUME NEW k \in 1..n, NEW X \in A, NEW s \in X
               PROVE  B!Segment(c, k, s) \subseteq ShellState
    OBVIOUS
  <2>1. k \in DOMAIN c /\ s \in ShellState
    OBVIOUS
  <2> QED BY <2>1, SegmentState
<1>3. F \in [1..n -> [A -> A]]
  BY <1>2
<1> HIDE DEF F, A, n, first
<1>4. PICK g : g \in [0..n -> A] /\ g[0] = first /\ \A k \in 1..n : g[k] = F[k][g[k - 1]]
  <2>1. F \in StepFunctions(n, A)
    BY <1>3 DEF StepFunctions
  <2>2. \E g : Recursive(g, n, A, first, F)
    BY <1>1, <2>1, Recursion
  <2> QED BY <2>2, Zenon DEF Recursive
<1>5. \A k \in 1..n : g[k] = UNION {B!Segment(c, k, s) : s \in g[k - 1]}
  <2> SUFFICES ASSUME NEW k \in 1..n PROVE g[k] = UNION {B!Segment(c, k, s) : s \in g[k - 1]}
    OBVIOUS
  <2>1. k - 1 \in 0..n
    BY <1>1
  <2>2. g[k - 1] \in A
    BY <1>4, <2>1
  <2> QED BY <1>4, <2>2 DEF F
<1>6. IsRuns(g)
  <2> DEFINE h == [k \in 0..n |-> IF k = 0 THEN first
                                  ELSE UNION {B!Segment(c, k, s) : s \in g[k - 1]}]
  <2>1. \A k \in 0..n : g[k] = h[k]
    <3> SUFFICES ASSUME NEW k \in 0..n PROVE g[k] = h[k]
      OBVIOUS
    <3>1. CASE k = 0
      BY <3>1, <1>4
    <3>2. CASE k # 0
      <4>1. k \in 1..n
        BY <3>2, <1>1
      <4> QED BY <4>1, <3>2, <1>5
    <3> QED BY <3>1, <3>2
  <2>2. g = h
    <3>1. DOMAIN g = 0..n /\ g = [k \in 0..n |-> g[k]]
      BY <1>4
    <3> HIDE DEF h
    <3>2. h = [k \in 0..n |-> h[k]]
      BY DEF h
    <3> QED BY <2>1, <3>1, <3>2
  <2> QED BY <2>2
<1>7. B!Runs(c) = CHOOSE f : IsRuns(f)
  BY Zenon DEF B!Runs, n, first
<1>8. IsRuns(B!Runs(c))
  <2> HIDE DEF IsRuns
  <2> QED BY <1>6, <1>7, Zenon
<1> DEFINE R == B!Runs(c)
<1>9. R = [k \in 0..n |-> IF k = 0 THEN first
                          ELSE UNION {B!Segment(c, k, s) : s \in R[k - 1]}]
  BY <1>8
<1> HIDE DEF R, IsRuns
<1>10. R[0] = first
  <2>1. 0 \in 0..n
    BY <1>1
  <2> QED BY <1>9, <2>1
<1>11. ASSUME NEW k \in 1..n PROVE R[k] = UNION {B!Segment(c, k, s) : s \in R[k - 1]}
  <2>1. k \in 0..n /\ k # 0
    BY <1>1
  <2> QED BY <1>9, <2>1
<1> QED BY <1>10, <1>11 DEF R, n, first

\* T is what the last assignment before here says, where that is certain.
TKnown(c, n, s) ==
  LET earlier == {j \in B!Are(c, {"assign"}) : j <= n}
  IN (earlier # {} /\ B!Certain(c, B!Max(earlier))) => s.t = c[B!Max(earlier)].value

\* A command all of whose writes the guard can tell.
Told(c) == Unknown \notin B!BashPaths(c) /\ ~B!UnresolvedWrites(c)

\* A command that sets T by plain assignments only.
Fixed(c) == B!Resolvable(c) /\ ~B!Rebound(c)

\* What one segment leaves.
LEMMA SegmentLeaves ==
  ASSUME NEW c, NEW i \in DOMAIN c, NEW s, NEW x \in B!Segment(c, i, s)
  PROVE  /\ \/ x.wrote = s.wrote
            \/ c[i].kind = "write" /\ x.wrote = s.wrote \cup {c[i].value}
            \/ c[i].kind = "writeT" /\ x.wrote = s.wrote \cup {s.t}
            \/ c[i].kind = "quotedT"
            \/ c[i].kind = "python" /\ c[i].value = Unknown
            \/ c[i].kind = "python" /\ x.wrote = s.wrote \cup {c[i].value}
         /\ c[i].kind \notin {"assign", "rebind", "dynamic"} => x.t = s.t
         /\ (c[i].kind = "assign" /\ B!Certain(c, i)) => x.t = c[i].value
<1> DEFINE value == IF c[i].value = Unknown THEN B!Area ELSE {c[i].value}
           sets == (IF B!InChild(c, i) THEN {s.t} ELSE {})
                     \cup (IF c[i].op \in {"|", "&"} THEN {} ELSE value)
           skipped == \/ B!Before(c, i) = "&&" /\ ~s.ok
                      \/ B!Before(c, i) = "||" /\ s.ok
           assigned == [t : sets, ok : {TRUE}, wrote : {s.wrote}]
           reset == [t : sets \cup {s.t}, ok : BOOLEAN, wrote : {s.wrote}]
           wroteFile == [t : {s.t}, ok : BOOLEAN, wrote : {s.wrote \cup {c[i].value}}]
           wroteT == [t : {s.t}, ok : BOOLEAN, wrote : {s.wrote \cup {s.t}}]
           wroteQuoted == [t : {s.t}, ok : BOOLEAN, wrote : {s.wrote \cup {"readme"}}]
           scripted == [t : {s.t}, ok : BOOLEAN, wrote : {s.wrote \cup {at} : at \in value}]
           ran == [t : {s.t}, ok : BOOLEAN, wrote : {s.wrote}]
<1>3. B!Segment(c, i, s) =
       (IF skipped THEN {s}
        ELSE CASE c[i].kind = "assign" -> assigned
               [] c[i].kind \in {"rebind", "dynamic"} -> reset
               [] c[i].kind = "write" -> wroteFile
               [] c[i].kind = "writeT" -> wroteT
               [] c[i].kind = "quotedT" -> wroteQuoted
               [] c[i].kind = "python" -> scripted
               [] OTHER -> ran)
  BY Zenon DEF B!Segment
<1> HIDE DEF sets, value, skipped, assigned, reset, wroteFile, wroteT, wroteQuoted, scripted, ran
<1>1. CASE skipped
  <2>1. x = s
    BY <1>3, <1>1
  <2>2. ~B!Certain(c, i)
    BY <1>1 DEF B!Certain, skipped
  <2> QED BY <2>1, <2>2
<1>2. CASE ~skipped
  <2>2. CASE c[i].kind = "assign"
    <3>1. B!Segment(c, i, s) = assigned
      BY <1>3, <1>2, <2>2
    <3>2. x.wrote = s.wrote /\ x.t \in sets
      BY <3>1 DEF assigned
    <3>3. B!Certain(c, i) => sets = {c[i].value}
      BY DEF B!Certain, B!InChild, sets, value
    <3> QED BY <2>2, <3>2, <3>3
  <2>3. CASE c[i].kind \in {"rebind", "dynamic"}
    <3>1. B!Segment(c, i, s) = reset
      BY <1>3, <1>2, <2>3
    <3>2. x.wrote = s.wrote
      BY <3>1 DEF reset
    <3> QED BY <2>3, <3>2
  <2>4. CASE c[i].kind = "write"
    <3>1. B!Segment(c, i, s) = wroteFile
      BY <1>3, <1>2, <2>4
    <3> QED BY <2>4, <3>1 DEF wroteFile
  <2>5. CASE c[i].kind = "writeT"
    <3>1. B!Segment(c, i, s) = wroteT
      BY <1>3, <1>2, <2>5
    <3> QED BY <2>5, <3>1 DEF wroteT
  <2>6. CASE c[i].kind = "quotedT"
    <3>1. B!Segment(c, i, s) = wroteQuoted
      BY <1>3, <1>2, <2>6
    <3> QED BY <2>6, <3>1 DEF wroteQuoted
  <2>7. CASE c[i].kind = "python"
    <3>1. B!Segment(c, i, s) = scripted
      BY <1>3, <1>2, <2>7
    <3>2. x.t = s.t /\ \E at \in value : x.wrote = s.wrote \cup {at}
      BY <3>1 DEF scripted
    <3>3. c[i].value = Unknown \/ value = {c[i].value}
      BY DEF value
    <3> QED BY <2>7, <3>2, <3>3
  <2>8. CASE c[i].kind \notin {"assign", "rebind", "dynamic", "write", "writeT", "quotedT", "python"}
    <3>1. B!Segment(c, i, s) = ran
      BY <1>3, <1>2, <2>8
    <3> QED BY <2>8, <3>1 DEF ran
  <2> QED BY <2>2, <2>3, <2>4, <2>5, <2>6, <2>7, <2>8
<1> QED BY <1>1, <1>2

\* Where the guard can tell all writes, it follows them.
LEMMA RunFollowed ==
  ASSUME NEW c \in Seq(B!Segments), Told(c)
  PROVE  \A n \in 0..Len(c) : \A s \in B!Runs(c)[n] :
           s.wrote \subseteq B!BashPaths(c) /\ (Fixed(c) => TKnown(c, n, s))
<1> DEFINE good == {n \in 0..Len(c) : \A s \in B!Runs(c)[n] :
                      s.wrote \subseteq B!BashPaths(c) /\ (Fixed(c) => TKnown(c, n, s))}
<1>1. Len(c) \in Nat /\ DOMAIN c = 1..Len(c)
  OBVIOUS
<1>2. 0 \in good
  <2>0. B!Runs(c)[0] = [t : B!Area, ok : {TRUE}, wrote : {{}}]
    BY RunsStep
  <2>1. ASSUME NEW s \in B!Runs(c)[0] PROVE s.wrote = {}
    BY <2>0
  <2>2. {j \in B!Are(c, {"assign"}) : j <= 0} = {}
    BY <1>1 DEF B!Are
  <2>3. \A s : TKnown(c, 0, s)
    BY <2>2 DEF TKnown
  <2> QED BY <2>1, <2>3
<1>3. ASSUME NEW i \in 1..Len(c), i - 1 \in good PROVE i \in good
  <2> SUFFICES ASSUME NEW x \in B!Runs(c)[i]
               PROVE  x.wrote \subseteq B!BashPaths(c) /\ (Fixed(c) => TKnown(c, i, x))
    OBVIOUS
  <2>1. PICK s \in B!Runs(c)[i - 1] : x \in B!Segment(c, i, s)
    <3>1. B!Runs(c)[i] = UNION {B!Segment(c, i, s) : s \in B!Runs(c)[i - 1]}
      BY RunsStep
    <3> QED BY <3>1
  <2>2. s.wrote \subseteq B!BashPaths(c) /\ (Fixed(c) => TKnown(c, i - 1, s))
    BY <1>3
  <2>3. i \in DOMAIN c
    BY <1>1
  <2>4. /\ \/ x.wrote = s.wrote
           \/ c[i].kind = "write" /\ x.wrote = s.wrote \cup {c[i].value}
           \/ c[i].kind = "writeT" /\ x.wrote = s.wrote \cup {s.t}
           \/ c[i].kind = "quotedT"
           \/ c[i].kind = "python" /\ c[i].value = Unknown
           \/ c[i].kind = "python" /\ x.wrote = s.wrote \cup {c[i].value}
        /\ c[i].kind \notin {"assign", "rebind", "dynamic"} => x.t = s.t
        /\ (c[i].kind = "assign" /\ B!Certain(c, i)) => x.t = c[i].value
    BY <2>1, <2>3, SegmentLeaves
  <2> DEFINE earlier == {j \in B!Are(c, {"assign"}) : j < i}
  <2>5. earlier = {j \in B!Are(c, {"assign"}) : j <= i - 1}
    BY <1>1 DEF B!Are
  <2>6. c[i].kind \in {"writeT", "quotedT"} => B!Known(c, i) # Unknown /\ B!Known(c, i) \in B!BashPaths(c)
    BY <2>3 DEF Told, B!BashPaths, B!CommandTargets, B!Are
  <2>7. c[i].kind = "writeT" => s.t \in B!BashPaths(c)
    <3> SUFFICES ASSUME c[i].kind = "writeT" PROVE s.t \in B!BashPaths(c)
      OBVIOUS
    <3>1. /\ earlier # {} /\ Fixed(c)
          /\ B!Certain(c, B!Max(earlier)) /\ B!Known(c, i) = c[B!Max(earlier)].value
      BY <2>6 DEF B!Known, Fixed
    <3>2. TKnown(c, i - 1, s)
      BY <2>2, <3>1
    <3>3. s.t = c[B!Max(earlier)].value
      BY <2>5, <3>1, <3>2 DEF TKnown
    <3> QED BY <2>6, <3>1, <3>3
  <2>8. c[i].kind # "quotedT"
    <3> SUFFICES ASSUME c[i].kind = "quotedT" PROVE FALSE
      OBVIOUS
    <3>1. B!Rebound(c)
      BY <2>3 DEF B!Rebound, B!Are
    <3> QED BY <2>6, <3>1 DEF B!Known
  <2>9. c[i].kind = "python" => c[i].value # Unknown /\ c[i].value \in B!BashPaths(c)
    BY <2>3 DEF Told, B!UnresolvedWrites, B!BashPaths, B!PythonTargets, B!Are
  <2>10. c[i].kind = "write" => c[i].value \in B!BashPaths(c)
    BY <2>3 DEF B!BashPaths, B!CommandTargets, B!Are
  <2>11. x.wrote \subseteq B!BashPaths(c)
    BY <2>2, <2>4, <2>7, <2>8, <2>9, <2>10
  <2>12. ASSUME Fixed(c) PROVE TKnown(c, i, x)
    <3> DEFINE upTo == {j \in B!Are(c, {"assign"}) : j <= i}
    <3>1. c[i].kind \notin {"rebind", "dynamic"}
      BY <2>3, <2>12 DEF Fixed, B!Resolvable, B!Rebound, B!Are
    <3>2. CASE c[i].kind = "assign"
      <4>1. i \in upTo /\ upTo \in SUBSET (0..i)
        BY <1>1, <2>3, <3>2 DEF B!Are
      <4>2. B!Max(upTo) = i
        <5>1. i \in Nat /\ upTo # {}
          BY <1>1, <4>1
        <5>2. J!Max(upTo) \in upTo /\ \A y \in upTo : J!Max(upTo) >= y
          BY <4>1, <5>1, LargestNumber
        <5>3. J!Max(upTo) \in 0..i /\ J!Max(upTo) >= i
          BY <4>1, <5>2
        <5>4. J!Max(upTo) = i
          BY <5>1, <5>3
        <5> QED BY <5>4, SameMax
      <4> QED BY <2>4, <3>2, <4>2 DEF TKnown
    <3>3. CASE c[i].kind # "assign"
      <4>1. upTo = {j \in B!Are(c, {"assign"}) : j <= i - 1}
        BY <1>1, <2>3, <3>3 DEF B!Are
      <4>2. x.t = s.t
        BY <2>4, <3>1, <3>3
      <4>3. TKnown(c, i - 1, s)
        BY <2>2, <2>12
      <4> QED BY <4>1, <4>2, <4>3 DEF TKnown
    <3> QED BY <3>2, <3>3
  <2> QED BY <2>11, <2>12
<1>4. 0..Len(c) \subseteq good
  <2>1. \A i \in 1..Len(c) : i - 1 \in good => i \in good
    BY <1>3
  <2> HIDE DEF good
  <2> QED BY <1>1, <1>2, <2>1, StepByStep
<1> QED BY <1>4

\* Where a write that the table lets through may land.
LEMMA AllowedSpares ==
  ASSUME ~off, Unknown \notin B!Area, NEW agent \in B!Agents, NEW at, NEW scope,
         B!WriteAllowed(agent, at, scope)
  PROVE  /\ at # Unknown /\ at \notin B!Control \cup {"hooks", "verdict", "outside"}
         /\ agent = "validator" => at = "temp"
         /\ agent = "build-worker" => at \notin B!CodeExclusive
         /\ at = "phase" => agent = "build-worker"
<1>1. CASE at \in B!RunProse(agent) \cup {"temp"}
  <2>1. at = "temp" \/ (at = "phase" /\ agent = "build-worker")
    BY <1>1 DEF B!RunProse
  <2>2. {"temp", "phase"} \subseteq B!Area
    BY DEF B!Area
  <2> QED BY <2>1, <2>2 DEF B!Control, B!CodeExclusive
<1>2. CASE at \notin B!RunProse(agent) \cup {"temp"}
  <2>1. /\ at \notin {Unknown, "outside"} \cup B!Infra \cup B!Exclusive(agent)
        /\ B!Allow[agent] # {}
    BY <1>2 DEF B!WriteAllowed
  <2>2. agent # "validator"
    BY <2>1 DEF B!Allow
  <2> QED BY <2>1, <2>2 DEF B!Infra, B!Exclusive
<1> QED BY <1>1, <1>2

\* The same of what a command has written when it ends.
LEMMA CommandSpares ==
  ASSUME ~off, B!BoundaryConstants, NEW agent \in B!Agents, NEW c \in Commands, NEW scope,
         B!BashAllowed(agent, c, scope), ~B!UnresolvedWrites(c), NEW wrote \in B!Outcomes(c)
  PROVE  /\ ~B!BashMutation(c)
         /\ \A at \in wrote : B!WriteAllowed(agent, at, scope)
<1>1. c \in Seq(B!Segments) /\ Unknown \notin B!Area
  BY DEF B!BoundaryConstants
<1>2. ~B!BashMutation(c) /\ \A at \in B!BashPaths(c) : B!WriteAllowed(agent, at, scope)
  BY DEF B!BashAllowed
<1>3. Told(c)
  <2>1. Unknown \notin B!BashPaths(c)
    BY <1>1, <1>2, AllowedSpares
  <2> QED BY <2>1 DEF Told
<1>4. PICK s \in B!Runs(c)[Len(c)] : wrote = s.wrote
  BY DEF B!Outcomes
<1>5. Len(c) \in 0..Len(c)
  BY <1>1
<1>6. wrote \subseteq B!BashPaths(c)
  BY <1>1, <1>3, <1>4, <1>5, RunFollowed
<1> QED BY <1>2, <1>6

\* A call that is judged has landed where its role lets it.
Lands(agent, wrote, pushed) ==
  /\ ~pushed /\ wrote \cap (B!Control \cup {"hooks", "verdict", "outside"}) = {}
  /\ agent = "validator" => wrote \subseteq {"temp"}
  /\ agent = "build-worker" => wrote \cap B!CodeExclusive = {}
  /\ "phase" \in wrote => agent = "build-worker"

LEMMA AllowedLands ==
  ASSUME ~off, Unknown \notin B!Area, NEW agent \in B!Agents, NEW scope, NEW wrote,
         \A at \in wrote : B!WriteAllowed(agent, at, scope)
  PROVE  Lands(agent, wrote, FALSE)
<1>1. \A at \in wrote :
        /\ at \notin B!Control \cup {"hooks", "verdict", "outside"}
        /\ agent = "validator" => at = "temp"
        /\ agent = "build-worker" => at \notin B!CodeExclusive
        /\ at = "phase" => agent = "build-worker"
  BY AllowedSpares
<1> QED BY <1>1 DEF Lands

LEMMA LeaveKeeps ==
  ASSUME NEW agent, NEW wrote, NEW pushed, NEW recorded, B!Leave(agent, wrote, pushed, recorded),
         ~off /\ ~recorded => Lands(agent, wrote, pushed), B!Judged(last')
  PROVE  /\ Lands(last'.by, last'.wrote, last'.pushed)
         /\ UNCHANGED <<off, overrides>>
<1>1. last' = [by |-> agent, guarded |-> ~off, recorded |-> recorded, wrote |-> wrote,
               pushed |-> pushed]
  BY DEF B!Leave
<1>2. /\ last'.by = agent /\ last'.guarded = ~off /\ last'.recorded = recorded
      /\ last'.wrote = wrote /\ last'.pushed = pushed
  BY <1>1
<1>3. ~off /\ ~recorded
  BY <1>2 DEF B!Judged
<1>4. Lands(agent, wrote, pushed)
  BY <1>3
<1>5. wrote \cap {"no-guard", "self-mark"} = {} /\ "boundary" \notin wrote
  BY <1>4 DEF Lands, B!Control
<1>6. UNCHANGED off /\ UNCHANGED overrides
  BY <1>5 DEF B!Leave
<1> QED BY <1>2, <1>4, <1>6

LEMMA CallLands ==
  ASSUME B!BoundaryConstants, B!Next, B!Judged(last'), ~(UNCHANGED last)
  PROVE  /\ Lands(last'.by, last'.wrote, last'.pushed)
         /\ UNCHANGED <<off, overrides>>
<1> DEFINE landed == /\ Lands(last'.by, last'.wrote, last'.pushed)
                     /\ UNCHANGED <<off, overrides>>
<1>0. Unknown \notin B!Area /\ Callers \subseteq B!Agents
  BY DEF B!BoundaryConstants
<1>1. CASE B!Return
  BY <1>1 DEF B!Return, B!Judged, B!Nothing
<1>2. CASE B!MainChanges
  BY <1>2 DEF B!MainChanges
<1>3. ASSUME NEW agent \in Callers, NEW at \in B!Area, B!EditFile(agent, at) PROVE landed
  <2>1. PICK scope \in Scopes : B!WriteAllowed(agent, at, scope)
    BY <1>3 DEF B!EditFile
  <2>2. ~off => Lands(agent, {at}, FALSE)
    BY <1>0, <2>1, AllowedLands
  <2>3. B!Leave(agent, {at}, FALSE, FALSE)
    BY <1>3 DEF B!EditFile
  <2> QED BY <2>2, <2>3, LeaveKeeps
<1>4. ASSUME NEW agent \in Callers, NEW at \in B!Area, B!ReadFile(agent, at) PROVE landed
  <2>1. Lands(agent, {}, FALSE)
    BY DEF Lands
  <2> QED BY <1>4, <2>1, LeaveKeeps DEF B!ReadFile
<1>5. ASSUME NEW agent \in Callers, NEW c \in Commands, B!RunBash(agent, c) PROVE landed
  <2>1. PICK scope \in Scopes : B!BashAllowed(agent, c, scope)
    BY <1>5 DEF B!RunBash
  <2>2. PICK wrote \in B!Outcomes(c) :
          B!Leave(agent, wrote, B!BashMutation(c), ~off /\ B!UnresolvedWrites(c))
    BY <1>5 DEF B!RunBash
  <2>3. ~off /\ ~B!UnresolvedWrites(c) => Lands(agent, wrote, B!BashMutation(c))
    <3> SUFFICES ASSUME ~off, ~B!UnresolvedWrites(c) PROVE Lands(agent, wrote, B!BashMutation(c))
      OBVIOUS
    <3>1. agent \in B!Agents
      BY <1>0
    <3>2. ~B!BashMutation(c) /\ \A at \in wrote : B!WriteAllowed(agent, at, scope)
      BY <2>1, <3>1, CommandSpares
    <3>3. Lands(agent, wrote, FALSE)
      BY <1>0, <3>1, <3>2, AllowedLands
    <3> QED BY <3>2, <3>3 DEF Lands
  <2>4. ~off /\ ~(~off /\ B!UnresolvedWrites(c)) => Lands(agent, wrote, B!BashMutation(c))
    BY <2>3
  <2> QED BY <2>2, <2>4, LeaveKeeps
<1>6. ASSUME NEW agent \in Callers, NEW op \in {"read", "issue", "repository"}, B!CallGitHub(agent, op)
      PROVE  landed
  <2>1. ~off => Lands(agent, {}, op = "repository")
    BY <1>6 DEF B!CallGitHub, Lands
  <2>2. B!Leave(agent, {}, op = "repository", FALSE)
    BY <1>6 DEF B!CallGitHub
  <2> QED BY <2>1, <2>2, LeaveKeeps
<1>7. ASSUME NEW agent \in Callers, NEW at \in B!Area, NEW pushed \in BOOLEAN,
             B!HookFails(agent, at, pushed)
      PROVE  landed
  BY <1>7, LeaveKeeps DEF B!HookFails
<1> QED BY <1>1, <1>2, <1>3, <1>4, <1>5, <1>6, <1>7 DEF B!Next

LEMMA BoundaryMoves == [Next]_vars => [B!Next]_BVars
BY DEF Next, Moves, vars

\* For any commands, agents and boundary.json: a judged call has landed where its
\* role may write, whatever the shell made of the command (handle_pretooluse_file_op
\* of harness/hooks.py over harness/agent_boundary.py).
THEOREM RolesStayApart == Spec => []RolesApart
<1>1. Init => B!RolesApart
  BY DEF Init, B!Init, B!RolesApart, B!Judged, B!Nothing
<1>2. B!RolesApart /\ [Next]_vars => B!RolesApart'
  <2> SUFFICES ASSUME B!RolesApart, [B!Next]_BVars PROVE B!RolesApart'
    BY BoundaryMoves
  <2>1. CASE UNCHANGED last
    BY <2>1 DEF B!RolesApart, B!Judged
  <2>2. CASE ~(UNCHANGED last)
    <3>1. B!Next
      BY <2>2 DEF BVars
    <3>2. B!Judged(last') => Lands(last'.by, last'.wrote, last'.pushed)
      BY <2>2, <3>1, CallLands, ToolsConstants
    <3> QED BY <3>2 DEF B!RolesApart, Lands, B!Judged
  <2> QED BY <2>1, <2>2
<1>3. B!RolesApart => RolesApart
  BY DEF RolesApart
<1> QED BY <1>1, <1>2, <1>3, PTL DEF Spec

\* For any commands, agents and boundary.json: no judged call of a sub-agent switches
\* the guard off or changes the project's boundary.json (DCNESS_INFRA_PATTERNS of
\* harness/agent_boundary.py, asked before what the project allows).
THEOREM GuardIsKept == Spec => GuardKept
<1> DEFINE Kept == last = B!Nothing /\ B!Judged(last') => UNCHANGED <<off, overrides>>
<1>1. [Next]_vars => [Kept]_BVars
  <2> SUFFICES ASSUME B!Next, last = B!Nothing, B!Judged(last')
               PROVE  UNCHANGED <<off, overrides>>
    BY BoundaryMoves
  <2>1. ~(UNCHANGED last)
    BY DEF B!Judged, B!Nothing
  <2> QED BY <2>1, CallLands, ToolsConstants
<1>2. GuardKept <=> [][Kept]_BVars
  BY DEF GuardKept, B!GuardKept, BVars, B!vars
<1> QED BY <1>1, <1>2, PTL DEF Spec

-----------------------------------------------------------------------------
(* The product journey: what a full run that passed tells of each scenario     *)
(* and screen of the contract it began with stays on disk.                     *)

ReceiptFields == {"m", "partial", "exit", "screen", "failures", "outcome", "intact"}

IsReceipt(r) == r = [f \in ReceiptFields |-> r[f]]

FullPass(r) ==
  ~r.partial /\ r.outcome = "PASS" =>
    /\ r.failures = {}
    /\ J!HasScenarios(r.m) =>
         /\ \A ac \in r.m.target : \A t \in J!Owners(r.m, ac) : t \in DOMAIN r.exit /\ r.exit[t]
         /\ \A c \in DOMAIN r.m.screens :
              r.m.screens[c].by \in J!Scenarios(r.m) =>
                c \in DOMAIN r.screen /\ r.screen[c] = "shown"

\* What a receipt tells of the targets that ran.
RanAsTold(r) ==
  /\ r.outcome \in {"PASS", "FAIL"}
  /\ r.partial => J!HasScenarios(r.m)
  /\ ~J!HasScenarios(r.m) => J!Executed(r) \subseteq {Whole}
  /\ r.outcome = "PASS" =>
       J!Failed(r) = {} /\ (~J!HasScenarios(r.m) => Whole \in J!Executed(r))

JourneyInv ==
  /\ \E S : receipts \in Seq(S)
  /\ \A i \in DOMAIN receipts :
       IsReceipt(receipts[i]) /\ FullPass(receipts[i]) /\ RanAsTold(receipts[i])

LEMMA JourneyInit == J!Init => JourneyInv
<1> SUFFICES ASSUME J!Init PROVE JourneyInv
  OBVIOUS
<1>1. receipts = <<>>
  BY DEF J!Init
<1>2. receipts \in Seq({}) /\ DOMAIN receipts = {}
  BY <1>1
<1> QED BY <1>2 DEF JourneyInv

\* A full run that passed ran and passed every scenario, before all its screens.
LEMMA PassedInFull ==
  ASSUME NEW m, NEW passed, NEW selected, NEW exit, NEW screen,
         selected = J!Targets(m), DOMAIN screen = J!ScreensOf(m, selected),
         NEW r, r = [m |-> m, partial |-> FALSE, passed |-> passed, exit |-> exit, screen |-> screen],
         J!Passes(r)
  PROVE  /\ J!Failures(r) = {}
         /\ J!HasScenarios(m) =>
              /\ \A ac \in m.target : \A t \in J!Owners(m, ac) : t \in DOMAIN exit /\ exit[t]
              /\ \A c \in DOMAIN m.screens :
                   m.screens[c].by \in J!Scenarios(m) => c \in DOMAIN screen /\ screen[c] = "shown"
<1>1. r.m = m /\ ~r.partial /\ r.exit = exit /\ r.screen = screen
  OBVIOUS
<1>2. J!Failures(r) = {} /\ (J!HasScenarios(m) => {J!ACResult(r, ac) : ac \in m.target} = {"PASS"})
  BY <1>1 DEF J!Passes
<1>3. \A c \in DOMAIN screen : screen[c] = "shown"
  BY <1>1, <1>2 DEF J!Failures
<1>4. ASSUME J!HasScenarios(m), NEW ac \in m.target, NEW t \in J!Owners(m, ac)
      PROVE  t \in DOMAIN exit /\ exit[t]
  <2>1. J!ACResult(r, ac) = "PASS"
    BY <1>2, <1>4
  <2>2. J!Owners(m, ac) \cap J!Failed(r) = {} /\ J!Owners(m, ac) \subseteq J!Executed(r)
    BY <1>1, <2>1 DEF J!ACResult
  <2> QED BY <1>1, <1>4, <2>2 DEF J!Failed, J!Executed
<1>5. ASSUME J!HasScenarios(m), NEW c \in DOMAIN m.screens, m.screens[c].by \in J!Scenarios(m)
      PROVE  c \in DOMAIN screen /\ screen[c] = "shown"
  <2>1. c \in DOMAIN screen
    BY <1>5 DEF J!ScreensOf, J!Targets
  <2> QED BY <1>3, <2>1
<1> QED BY <1>2, <1>4, <1>5

LEMMA JourneyStep ==
  ASSUME JourneyInv, [J!Next]_JVars
  PROVE  JourneyInv'
<1> USE DEF JourneyInv
<1>1. PICK S : receipts \in Seq(S)
  OBVIOUS
<1>2. CASE receipts' = receipts
  BY <1>2
<1>3. ASSUME NEW partial \in BOOLEAN, NEW selected \in J!Selectable(manifest, partial),
             NEW passed \in J!Phases, NEW exit \in J!Journey(passed, selected),
             NEW screen \in J!Screens(manifest, selected, exit),
             J!RunJourney(partial, selected, passed, exit, screen)
      PROVE  JourneyInv'
  <2> DEFINE r == [m |-> manifest, partial |-> partial, passed |-> passed, exit |-> exit,
                   screen |-> screen]
             new == [m |-> manifest, partial |-> partial, exit |-> exit, screen |-> screen,
                     failures |-> J!Failures(r),
                     outcome |-> IF J!Passes(r) THEN "PASS" ELSE "FAIL", intact |-> TRUE]
  <2>1. receipts' = Append(receipts, new)
    BY <1>3 DEF J!RunJourney
  <2>2. IsReceipt(new)
    BY DEF IsReceipt, ReceiptFields
  <2>3. FullPass(new)
    <3> SUFFICES ASSUME partial = FALSE, J!Passes(r)
                 PROVE  /\ J!Failures(r) = {}
                        /\ J!HasScenarios(manifest) =>
                             /\ \A ac \in manifest.target :
                                  \A t \in J!Owners(manifest, ac) : t \in DOMAIN exit /\ exit[t]
                             /\ \A c \in DOMAIN manifest.screens :
                                  manifest.screens[c].by \in J!Scenarios(manifest) =>
                                    c \in DOMAIN screen /\ screen[c] = "shown"
      BY DEF FullPass
    <3>1. selected = J!Targets(manifest)
      BY DEF J!Selectable
    <3>2. DOMAIN screen = J!ScreensOf(manifest, selected)
      BY DEF J!Screens
    <3> HIDE DEF r
    <3>3. r = [m |-> manifest, partial |-> FALSE, passed |-> passed, exit |-> exit, screen |-> screen]
      BY DEF r
    <3> QED BY <3>1, <3>2, <3>3, PassedInFull
  <2>6. RanAsTold(new)
    <3>1. /\ new.m = manifest /\ new.partial = partial /\ new.exit = exit
          /\ new.outcome = (IF J!Passes(r) THEN "PASS" ELSE "FAIL")
          /\ r.m = manifest /\ r.partial = partial /\ r.exit = exit /\ r.passed = passed
      OBVIOUS
    <3> HIDE DEF new, r
    <3>2. /\ J!Executed(new) = DOMAIN exit /\ J!Failed(new) = J!Failed(r)
      BY <3>1 DEF J!Executed, J!Failed
    <3>3. partial => J!HasScenarios(manifest)
      BY DEF J!Selectable
    <3>4. ~J!HasScenarios(manifest) => partial = FALSE /\ selected = {Whole}
      BY <3>3 DEF J!Selectable, J!Targets
    <3>5. DOMAIN exit = {} \/ DOMAIN exit = selected
      BY DEF J!Journey
    <3>6. "health" \in passed => DOMAIN exit = selected
      BY DEF J!Journey
    <3>7. J!Passes(r) => J!Failed(r) = {} /\ (partial = FALSE => "health" \in passed)
      <4>1. partial = TRUE /\ J!Passes(r) => J!Failed(r) = {}
        BY <3>1 DEF J!Passes
      <4>2. partial = FALSE /\ J!Passes(r) => J!Failures(r) = {}
        BY <3>1 DEF J!Passes
      <4>3. J!Failures(r) = {} => J!RunOk(r)
        BY DEF J!Failures
      <4>4. J!RunOk(r) => r.m.source = "journey_exit" /\ "health" \in passed
        BY <3>1 DEF J!RunOk
      <4>5. J!Failures(r) = {} => J!Failed(r) = {} /\ "health" \in passed
        BY <4>3, <4>4 DEF J!Failures
      <4> QED BY <4>1, <4>2, <4>5
    <3> QED BY <3>1, <3>2, <3>3, <3>4, <3>5, <3>6, <3>7 DEF RanAsTold
  <2> HIDE DEF new
  <2>4. receipts \in Seq(S \cup {new})
    BY <1>1
  <2>5. /\ receipts' \in Seq(S \cup {new})
        /\ DOMAIN receipts' = DOMAIN receipts \cup {Len(receipts) + 1}
        /\ receipts'[Len(receipts) + 1] = new
        /\ \A i \in DOMAIN receipts : receipts'[i] = receipts[i]
    BY <2>1, <2>4
  <2> QED BY <2>2, <2>3, <2>5, <2>6
<1>4. ASSUME NEW i \in DOMAIN receipts, J!DamageEvidence(i) PROVE JourneyInv'
  <2> DEFINE old == receipts[i]
             new == [old EXCEPT !.intact = FALSE]
  <2>1. receipts' = [receipts EXCEPT ![i] = new]
    BY <1>4 DEF J!DamageEvidence
  <2>2. IsReceipt(old) /\ FullPass(old) /\ RanAsTold(old)
    BY <1>4
  <2> HIDE DEF old
  <2>3. /\ \A f \in ReceiptFields \ {"intact"} : new[f] = old[f]
        /\ IsReceipt(new)
    BY <2>2 DEF IsReceipt, ReceiptFields
  <2> HIDE DEF new
  <2>4. FullPass(new)
    BY <2>2, <2>3 DEF ReceiptFields, FullPass
  <2>6. RanAsTold(new)
    BY <2>2, <2>3 DEF ReceiptFields, RanAsTold, J!Executed, J!Failed
  <2>5. /\ receipts' \in Seq(S \cup {new}) /\ DOMAIN receipts' = DOMAIN receipts
        /\ \A k \in DOMAIN receipts : receipts'[k] = IF k = i THEN new ELSE receipts[k]
    BY <1>1, <2>1
  <2> QED BY <2>3, <2>4, <2>5, <2>6
<1> QED BY <1>2, <1>3, <1>4 DEF J!Next, J!Measure, JVars, J!EditManifest

LEMMA JourneyMoves == [Next]_vars => [J!Next]_JVars
BY DEF Next, Moves, vars

\* For any contracts, edits and damage: when an epic is told that it may close on a
\* run with scenarios, every owner of every criterion that the contract names today
\* ran and passed in that run, and its screens were shown (journey_receipt_gate of
\* harness/epic_outcome.py over the receipts of harness/product_journey.py).
THEOREM CloseIsBacked == Spec => []CloseReadySound
<1>1. Init => JourneyInv
  BY JourneyInit DEF Init
<1>2. JourneyInv /\ [Next]_vars => JourneyInv'
  BY JourneyMoves, JourneyStep
<1>3. JourneyInv => CloseReadySound
  <2> SUFFICES ASSUME JourneyInv, J!CloseReady PROVE J!CloseReadySound
    BY DEF CloseReadySound, J!CloseReadySound
  <2> DEFINE newest == J!Max(J!Accepted)
             r == receipts[newest]
  <2>1. newest \in J!Accepted /\ r.outcome = "PASS"
    <3>1. PICK S : receipts \in Seq(S)
      BY DEF JourneyInv
    <3>2. Len(receipts) \in Nat /\ J!Accepted \in SUBSET (0..Len(receipts))
      BY <3>1 DEF J!Accepted
    <3> QED BY <3>2, LargestNumber DEF J!CloseReady
  <2>2. J!IsValidReceipt(r) /\ FullPass(r)
    BY <2>1 DEF J!Accepted, JourneyInv
  <2> HIDE DEF r, newest
  <2>3. ASSUME J!HasScenarios(r.m)
        PROVE  /\ r.failures = {}
               /\ \A ac \in manifest.target : \A t \in J!Owners(manifest, ac) :
                    /\ t \in J!Executed(r) \ J!Failed(r)
                    /\ \A c \in J!ScreensOf(manifest, {t}) :
                         r.m.boundary = "ui" => r.screen[c] = "shown"
    <3>1. ~r.partial /\ manifest.target = r.m.target /\ manifest.owns = r.m.owns
      BY <2>2, <2>3 DEF J!IsValidReceipt, J!ScenariosAccepted
    <3>2. r.m.boundary = "ui" => manifest.screens = r.m.screens
      BY <2>2 DEF J!IsValidReceipt, J!UiAccepted, J!LayoutAccepted
    <3>3. /\ r.failures = {}
          /\ \A ac \in r.m.target : \A t \in J!Owners(r.m, ac) : t \in DOMAIN r.exit /\ r.exit[t]
          /\ \A c \in DOMAIN r.m.screens :
               r.m.screens[c].by \in J!Scenarios(r.m) =>
                 c \in DOMAIN r.screen /\ r.screen[c] = "shown"
      BY <2>1, <2>2, <2>3, <3>1 DEF FullPass, r
    <3>4. \A ac : J!Owners(manifest, ac) = J!Owners(r.m, ac) /\ J!Owners(r.m, ac) \subseteq J!Scenarios(r.m)
      BY <3>1 DEF J!Owners, J!Scenarios
    <3> QED BY <3>1, <3>2, <3>3, <3>4 DEF J!Executed, J!Failed, J!ScreensOf
  <2> QED BY <2>3 DEF J!CloseReadySound, r, newest
<1> QED BY <1>1, <1>2, <1>3, PTL DEF Spec

\* The targets that are followed through the receipts.
Looked(from, wanted) == wanted \cup UNION {J!Scenarios(receipts[i].m) : i \in DOMAIN receipts}

\* The failures that are still open after the receipts up to each one.
FailingStep(from, wanted, f) ==
  /\ f[0] = [t \in Looked(from, wanted) |-> 0]
  /\ \A k \in 1..(Len(receipts) - from) : f[k] = J!Marked(f[k - 1], from + k, wanted)

\* The function that Failing names exists.
LEMMA FailingRuns ==
  ASSUME JourneyInv, NEW from \in DOMAIN receipts, NEW wanted
  PROVE  \E f : /\ f \in [0..(Len(receipts) - from) -> [Looked(from, wanted) -> 0..Len(receipts)]]
                /\ FailingStep(from, wanted, f)
                /\ J!Failing(from, wanted) = f[Len(receipts) - from]
<1> DEFINE n == Len(receipts) - from
           all == Looked(from, wanted)
           A == [all -> 0..Len(receipts)]
           first == [t \in all |-> 0]
           F == [k \in 1..n |-> [f \in A |-> J!Marked(f, from + k, wanted)]]
           IsFailing(f) == f = [k \in 0..n |-> IF k = 0 THEN first
                                               ELSE J!Marked(f[k - 1], from + k, wanted)]
<1>1. n \in Nat /\ from \in Nat /\ Len(receipts) \in Nat
  BY DEF JourneyInv
<1>2. first \in A
  BY <1>1
<1>3. \A k \in 1..n : \A f \in A : J!Marked(f, from + k, wanted) \in A
  <2> SUFFICES ASSUME NEW k \in 1..n, NEW f \in A PROVE J!Marked(f, from + k, wanted) \in A
    OBVIOUS
  <2>1. from + k \in 0..Len(receipts) /\ 0 \in 0..Len(receipts) /\ DOMAIN f = all
    BY <1>1
  <2> HIDE DEF all
  <2>2. \A t \in all : f[t] \in 0..Len(receipts)
    OBVIOUS
  <2> QED BY <2>1, <2>2 DEF J!Marked
<1>4. F \in StepFunctions(n, A)
  <2>1. F \in [1..n -> [A -> A]]
    BY <1>3
  <2> HIDE DEF F, A, n
  <2> QED BY <2>1 DEF StepFunctions
<1> HIDE DEF F, A, n, first, all
<1>5. PICK g : g \in [0..n -> A] /\ g[0] = first /\ \A k \in 1..n : g[k] = F[k][g[k - 1]]
  <2>1. \E g : Recursive(g, n, A, first, F)
    BY <1>1, <1>2, <1>4, Recursion
  <2> QED BY <2>1, Zenon DEF Recursive
<1>6. \A k \in 1..n : g[k] = J!Marked(g[k - 1], from + k, wanted)
  <2> SUFFICES ASSUME NEW k \in 1..n PROVE g[k] = J!Marked(g[k - 1], from + k, wanted)
    OBVIOUS
  <2>1. k - 1 \in 0..n
    BY <1>1
  <2>2. g[k - 1] \in A
    BY <1>5, <2>1
  <2> QED BY <1>5, <2>2 DEF F
<1>7. IsFailing(g)
  <2> DEFINE h == [k \in 0..n |-> IF k = 0 THEN first
                                  ELSE J!Marked(g[k - 1], from + k, wanted)]
  <2>1. \A k \in 0..n : g[k] = h[k]
    <3> SUFFICES ASSUME NEW k \in 0..n PROVE g[k] = h[k]
      OBVIOUS
    <3>1. CASE k = 0
      BY <3>1, <1>5
    <3>2. CASE k # 0
      <4>1. k \in 1..n
        BY <3>2, <1>1
      <4> QED BY <4>1, <3>2, <1>6
    <3> QED BY <3>1, <3>2
  <2>2. g = h
    <3>1. DOMAIN g = 0..n /\ g = [k \in 0..n |-> g[k]]
      BY <1>5
    <3> HIDE DEF h
    <3>2. h = [k \in 0..n |-> h[k]]
      BY DEF h
    <3> QED BY <2>1, <3>1, <3>2
  <2> QED BY <2>2
<1> DEFINE f == CHOOSE f : IsFailing(f)
<1>8. J!Failing(from, wanted) = f[n]
  BY Zenon DEF J!Failing, n, first, all, Looked
<1>9. IsFailing(f)
  <2> HIDE DEF IsFailing
  <2> QED BY <1>7, Zenon
<1>10. f = [k \in 0..n |-> IF k = 0 THEN first ELSE J!Marked(f[k - 1], from + k, wanted)]
  BY <1>9
<1> HIDE DEF f, IsFailing
<1>11. f[0] = first
  <2>1. 0 \in 0..n
    BY <1>1
  <2> QED BY <1>10, <2>1
<1>12. ASSUME NEW k \in 1..n PROVE f[k] = J!Marked(f[k - 1], from + k, wanted)
  <2>1. k \in 0..n /\ k # 0
    BY <1>1
  <2> QED BY <1>10, <2>1
<1>13. f \in [0..n -> A]
  <2> DEFINE good == {k \in 0..n : f[k] \in A}
  <2>1. 0 \in good
    BY <1>1, <1>2, <1>11
  <2>2. \A k \in 1..n : k - 1 \in good => k \in good
    BY <1>1, <1>3, <1>12
  <2> HIDE DEF good
  <2>3. 0..n \subseteq good
    BY <1>1, <2>1, <2>2, StepByStep
  <2>4. \A k \in 0..n : f[k] \in A
    BY <2>3 DEF good
  <2>5. f = [k \in 0..n |-> f[k]]
    <3> DEFINE h == [k \in 0..n |-> IF k = 0 THEN first ELSE J!Marked(f[k - 1], from + k, wanted)]
    <3>1. h = [k \in 0..n |-> h[k]]
      OBVIOUS
    <3> HIDE DEF h
    <3>2. f = h
      BY <1>10 DEF h
    <3> QED BY <3>1, <3>2
  <2> QED BY <2>4, <2>5
<1>14. FailingStep(from, wanted, f)
  BY <1>11, <1>12 DEF FailingStep, n, first, all
<1> QED BY <1>8, <1>13, <1>14 DEF n, A, all

\* No run since then has failed t and left it so.
Passed(from, n, t) ==
  LET later == {i \in (from + 1)..(from + n) :
                  t \in J!Executed(receipts[i]) \/ J!RunLevelFailure(receipts[i])}
  IN later # {} => LET r == receipts[J!Max(later)]
                   IN ~J!RunLevelFailure(r) /\ r.exit[t]

\* A target that no receipt leaves failing was passed by the last that is about it.
LEMMA ZeroIsPassed ==
  ASSUME JourneyInv, NEW from \in DOMAIN receipts, NEW wanted, NEW t \in wanted, NEW f,
         f \in [0..(Len(receipts) - from) -> [Looked(from, wanted) -> 0..Len(receipts)]],
         FailingStep(from, wanted, f)
  PROVE  \A n \in 0..(Len(receipts) - from) : f[n][t] = 0 => Passed(from, n, t)
<1> DEFINE ahead == Len(receipts) - from
           good == {n \in 0..ahead : f[n][t] = 0 => Passed(from, n, t)}
           About(i) == t \in J!Executed(receipts[i]) \/ J!RunLevelFailure(receipts[i])
<1>1. ahead \in Nat /\ from \in Nat /\ from >= 1 /\ DOMAIN receipts = 1..Len(receipts)
  BY DEF JourneyInv
<1>2. t \in Looked(from, wanted)
  BY DEF Looked
<1>3. 0 \in good
  <2>1. (from + 1)..(from + 0) = {}
    BY <1>1
  <2> QED BY <1>1, <2>1 DEF Passed
<1>4. ASSUME NEW k \in 1..ahead, k - 1 \in good PROVE k \in good
  <2> DEFINE i == from + k
             r == receipts[i]
             before == {j \in (from + 1)..(from + (k - 1)) : About(j)}
             now == {j \in (from + 1)..(from + k) : About(j)}
  <2> SUFFICES ASSUME f[k][t] = 0 PROVE Passed(from, k, t)
    BY <1>1
  <2>1. i \in DOMAIN receipts /\ i \in Nat /\ i # 0 /\ k - 1 \in 0..ahead
    BY <1>1
  <2>2. /\ f[k] = J!Marked(f[k - 1], i, wanted)
        /\ f[k - 1] \in [Looked(from, wanted) -> 0..Len(receipts)]
    BY <2>1 DEF FailingStep
  <2>3. f[k][t] =
          (IF J!RunLevelFailure(r)
           THEN (IF t \in wanted \cup J!Scenarios(r.m) THEN i ELSE f[k - 1][t])
           ELSE IF \/ t = Whole /\ r.outcome = "PASS" /\ ~J!HasScenarios(r.m)
                   \/ J!HasScenarios(r.m) /\ t \in J!Executed(r) \ J!Failed(r)
                THEN 0
                ELSE IF J!HasScenarios(r.m) /\ t \in J!Failed(r) THEN i ELSE f[k - 1][t])
    BY <1>2, <2>2 DEF J!Marked
  <2>4. RanAsTold(r)
    BY <2>1 DEF JourneyInv
  <2> HIDE DEF i, r
  <2>5. ~J!RunLevelFailure(r)
    BY <2>1, <2>3
  <2>6. CASE t \in J!Executed(r)
    <3>1. t \notin J!Failed(r)
      <4>1. CASE J!HasScenarios(r.m)
        BY <2>1, <2>3, <2>5, <2>6, <4>1
      <4>2. CASE ~J!HasScenarios(r.m)
        <5>1. r.outcome # "FAIL"
          BY <2>5, <4>2 DEF J!RunLevelFailure
        <5> QED BY <2>4, <5>1 DEF RanAsTold
      <4> QED BY <4>1, <4>2
    <3>2. r.exit[t]
      BY <2>6, <3>1 DEF J!Failed, J!Executed
    <3>3. i \in now /\ now \in SUBSET (0..i)
      BY <1>1, <2>6 DEF i, r
    <3>4. J!Max(now) = i
      <4>1. i \in Nat /\ now # {}
        BY <2>1, <3>3
      <4> HIDE DEF now
      <4>2. J!Max(now) \in now /\ \A y \in now : J!Max(now) >= y
        BY <3>3, <4>1, LargestNumber
      <4>3. J!Max(now) \in 0..i /\ J!Max(now) >= i
        BY <3>3, <4>2
      <4> QED BY <4>1, <4>3
    <3> QED BY <2>5, <3>2, <3>4 DEF Passed, r
  <2>7. CASE t \notin J!Executed(r)
    <3>1. now = before
      <4>1. ~About(i)
        BY <2>5, <2>7 DEF r
      <4>2. \A j : j \in (from + 1)..(from + k) <=> j \in (from + 1)..(from + (k - 1)) \/ j = i
        <5>1. k \in Nat /\ k >= 1 /\ from \in Nat
          BY <1>1
        <5>2. i = from + k /\ i \in Int
          BY <5>1 DEF i
        <5>3. \A j \in Int : j \in (from + 1)..(from + k) <=> j \in (from + 1)..(from + (k - 1)) \/ j = i
          BY <5>1, <5>2
        <5> QED BY <5>2, <5>3
      <4>3. i \notin (from + 1)..(from + (k - 1))
        BY <1>1 DEF i
      <4> HIDE DEF About
      <4> QED BY <4>1, <4>2, <4>3
    <3>2. f[k - 1][t] = 0
      <4>1. ~(t = Whole /\ r.outcome = "PASS" /\ ~J!HasScenarios(r.m))
        BY <2>4, <2>7 DEF RanAsTold
      <4>2. t \notin J!Failed(r)
        BY <2>7 DEF J!Failed
      <4> QED BY <2>3, <2>5, <2>7, <4>1, <4>2
    <3>3. Passed(from, k - 1, t)
      BY <1>4, <3>2
    <3> QED BY <3>1, <3>3 DEF Passed
  <2> QED BY <2>6, <2>7
<1>5. 0..ahead \subseteq good
  <2>1. \A k \in 1..ahead : k - 1 \in good => k \in good
    BY <1>4
  <2> HIDE DEF good
  <2> QED BY <1>1, <1>3, <2>1, StepByStep
<1> QED BY <1>5

\* For any contracts, runs and damage: a skip that names a PASS relies on a full one,
\* and no later run left one of its targets failing (record_skip and
\* _unresolved_failure of harness/product_journey.py).
THEOREM SkipIsBacked == Spec => []SkipBacked
<1>1. Init => JourneyInv
  BY JourneyInit DEF Init
<1>2. JourneyInv /\ [Next]_vars => JourneyInv'
  BY JourneyMoves, JourneyStep
<1>3. JourneyInv => J!SkipBacked
  <2> SUFFICES ASSUME JourneyInv, NEW wanted \in SUBSET J!Targets(manifest) \ {{}},
                      NEW basis, basis = J!SkipBasis(wanted), basis # 0
               PROVE  /\ ~receipts[basis].partial
                      /\ \A t \in wanted :
                           LET later == {i \in (basis + 1)..Len(receipts) :
                                 t \in J!Executed(receipts[i]) \/ J!RunLevelFailure(receipts[i])}
                           IN later # {} => LET r == receipts[J!Max(later)]
                                            IN ~J!RunLevelFailure(r) /\ r.exit[t]
    BY Zenon DEF J!SkipBacked
  <2> DEFINE passes == {i \in J!Accepted : receipts[i].outcome = "PASS"}
             n == Len(receipts) - basis
  <2>1. passes # {} /\ basis = J!Max(passes) /\ J!UnresolvedFailure(basis, wanted) = 0
    BY DEF J!SkipBasis
  <2>2. Len(receipts) \in Nat /\ DOMAIN receipts = 1..Len(receipts)
    BY DEF JourneyInv
  <2>3. basis \in passes
    <3>1. passes \in SUBSET (0..Len(receipts))
      BY <2>2 DEF J!Accepted
    <3> HIDE DEF passes
    <3> QED BY <2>1, <2>2, <3>1, LargestNumber
  <2>4. basis \in DOMAIN receipts /\ J!IsValidReceipt(receipts[basis]) /\ RanAsTold(receipts[basis])
    BY <2>3 DEF J!Accepted, JourneyInv
  <2>5. ~receipts[basis].partial
    BY <2>4 DEF J!IsValidReceipt, J!ScenariosAccepted, RanAsTold
  <2>6. PICK f : /\ f \in [0..n -> [Looked(basis, wanted) -> 0..Len(receipts)]]
                 /\ FailingStep(basis, wanted, f)
                 /\ J!Failing(basis, wanted) = f[n]
    BY <2>4, FailingRuns
  <2>7. n \in 0..n /\ basis + n = Len(receipts)
    BY <2>2, <2>4
  <2>8. ASSUME NEW t \in wanted PROVE f[n][t] = 0
    <3> DEFINE marks == {J!Failing(basis, wanted)[u] : u \in wanted}
    <3>1. J!Max(marks) = 0
      BY <2>1 DEF J!UnresolvedFailure
    <3>2. f[n] \in [Looked(basis, wanted) -> 0..Len(receipts)] /\ wanted \subseteq Looked(basis, wanted)
      BY <2>6, <2>7 DEF Looked
    <3>3. \A u \in wanted : f[n][u] \in 0..Len(receipts)
      BY <3>2
    <3>4. f[n][t] \in marks /\ marks \in SUBSET (0..Len(receipts))
      BY <2>6, <3>3
    <3> HIDE DEF marks
    <3>5. \A y \in marks : J!Max(marks) >= y
      BY <2>2, <3>4, LargestNumber
    <3>6. f[n][t] \in Nat /\ 0 >= f[n][t]
      BY <2>2, <3>1, <3>3, <3>4, <3>5
    <3> QED BY <3>6
  <2>9. ASSUME NEW t \in wanted PROVE Passed(basis, n, t)
    BY <2>4, <2>6, <2>7, <2>8, ZeroIsPassed
  <2> HIDE DEF n
  <2> QED BY <2>5, <2>7, <2>9, Zenon DEF Passed
<1>4. J!SkipBacked => SkipBacked
  BY DEF SkipBacked
<1> QED BY <1>1, <1>2, <1>3, <1>4, PTL DEF Spec
=============================================================================

--------------------------- MODULE MutationJournal ---------------------------
(***************************************************************************)
(* The durable mutation journal of the engine                              *)
(* (engine/src/api/services/mutation_journal.py and models/mutation.py).   *)
(*                                                                         *)
(* One row per controlled mutation, keyed by operation id and by a unique  *)
(* idempotency key.  Every operation of MutationJournalService that        *)
(* changes a row is an action here; each runs under a row lock in one      *)
(* transaction, or is one UPDATE statement, so each is one atomic step.    *)
(* This module leaves the callers open: any caller may call any operation  *)
(* at any time.  Module MutationControl adds the callers of the program.   *)
(*                                                                         *)
(* Timestamps are kept relative to the present: a lease field holds the    *)
(* seconds that are left of it, age the seconds since created_at and idle  *)
(* those since updated_at, each cut off where no comparison of the code    *)
(* can tell larger values apart.                                           *)
(***************************************************************************)
EXTENDS Integers, FiniteSets

CONSTANTS
    Ops,            \* operation ids (MutationOperation.id)
    Keys,           \* idempotency keys
    Runs,           \* workflow run ids: they own rows and execution leases
    Verifiers,      \* verification lease owners
    NoOne,          \* the null owner, run or key
    LeaseSeconds,                   \* MUTATION_LEASE_SECONDS
    VerificationLeaseSeconds,       \* the lease computed by claim_verification
    MaxVerificationAttempts,        \* MUTATION_MAX_VERIFICATION_ATTEMPTS
    MaxVerificationAge,             \* MUTATION_MAX_VERIFICATION_AGE_SECONDS
    RecoveryGraceSeconds            \* MUTATION_RECOVERY_GRACE_SECONDS

ASSUME JournalConstants ==
    /\ LeaseSeconds \in Nat \ {0}
    /\ VerificationLeaseSeconds \in Nat \ {0}
    /\ MaxVerificationAttempts \in Nat \ {0}
    /\ MaxVerificationAge \in Nat \ {0}
    /\ RecoveryGraceSeconds \in Nat
    /\ NoOne \notin Keys \cup Runs \cup Verifiers

VARIABLE journal    \* journal[o] is the row of operation o

-----------------------------------------------------------------------------
(* Rows *)

ExecutionStatus ==
    {"prepared", "executing", "reported_success", "failed", "unknown", "cancelled"}

VerificationStatus ==
    {"not_required", "pending", "verifying", "passed", "failed", "inconclusive",
     "needs_review"}

\* An operation whose outcome verification has to establish.
Ambiguous == {"reported_success", "unknown"}

\* claim_verification returns these unclaimed.
TerminalVerification == {"passed", "failed", "not_required", "needs_review"}

\* The verdicts that end the verification of an executed mutation.
FinalVerdicts == {"passed", "failed", "needs_review"}

Row ==
    [idempotency_key : Keys \cup {NoOne},
     run_id : Runs \cup {NoOne},
     execution_status : ExecutionStatus \cup {"absent"},
     verification_status : VerificationStatus,
     attempt_count : Nat,
     verification_attempt_count : 0..MaxVerificationAttempts,
     lease_owner : Runs \cup {NoOne},
     lease_left : -1..LeaseSeconds,
     verification_lease_owner : Verifiers \cup {NoOne},
     verification_lease_left : -1..VerificationLeaseSeconds,
     age : 0..MaxVerificationAge,
     idle : 0..(RecoveryGraceSeconds + 1)]

\* No row yet: only its execution_status is ever looked at.
AbsentRow ==
    [idempotency_key |-> NoOne, run_id |-> NoOne,
     execution_status |-> "absent", verification_status |-> "not_required",
     attempt_count |-> 0, verification_attempt_count |-> 0,
     lease_owner |-> NoOne, lease_left |-> 0,
     verification_lease_owner |-> NoOne, verification_lease_left |-> 0,
     age |-> 0, idle |-> 0]

Present(o) == journal[o].execution_status # "absent"

-----------------------------------------------------------------------------
(* What each operation does to one row *)

\* prepare: the row MutationOperation.create inserts.
PreparedRow(k, r, supported) ==
    [AbsentRow EXCEPT
        !.idempotency_key = k,
        !.run_id = r,
        !.execution_status = "prepared",
        !.verification_status = IF supported THEN "pending" ELSE "not_required"]

MarkedExecuting(row, r) ==
    [row EXCEPT
        !.execution_status = "executing",
        !.attempt_count = @ + 1,
        !.lease_owner = r,
        !.lease_left = LeaseSeconds,
        !.idle = 0]

RecordedExecution(row, status) ==
    [row EXCEPT
        !.execution_status = status,
        !.verification_status =
            IF status \in {"failed", "cancelled"} THEN "not_required" ELSE @,
        !.lease_owner = NoOne,
        !.lease_left = 0,
        !.verification_lease_owner =
            IF status \in {"failed", "cancelled"} THEN NoOne ELSE @,
        !.verification_lease_left =
            IF status \in {"failed", "cancelled"} THEN 0 ELSE @,
        !.idle = 0]

\* Off by one: a further attempt after the last one of the budget.
BudgetExhaustedTooLate(row) ==
    \/ row.verification_attempt_count > MaxVerificationAttempts
    \/ row.age >= MaxVerificationAge

\* verification_budget_exhausted
VerificationBudgetExhausted(row) ==
    \/ row.verification_attempt_count >= MaxVerificationAttempts
    \/ row.age >= MaxVerificationAge

\* A release that forgets the lease columns.
ReleasedKeepingLease(row, status) ==
    [row EXCEPT !.verification_status = status, !.idle = 0]

\* record_verification, abandon_verification, recover_stale_verifications and the
\* budget exit of claim_verification all end a verification like this.
ReleasedVerification(row, status) ==
    [row EXCEPT
        !.verification_status = status,
        !.verification_lease_owner = NoOne,
        !.verification_lease_left = 0,
        !.idle = 0]

ClaimedVerification(row, v) ==
    [row EXCEPT
        !.verification_status = "verifying",
        !.verification_attempt_count = @ + 1,
        !.verification_lease_owner = v,
        !.verification_lease_left = VerificationLeaseSeconds,
        !.idle = 0]

\* The outcome of an abandoned execution is unknown and needs verification.
RecoveredExecution(row) ==
    [row EXCEPT
        !.execution_status = "unknown",
        !.verification_status = "pending",
        !.lease_owner = NoOne,
        !.lease_left = 0,
        !.verification_lease_owner = NoOne,
        !.verification_lease_left = 0,
        !.idle = 0]

CancelledBeforeExecution(row) ==
    [row EXCEPT
        !.execution_status = "cancelled",
        !.verification_status = "not_required",
        !.lease_owner = NoOne,
        !.lease_left = 0,
        !.verification_lease_owner = NoOne,
        !.verification_lease_left = 0,
        !.idle = 0]

\* One second passes for a row.
Elapsed(row) ==
    [row EXCEPT
        !.lease_left = IF row.lease_owner # NoOne /\ @ >= 0 THEN @ - 1 ELSE @,
        !.verification_lease_left =
            IF row.verification_lease_owner # NoOne /\ @ >= 0 THEN @ - 1 ELSE @,
        !.age = IF @ < MaxVerificationAge THEN @ + 1 ELSE @,
        !.idle = IF @ <= RecoveryGraceSeconds THEN @ + 1 ELSE @]

-----------------------------------------------------------------------------
(* Conditions the operations and their callers read off a row *)

\* lease_expires_at < now, or null
ExecutionLeaseStale(row) == row.lease_owner = NoOne \/ row.lease_left < 0

\* verification_lease_expires_at < now, or null
VerificationLeaseStale(row) ==
    row.verification_lease_owner = NoOne \/ row.verification_lease_left < 0

\* claim_verification: lease_active
VerificationLeaseActive(row) ==
    /\ row.verification_status = "verifying"
    /\ row.verification_lease_owner # NoOne
    /\ row.verification_lease_left > 0

\* A claim that does not look at the lease.
ClaimableIgnoringLease(row, v) ==
    /\ row.execution_status \in Ambiguous
    /\ row.verification_status \notin TerminalVerification
    /\ ~VerificationBudgetExhausted(row)

\* claim_verification hands the row to the caller.
Claimable(row, v) ==
    /\ row.execution_status \in Ambiguous
    /\ row.verification_status \notin TerminalVerification
    /\ ~VerificationBudgetExhausted(row)
    /\ VerificationLeaseActive(row) => row.verification_lease_owner = v

\* claim_verification gives up on the row instead.
NeedsReview(row) ==
    /\ row.execution_status \in Ambiguous
    /\ row.verification_status \notin TerminalVerification
    /\ VerificationBudgetExhausted(row)

HoldsVerification(row, v) ==
    /\ row.verification_status = "verifying"
    /\ row.verification_lease_owner = v

-----------------------------------------------------------------------------
(* Operations *)

Init == journal = [o \in Ops |-> AbsentRow]

\* prepare: the INSERT, refused by either unique index.
Insert(o, k, r, supported) ==
    /\ ~Present(o)
    /\ \A p \in Ops : Present(p) => journal[p].idempotency_key # k
    /\ journal' = [journal EXCEPT ![o] = PreparedRow(k, r, supported)]

\* A retry that executes an operation whose outcome is unknown once more.
MarkExecutingAgain(o, r) ==
    /\ journal[o].execution_status \in {"prepared", "unknown"}
    /\ journal' = [journal EXCEPT ![o] = MarkedExecuting(@, r)]

MarkExecuting(o, r) ==
    /\ journal[o].execution_status = "prepared"
    /\ journal' = [journal EXCEPT ![o] = MarkedExecuting(@, r)]

\* The outcome is recorded whatever happened to the row in the meantime.
RecordExecutionAnyState(o, status) ==
    /\ journal[o].execution_status \in ExecutionStatus \ {"prepared"}
    /\ journal' = [journal EXCEPT ![o] = RecordedExecution(@, status)]

RecordExecution(o, status) ==
    /\ journal[o].execution_status = "executing"
    /\ journal' = [journal EXCEPT ![o] = RecordedExecution(@, status)]

\* claim_verification, where it returns (operation, True)
ClaimVerification(o, v) ==
    /\ Claimable(journal[o], v)
    /\ journal' = [journal EXCEPT ![o] = ClaimedVerification(@, v)]

\* claim_verification, where the budget is exhausted
GiveUpVerification(o) ==
    /\ NeedsReview(journal[o])
    /\ journal' = [journal EXCEPT ![o] = ReleasedVerification(@, "needs_review")]

\* A verifier that lost its lease still gets its verdict recorded.
RecordVerificationLate(o, v, status) ==
    /\ Present(o)
    /\ journal[o].verification_attempt_count > 0
    /\ journal' = [journal EXCEPT ![o] = ReleasedVerification(@, status)]

RecordVerification(o, v, status) ==
    /\ HoldsVerification(journal[o], v)
    /\ journal' = [journal EXCEPT ![o] = ReleasedVerification(@, status)]

AbandonVerification(o, v) ==
    /\ HoldsVerification(journal[o], v)
    /\ journal' = [journal EXCEPT ![o] = ReleasedVerification(@, "inconclusive")]

\* One UPDATE over every row of a set.
UpdateRows(S, Change(_)) ==
    journal' = [o \in Ops |-> IF o \in S THEN Change(journal[o]) ELSE journal[o]]

StaleExecutions ==
    {o \in Ops : /\ journal[o].execution_status = "executing"
                 /\ ExecutionLeaseStale(journal[o])}

RecoverStaleExecutions == UpdateRows(StaleExecutions, RecoveredExecution)

StaleVerifications ==
    {o \in Ops : /\ journal[o].verification_status = "verifying"
                 /\ VerificationLeaseStale(journal[o])}

RecoverStaleVerifications ==
    LET Inconclusive(row) == ReleasedVerification(row, "inconclusive")
    IN  UpdateRows(StaleVerifications, Inconclusive)

RowsOfRun(r, status) ==
    {o \in Ops : journal[o].run_id = r /\ journal[o].execution_status = status}

\* A Stop that takes executing rows for rows that never started.
CancelUnsettledRows(r) ==
    UpdateRows(RowsOfRun(r, "prepared") \cup RowsOfRun(r, "executing"),
               CancelledBeforeExecution)

\* converge_stopped_run is two UPDATE statements, each committed on its own.
CancelPreparedRows(r) == UpdateRows(RowsOfRun(r, "prepared"), CancelledBeforeExecution)

MarkExecutingRowsUnknown(r) == UpdateRows(RowsOfRun(r, "executing"), RecoveredExecution)

Tick == UpdateRows({o \in Ops : Present(o)}, Elapsed)

Next ==
    \/ \E o \in Ops, k \in Keys, r \in Runs, s \in BOOLEAN : Insert(o, k, r, s)
    \/ \E o \in Ops, r \in Runs : MarkExecuting(o, r)
    \/ \E o \in Ops, st \in {"reported_success", "failed", "unknown", "cancelled"} :
          RecordExecution(o, st)
    \/ \E o \in Ops, v \in Verifiers : ClaimVerification(o, v)
    \/ \E o \in Ops : GiveUpVerification(o)
    \/ \E o \in Ops, v \in Verifiers, st \in {"passed", "failed", "inconclusive"} :
          RecordVerification(o, v, st)
    \/ \E o \in Ops, v \in Verifiers : AbandonVerification(o, v)
    \/ RecoverStaleExecutions
    \/ RecoverStaleVerifications
    \/ \E r \in Runs : CancelPreparedRows(r)
    \/ \E r \in Runs : MarkExecutingRowsUnknown(r)
    \/ Tick

Spec == Init /\ [][Next]_journal

-----------------------------------------------------------------------------
(* Properties *)

\* Type invariant.  Its one deep part is the attempt budget: claim_verification
\* never counts past MUTATION_MAX_VERIFICATION_ATTEMPTS.
TypeOK == journal \in [Ops -> Row]

\* What the two status columns and the two leases of a row owe each other,
\* whatever the order in which callers, recovery and Stop reach the row:
\* an execution lease exists exactly while the row is executing, a verification
\* lease exactly while it is verifying, a verifier only ever works on a row whose
\* execution is over, and a row that is known not to have run is not verified.
RowConsistent(row) ==
    /\ row.execution_status = "executing" <=> row.lease_owner # NoOne
    /\ row.verification_status = "verifying" <=> row.verification_lease_owner # NoOne
    /\ row.execution_status \in {"absent", "prepared", "executing"} =>
          row.verification_status \in {"pending", "not_required"}
    /\ row.execution_status \in {"failed", "cancelled"} =>
          row.verification_status = "not_required"

RowsConsistent == \A o \in Ops : RowConsistent(journal[o])

\* An operation enters EXECUTING at most once in its life (mark_executing), and
\* not before it is prepared: the journal never hands out a second execution.
RowExecutedOnce(row) ==
    /\ row.attempt_count <= 1
    /\ row.execution_status \in {"absent", "prepared"} => row.attempt_count = 0
    /\ row.execution_status \in Ambiguous \cup {"executing", "failed"} =>
          row.attempt_count = 1

ExecutedOnce == \A o \in Ops : RowExecutedOnce(journal[o])

\* A verdict that ends verification is never changed again, by a late verifier,
\* a recovery pass, a Stop or a late execution result (docstring of
\* claim_verification: "without regressing a terminal result").
VerdictIsFinal ==
    [][\A o \in Ops :
         journal[o].verification_status \in FinalVerdicts =>
           journal'[o].verification_status = journal[o].verification_status]_journal

\* An execution outcome once recorded is never changed again.
OutcomeIsFinal ==
    [][\A o \in Ops :
         journal[o].execution_status \in ExecutionStatus \ {"prepared", "executing"} =>
           journal'[o].execution_status = journal[o].execution_status]_journal

\* The lease of a verifier is never handed to another one while it is active.
LeaseNotStolen ==
    [][\A o \in Ops :
         /\ VerificationLeaseActive(journal[o])
         /\ journal'[o].verification_lease_owner # NoOne
         => journal'[o].verification_lease_owner = journal[o].verification_lease_owner]_journal
=============================================================================

------------------------ MODULE MutationControlProofs ------------------------
(***************************************************************************)
(* Proofs about the journal and about the program around it: for every set *)
(* of operations, keys, runs, requests and lease owners, every lease and   *)
(* budget, and any number of crashes and Stops.                            *)
(*                                                                         *)
(* First the journal under arbitrary callers.  Its inductive invariant is  *)
(* stated per row, so each operation is proved once as a fact about one    *)
(* row and lifted to the table.                                            *)
(***************************************************************************)
EXTENDS MutationControl, TLAPS

RowInv(row) == row \in Row /\ RowConsistent(row) /\ RowExecutedOnce(row)

JournalInv == /\ journal \in [Ops -> Row]
              /\ \A o \in Ops : RowInv(journal[o])

-----------------------------------------------------------------------------
(* Each operation keeps the row invariant *)

\* The literal times the operations write are within the types of the columns.
LEMMA TimesTyped ==
  /\ LeaseSeconds \in -1..LeaseSeconds
  /\ 0 \in -1..LeaseSeconds
  /\ VerificationLeaseSeconds \in -1..VerificationLeaseSeconds
  /\ 0 \in -1..VerificationLeaseSeconds
  /\ 0 \in 0..(RecoveryGraceSeconds + 1)
  BY JournalConstants

\* The row that stands for "no row" satisfies the row invariant.
LEMMA AbsentRowInv == RowInv(AbsentRow)
<1>1. "not_required" \in VerificationStatus
  BY DEF VerificationStatus
<1>2. AbsentRow \in Row
  BY <1>1, JournalConstants DEF Row, AbsentRow
<1>3. RowConsistent(AbsentRow) /\ RowExecutedOnce(AbsentRow)
  BY JournalConstants DEF AbsentRow, RowConsistent, RowExecutedOnce, Ambiguous
<1>. QED  BY <1>2, <1>3 DEF RowInv

\* prepare inserts a row that satisfies the row invariant.
LEMMA PreparedRowInv ==
  ASSUME NEW k \in Keys, NEW r \in Runs, NEW s \in BOOLEAN
  PROVE  RowInv(PreparedRow(k, r, s))
<1> DEFINE st == IF s THEN "pending" ELSE "not_required"
           new == PreparedRow(k, r, s)
<1>1. st \in VerificationStatus /\ "prepared" \in ExecutionStatus
  BY DEF VerificationStatus, ExecutionStatus
<1>2. new = [AbsentRow EXCEPT !.idempotency_key = k, !.run_id = r,
                 !.execution_status = "prepared", !.verification_status = st]
  BY DEF PreparedRow
<1>3. AbsentRow \in Row
  BY AbsentRowInv DEF RowInv
<1> HIDE DEF st
<1>4. new \in Row
  BY <1>1, <1>2, <1>3 DEF Row
<1>5. RowConsistent(new) /\ RowExecutedOnce(new)
  BY JournalConstants DEF PreparedRow, AbsentRow, RowConsistent, RowExecutedOnce, Ambiguous
<1>. QED  BY <1>4, <1>5 DEF RowInv

\* mark_executing keeps the row invariant.
LEMMA MarkedExecutingInv ==
  ASSUME NEW row, RowInv(row), NEW r \in Runs, row.execution_status = "prepared"
  PROVE  RowInv(MarkedExecuting(row, r))
<1>1. row \in Row /\ "executing" \in ExecutionStatus
  BY DEF RowInv, ExecutionStatus
<1>2. row.attempt_count + 1 \in Nat
  BY <1>1 DEF Row
<1>3. MarkedExecuting(row, r) \in Row
  BY <1>1, <1>2, TimesTyped DEF Row, MarkedExecuting
<1>4. RowConsistent(MarkedExecuting(row, r))
  BY JournalConstants DEF RowInv, Row, MarkedExecuting, RowConsistent
<1>5. RowExecutedOnce(MarkedExecuting(row, r))
  BY JournalConstants DEF RowInv, Row, MarkedExecuting, RowExecutedOnce, Ambiguous
<1>. QED  BY <1>3, <1>4, <1>5 DEF RowInv

\* record_execution keeps the row invariant.
LEMMA RecordedExecutionInv ==
  ASSUME NEW row, RowInv(row), row.execution_status = "executing",
         NEW st \in {"reported_success", "failed", "unknown", "cancelled"}
  PROVE  RowInv(RecordedExecution(row, st))
<1>1. /\ row \in Row
      /\ st \in ExecutionStatus
      /\ "not_required" \in VerificationStatus
  BY DEF RowInv, ExecutionStatus, VerificationStatus
<1>2. RecordedExecution(row, st) \in Row
  BY <1>1, TimesTyped DEF Row, RecordedExecution
<1>3. RowConsistent(RecordedExecution(row, st))
  BY JournalConstants DEF RowInv, Row, RecordedExecution, RowConsistent
<1>4. RowExecutedOnce(RecordedExecution(row, st))
  BY JournalConstants DEF RowInv, Row, RecordedExecution, RowExecutedOnce, Ambiguous
<1>. QED  BY <1>2, <1>3, <1>4 DEF RowInv

\* A granted claim keeps the row invariant, the attempt budget included.
LEMMA ClaimedVerificationInv ==
  ASSUME NEW row, RowInv(row), NEW v \in Verifiers, Claimable(row, v)
  PROVE  RowInv(ClaimedVerification(row, v))
<1>1. row \in Row /\ "verifying" \in VerificationStatus
  BY DEF RowInv, VerificationStatus
<1>2. row.verification_attempt_count + 1 \in 0..MaxVerificationAttempts
  BY <1>1, JournalConstants DEF Row, Claimable, VerificationBudgetExhausted
<1>3. ClaimedVerification(row, v) \in Row
  BY <1>1, <1>2, TimesTyped DEF Row, ClaimedVerification
<1>4. RowConsistent(ClaimedVerification(row, v))
  BY JournalConstants
     DEF RowInv, Row, ClaimedVerification, RowConsistent, Claimable, Ambiguous
<1>5. RowExecutedOnce(ClaimedVerification(row, v))
  BY DEF RowInv, Row, ClaimedVerification, RowExecutedOnce
<1>. QED  BY <1>3, <1>4, <1>5 DEF RowInv

\* Ending a verification keeps the row invariant.
LEMMA ReleasedVerificationInv ==
  ASSUME NEW row, RowInv(row), row.execution_status \in Ambiguous,
         NEW st \in {"passed", "failed", "inconclusive", "needs_review"}
  PROVE  RowInv(ReleasedVerification(row, st))
<1>1. row \in Row /\ st \in VerificationStatus
  BY DEF RowInv, VerificationStatus
<1>2. ReleasedVerification(row, st) \in Row
  BY <1>1, TimesTyped DEF Row, ReleasedVerification
<1>3. RowConsistent(ReleasedVerification(row, st))
  BY JournalConstants DEF RowInv, Row, ReleasedVerification, RowConsistent, Ambiguous
<1>4. RowExecutedOnce(ReleasedVerification(row, st))
  BY DEF RowInv, Row, ReleasedVerification, RowExecutedOnce
<1>. QED  BY <1>2, <1>3, <1>4 DEF RowInv

\* Lease recovery and Stop keep the row invariant on an executing row.
LEMMA RecoveredExecutionInv ==
  ASSUME NEW row, RowInv(row), row.execution_status = "executing"
  PROVE  RowInv(RecoveredExecution(row))
<1>1. row \in Row /\ "unknown" \in ExecutionStatus /\ "pending" \in VerificationStatus
  BY DEF RowInv, ExecutionStatus, VerificationStatus
<1>2. RecoveredExecution(row) \in Row
  BY <1>1, TimesTyped DEF Row, RecoveredExecution
<1>3. RowConsistent(RecoveredExecution(row))
  BY JournalConstants DEF RowInv, Row, RecoveredExecution, RowConsistent
<1>4. RowExecutedOnce(RecoveredExecution(row))
  BY DEF RowInv, Row, RecoveredExecution, RowExecutedOnce, Ambiguous
<1>. QED  BY <1>2, <1>3, <1>4 DEF RowInv

\* Stop keeps the row invariant on a prepared row.
LEMMA CancelledBeforeExecutionInv ==
  ASSUME NEW row, RowInv(row), row.execution_status = "prepared"
  PROVE  RowInv(CancelledBeforeExecution(row))
<1>1. /\ row \in Row
      /\ "cancelled" \in ExecutionStatus
      /\ "not_required" \in VerificationStatus
  BY DEF RowInv, ExecutionStatus, VerificationStatus
<1>2. CancelledBeforeExecution(row) \in Row
  BY <1>1, TimesTyped DEF Row, CancelledBeforeExecution
<1>3. RowConsistent(CancelledBeforeExecution(row))
  BY JournalConstants DEF RowInv, Row, CancelledBeforeExecution, RowConsistent
<1>4. RowExecutedOnce(CancelledBeforeExecution(row))
  BY DEF RowInv, Row, CancelledBeforeExecution, RowExecutedOnce, Ambiguous
<1>. QED  BY <1>2, <1>3, <1>4 DEF RowInv

\* The passing of time keeps the row invariant.
LEMMA ElapsedInv ==
  ASSUME NEW row, RowInv(row)
  PROVE  RowInv(Elapsed(row))
<1>1. row \in Row
  BY DEF RowInv
<1>2. Elapsed(row) \in Row
  <2> DEFINE l == IF row.lease_owner # NoOne /\ row.lease_left >= 0
                  THEN row.lease_left - 1 ELSE row.lease_left
             v == IF row.verification_lease_owner # NoOne /\ row.verification_lease_left >= 0
                  THEN row.verification_lease_left - 1 ELSE row.verification_lease_left
             a == IF row.age < MaxVerificationAge THEN row.age + 1 ELSE row.age
             i == IF row.idle <= RecoveryGraceSeconds THEN row.idle + 1 ELSE row.idle
  <2>1. /\ l \in -1..LeaseSeconds
        /\ v \in -1..VerificationLeaseSeconds
        /\ a \in 0..MaxVerificationAge
        /\ i \in 0..(RecoveryGraceSeconds + 1)
    BY <1>1, JournalConstants DEF Row
  <2>2. Elapsed(row) = [row EXCEPT !.lease_left = l, !.verification_lease_left = v,
                                   !.age = a, !.idle = i]
    BY <1>1 DEF Elapsed, Row
  <2> HIDE DEF l, v, a, i
  <2>. QED  BY <1>1, <2>1, <2>2 DEF Row
<1>3. RowConsistent(Elapsed(row)) /\ RowExecutedOnce(Elapsed(row))
  BY <1>1 DEF RowInv, Row, Elapsed, RowConsistent, RowExecutedOnce
<1>. QED  BY <1>2, <1>3 DEF RowInv

\* Only a row whose execution is over is ever being verified.
LEMMA VerifyingIsAmbiguous ==
  ASSUME NEW row, RowInv(row), row.verification_status = "verifying"
  PROVE  row.execution_status \in Ambiguous
  BY DEF RowInv, Row, RowConsistent, ExecutionStatus, Ambiguous

-----------------------------------------------------------------------------
(* The invariant of the table *)

\* Replacing one row by one that satisfies the row invariant keeps the invariant.
LEMMA UpdateOneRow ==
  ASSUME JournalInv, NEW o \in Ops, NEW row, RowInv(row),
         journal' = [journal EXCEPT ![o] = row]
  PROVE  JournalInv'
<1>1. row \in Row
  BY DEF RowInv
<1>2. journal' \in [Ops -> Row]
  BY <1>1 DEF JournalInv
<1>3. ASSUME NEW p \in Ops PROVE RowInv(journal'[p])
  <2>1. journal'[p] = IF p = o THEN row ELSE journal[p]
    BY DEF JournalInv
  <2>. QED  BY <2>1 DEF JournalInv
<1>. QED  BY <1>2, <1>3 DEF JournalInv

\* The same for a statement that replaces several rows.
LEMMA UpdateSomeRows ==
  ASSUME NEW new, journal' = [o \in Ops |-> new[o]], \A o \in Ops : RowInv(new[o])
  PROVE  JournalInv'
<1>1. \A o \in Ops : journal'[o] = new[o] /\ new[o] \in Row
  BY DEF RowInv
<1>2. journal' \in [Ops -> Row]
  BY <1>1
<1>. QED  BY <1>1, <1>2 DEF JournalInv

\* Every operation of MutationJournalService keeps the invariant.
LEMMA NextJournalInv == JournalInv /\ [Next]_journal => JournalInv'
<1> SUFFICES ASSUME JournalInv, [Next]_journal PROVE JournalInv'
  OBVIOUS
<1>1. \A o \in Ops : RowInv(journal[o])
  BY DEF JournalInv
<1>2. ASSUME NEW o \in Ops, NEW k \in Keys, NEW r \in Runs, NEW s \in BOOLEAN,
             Insert(o, k, r, s)
      PROVE  JournalInv'
  BY <1>2, PreparedRowInv, UpdateOneRow DEF Insert
<1>3. ASSUME NEW o \in Ops, NEW r \in Runs, MarkExecuting(o, r) PROVE JournalInv'
  <2>1. RowInv(MarkedExecuting(journal[o], r))
    BY <1>1, <1>3, MarkedExecutingInv DEF MarkExecuting
  <2>. QED  BY <1>3, <2>1, UpdateOneRow DEF MarkExecuting
<1>4. ASSUME NEW o \in Ops,
             NEW st \in {"reported_success", "failed", "unknown", "cancelled"},
             RecordExecution(o, st)
      PROVE  JournalInv'
  <2>1. RowInv(RecordedExecution(journal[o], st))
    BY <1>1, <1>4, RecordedExecutionInv DEF RecordExecution
  <2>. QED  BY <1>4, <2>1, UpdateOneRow DEF RecordExecution
<1>5. ASSUME NEW o \in Ops, NEW v \in Verifiers, ClaimVerification(o, v)
      PROVE  JournalInv'
  <2>1. RowInv(ClaimedVerification(journal[o], v))
    BY <1>1, <1>5, ClaimedVerificationInv DEF ClaimVerification
  <2>. QED  BY <1>5, <2>1, UpdateOneRow DEF ClaimVerification
<1>6. ASSUME NEW o \in Ops, GiveUpVerification(o) PROVE JournalInv'
  <2>1. RowInv(ReleasedVerification(journal[o], "needs_review"))
    BY <1>1, <1>6, ReleasedVerificationInv DEF GiveUpVerification, NeedsReview
  <2>. QED  BY <1>6, <2>1, UpdateOneRow DEF GiveUpVerification
<1>7. ASSUME NEW o \in Ops, NEW v \in Verifiers,
             NEW st \in {"passed", "failed", "inconclusive"},
             RecordVerification(o, v, st)
      PROVE  JournalInv'
  <2>1. RowInv(ReleasedVerification(journal[o], st))
    BY <1>1, <1>7, ReleasedVerificationInv, VerifyingIsAmbiguous
       DEF RecordVerification, HoldsVerification
  <2>. QED  BY <1>7, <2>1, UpdateOneRow DEF RecordVerification
<1>8. ASSUME NEW o \in Ops, NEW v \in Verifiers, AbandonVerification(o, v)
      PROVE  JournalInv'
  <2>1. RowInv(ReleasedVerification(journal[o], "inconclusive"))
    BY <1>1, <1>8, ReleasedVerificationInv, VerifyingIsAmbiguous
       DEF AbandonVerification, HoldsVerification
  <2>. QED  BY <1>8, <2>1, UpdateOneRow DEF AbandonVerification
<1>9. CASE RecoverStaleExecutions
  <2> DEFINE new == [o \in Ops |-> IF o \in StaleExecutions
                                   THEN RecoveredExecution(journal[o]) ELSE journal[o]]
  <2>1. \A o \in Ops : RowInv(new[o])
    BY <1>1, RecoveredExecutionInv DEF StaleExecutions
  <2>2. journal' = [o \in Ops |-> new[o]]
    BY <1>9 DEF RecoverStaleExecutions, UpdateRows
  <2>. QED  BY <2>1, <2>2, UpdateSomeRows
<1>10. CASE RecoverStaleVerifications
  <2> DEFINE new == [o \in Ops |-> IF o \in StaleVerifications
                                   THEN ReleasedVerification(journal[o], "inconclusive")
                                   ELSE journal[o]]
  <2>1. \A o \in Ops : RowInv(new[o])
    BY <1>1, ReleasedVerificationInv, VerifyingIsAmbiguous DEF StaleVerifications
  <2>2. journal' = [o \in Ops |-> new[o]]
    BY <1>10 DEF RecoverStaleVerifications, UpdateRows
  <2>. QED  BY <2>1, <2>2, UpdateSomeRows
<1>11. ASSUME NEW r \in Runs, CancelPreparedRows(r) PROVE JournalInv'
  <2> DEFINE new == [o \in Ops |-> IF o \in RowsOfRun(r, "prepared")
                                   THEN CancelledBeforeExecution(journal[o])
                                   ELSE journal[o]]
  <2>1. \A o \in Ops : RowInv(new[o])
    BY <1>1, CancelledBeforeExecutionInv DEF RowsOfRun
  <2>2. journal' = [o \in Ops |-> new[o]]
    BY <1>11 DEF CancelPreparedRows, UpdateRows
  <2>. QED  BY <2>1, <2>2, UpdateSomeRows
<1>12. ASSUME NEW r \in Runs, MarkExecutingRowsUnknown(r) PROVE JournalInv'
  <2> DEFINE new == [o \in Ops |-> IF o \in RowsOfRun(r, "executing")
                                   THEN RecoveredExecution(journal[o]) ELSE journal[o]]
  <2>1. \A o \in Ops : RowInv(new[o])
    BY <1>1, RecoveredExecutionInv DEF RowsOfRun
  <2>2. journal' = [o \in Ops |-> new[o]]
    BY <1>12 DEF MarkExecutingRowsUnknown, UpdateRows
  <2>. QED  BY <2>1, <2>2, UpdateSomeRows
<1>13. CASE Tick
  <2> DEFINE new == [o \in Ops |-> IF o \in {p \in Ops : Present(p)}
                                   THEN Elapsed(journal[o]) ELSE journal[o]]
  <2>1. \A o \in Ops : RowInv(new[o])
    BY <1>1, ElapsedInv
  <2>2. journal' = [o \in Ops |-> new[o]]
    BY <1>13 DEF Tick, UpdateRows
  <2>. QED  BY <2>1, <2>2, UpdateSomeRows
<1>14. CASE UNCHANGED journal
  BY <1>14 DEF JournalInv
<1>. QED
  BY <1>2, <1>3, <1>4, <1>5, <1>6, <1>7, <1>8, <1>9, <1>10, <1>11, <1>12, <1>13, <1>14
     DEF Next

\* The empty journal satisfies the invariant.
LEMMA InitJournalInv == Init => JournalInv
  BY AbsentRowInv DEF Init, JournalInv, RowInv

\* The invariant holds under every sequence of calls.
THEOREM JournalInvariant == Spec => []JournalInv
  BY InitJournalInv, NextJournalInv, PTL DEF Spec

\* Type correctness: statuses, owners and remaining times stay in their columns'
\* types and claim_verification never counts past the attempt budget.
THEOREM TypeCorrect == Spec => []TypeOK
<1>1. JournalInv => TypeOK
  BY DEF JournalInv, TypeOK
<1>. QED  BY <1>1, JournalInvariant, PTL

\* The two status columns and the two leases of every row agree.
THEOREM RowsStayConsistent == Spec => []RowsConsistent
<1>1. JournalInv => RowsConsistent
  BY DEF JournalInv, RowInv, RowsConsistent
<1>. QED  BY <1>1, JournalInvariant, PTL

\* No operation enters EXECUTING twice.
THEOREM NeverExecutedTwice == Spec => []ExecutedOnce
<1>1. JournalInv => ExecutedOnce
  BY DEF JournalInv, RowInv, ExecutedOnce
<1>. QED  BY <1>1, JournalInvariant, PTL

-----------------------------------------------------------------------------
(* What one step may do to one row *)

RowNext(row, new) ==
    \/ new = row
    \/ /\ row.execution_status = "absent"
       /\ \E k \in Keys, r \in Runs, s \in BOOLEAN : new = PreparedRow(k, r, s)
    \/ /\ row.execution_status = "prepared"
       /\ \E r \in Runs : new = MarkedExecuting(row, r)
    \/ /\ row.execution_status = "prepared"
       /\ new = CancelledBeforeExecution(row)
    \/ /\ row.execution_status = "executing"
       /\ \E st \in {"reported_success", "failed", "unknown", "cancelled"} :
            new = RecordedExecution(row, st)
    \/ /\ row.execution_status = "executing"
       /\ new = RecoveredExecution(row)
    \/ \E v \in Verifiers : Claimable(row, v) /\ new = ClaimedVerification(row, v)
    \/ NeedsReview(row) /\ new = ReleasedVerification(row, "needs_review")
    \/ /\ row.verification_status = "verifying"
       /\ \E st \in {"passed", "failed", "inconclusive"} :
            new = ReleasedVerification(row, st)
    \/ row.execution_status # "absent" /\ new = Elapsed(row)

\* Every step of the journal is such a step of each of its rows.
LEMMA NextIsRowNext ==
  ASSUME JournalInv, [Next]_journal, NEW p \in Ops
  PROVE  RowNext(journal[p], journal'[p])
<1>0. journal \in [Ops -> Row]
  BY DEF JournalInv
<1>1. \A o \in Ops : \A row :
        journal' = [journal EXCEPT ![o] = row] =>
          journal'[p] = IF p = o THEN row ELSE journal[p]
  BY <1>0
<1>2. ASSUME NEW o \in Ops, NEW k \in Keys, NEW r \in Runs, NEW s \in BOOLEAN,
             Insert(o, k, r, s)
      PROVE  RowNext(journal[p], journal'[p])
  BY <1>1, <1>2 DEF Insert, RowNext, Present
<1>3. ASSUME NEW o \in Ops, NEW r \in Runs, MarkExecuting(o, r)
      PROVE  RowNext(journal[p], journal'[p])
  BY <1>1, <1>3 DEF MarkExecuting, RowNext
<1>4. ASSUME NEW o \in Ops,
             NEW st \in {"reported_success", "failed", "unknown", "cancelled"},
             RecordExecution(o, st)
      PROVE  RowNext(journal[p], journal'[p])
  BY <1>1, <1>4 DEF RecordExecution, RowNext
<1>5. ASSUME NEW o \in Ops, NEW v \in Verifiers, ClaimVerification(o, v)
      PROVE  RowNext(journal[p], journal'[p])
  BY <1>1, <1>5 DEF ClaimVerification, RowNext
<1>6. ASSUME NEW o \in Ops, GiveUpVerification(o)
      PROVE  RowNext(journal[p], journal'[p])
  BY <1>1, <1>6 DEF GiveUpVerification, RowNext
<1>7. ASSUME NEW o \in Ops, NEW v \in Verifiers,
             NEW st \in {"passed", "failed", "inconclusive"},
             RecordVerification(o, v, st)
      PROVE  RowNext(journal[p], journal'[p])
  BY <1>1, <1>7 DEF RecordVerification, HoldsVerification, RowNext
<1>8. ASSUME NEW o \in Ops, NEW v \in Verifiers, AbandonVerification(o, v)
      PROVE  RowNext(journal[p], journal'[p])
  BY <1>1, <1>8 DEF AbandonVerification, HoldsVerification, RowNext
<1>9. CASE RecoverStaleExecutions
  BY <1>9 DEF RecoverStaleExecutions, UpdateRows, StaleExecutions, RowNext
<1>10. CASE RecoverStaleVerifications
  BY <1>10 DEF RecoverStaleVerifications, UpdateRows, StaleVerifications, RowNext
<1>11. ASSUME NEW r \in Runs, CancelPreparedRows(r)
       PROVE  RowNext(journal[p], journal'[p])
  BY <1>11 DEF CancelPreparedRows, UpdateRows, RowsOfRun, RowNext
<1>12. ASSUME NEW r \in Runs, MarkExecutingRowsUnknown(r)
       PROVE  RowNext(journal[p], journal'[p])
  BY <1>12 DEF MarkExecutingRowsUnknown, UpdateRows, RowsOfRun, RowNext
<1>13. CASE Tick
  BY <1>13 DEF Tick, UpdateRows, Present, RowNext
<1>14. CASE UNCHANGED journal
  BY <1>14 DEF RowNext
<1>. QED
  BY <1>2, <1>3, <1>4, <1>5, <1>6, <1>7, <1>8, <1>9, <1>10, <1>11, <1>12, <1>13, <1>14
     DEF Next

\* A final verdict belongs to a row whose execution is over, so no row step but
\* the passing of time touches it.
LEMMA RowVerdictIsFinal ==
  ASSUME NEW row, RowInv(row), NEW new, RowNext(row, new),
         row.verification_status \in FinalVerdicts
  PROVE  new.verification_status = row.verification_status
  BY DEF RowNext, RowInv, Row, RowConsistent, FinalVerdicts, Claimable, NeedsReview,
         TerminalVerification, Elapsed

\* The outcome of an execution is written once.
LEMMA RowOutcomeIsFinal ==
  ASSUME NEW row, RowInv(row), NEW new, RowNext(row, new),
         row.execution_status \in ExecutionStatus \ {"prepared", "executing"}
  PROVE  new.execution_status = row.execution_status
  BY DEF RowNext, RowInv, Row, ExecutionStatus, Elapsed, ClaimedVerification,
         ReleasedVerification

\* A row step does not pass an active lease on.
LEMMA RowLeaseNotStolen ==
  ASSUME NEW row, RowInv(row), NEW new, RowNext(row, new),
         VerificationLeaseActive(row),
         new.verification_lease_owner # NoOne
  PROVE  new.verification_lease_owner = row.verification_lease_owner
  BY JournalConstants, VerifyingIsAmbiguous
     DEF RowNext, RowInv, Row, VerificationLeaseActive, Claimable, ClaimedVerification,
         ReleasedVerification, Elapsed, Ambiguous

\* A verdict that ends verification is never changed again.
THEOREM VerdictsStay == Spec => VerdictIsFinal
<1>1. JournalInv /\ [Next]_journal =>
        [\A o \in Ops :
           journal[o].verification_status \in FinalVerdicts =>
             journal'[o].verification_status = journal[o].verification_status]_journal
  BY NextIsRowNext, RowVerdictIsFinal DEF JournalInv
<1>. QED  BY <1>1, JournalInvariant, PTL DEF Spec, VerdictIsFinal

\* A recorded execution outcome is never changed again.
THEOREM OutcomesStay == Spec => OutcomeIsFinal
<1>1. JournalInv /\ [Next]_journal =>
        [\A o \in Ops :
           journal[o].execution_status \in ExecutionStatus \ {"prepared", "executing"} =>
             journal'[o].execution_status = journal[o].execution_status]_journal
  BY NextIsRowNext, RowOutcomeIsFinal DEF JournalInv
<1>. QED  BY <1>1, JournalInvariant, PTL DEF Spec, OutcomeIsFinal

\* No verifier loses an active lease to another one.
THEOREM LeasesAreNotStolen == Spec => LeaseNotStolen
<1>1. JournalInv /\ [Next]_journal =>
        [\A o \in Ops :
           /\ VerificationLeaseActive(journal[o])
           /\ journal'[o].verification_lease_owner # NoOne
           => journal'[o].verification_lease_owner
                = journal[o].verification_lease_owner]_journal
  BY NextIsRowNext, RowLeaseNotStolen DEF JournalInv
<1>. QED  BY <1>1, JournalInvariant, PTL DEF Spec, LeaseNotStolen

-----------------------------------------------------------------------------
(* One row per idempotency key *)

\* A row that exists stays, under the same key.
LEMMA RowKeyStays ==
  ASSUME NEW row, RowInv(row), NEW new, RowNext(row, new),
         row.execution_status # "absent"
  PROVE  /\ new.execution_status # "absent"
         /\ new.idempotency_key = row.idempotency_key
  BY DEF RowNext, RowInv, Row, MarkedExecuting, CancelledBeforeExecution,
         RecordedExecution, RecoveredExecution, ClaimedVerification,
         ReleasedVerification, Elapsed

\* Only prepare makes rows.
LEMMA OnlyInsertAdds ==
  ASSUME JournalInv, [Next]_journal,
         ~ \E o \in Ops, k \in Keys, r \in Runs, s \in BOOLEAN : Insert(o, k, r, s),
         NEW p \in Ops, ~Present(p)
  PROVE  journal'[p] = journal[p]
<1>0. journal \in [Ops -> Row] /\ RowInv(journal[p])
  BY DEF JournalInv
<1>1. \A o \in Ops : \A row :
        journal' = [journal EXCEPT ![o] = row] =>
          journal'[p] = IF p = o THEN row ELSE journal[p]
  BY <1>0
<1>2. journal[p].execution_status = "absent" /\ journal[p].verification_status # "verifying"
  BY <1>0 DEF Present, RowInv, RowConsistent
<1>3. ASSUME NEW o \in Ops, NEW r \in Runs, MarkExecuting(o, r)
      PROVE  journal'[p] = journal[p]
  BY <1>1, <1>2, <1>3 DEF MarkExecuting
<1>4. ASSUME NEW o \in Ops,
             NEW st \in {"reported_success", "failed", "unknown", "cancelled"},
             RecordExecution(o, st)
      PROVE  journal'[p] = journal[p]
  BY <1>1, <1>2, <1>4 DEF RecordExecution
<1>5. ASSUME NEW o \in Ops, NEW v \in Verifiers, ClaimVerification(o, v)
      PROVE  journal'[p] = journal[p]
  BY <1>1, <1>2, <1>5 DEF ClaimVerification, Claimable, Ambiguous
<1>6. ASSUME NEW o \in Ops, GiveUpVerification(o)
      PROVE  journal'[p] = journal[p]
  BY <1>1, <1>2, <1>6 DEF GiveUpVerification, NeedsReview, Ambiguous
<1>7. ASSUME NEW o \in Ops, NEW v \in Verifiers,
             NEW st \in {"passed", "failed", "inconclusive"},
             RecordVerification(o, v, st)
      PROVE  journal'[p] = journal[p]
  BY <1>1, <1>2, <1>7 DEF RecordVerification, HoldsVerification
<1>8. ASSUME NEW o \in Ops, NEW v \in Verifiers, AbandonVerification(o, v)
      PROVE  journal'[p] = journal[p]
  BY <1>1, <1>2, <1>8 DEF AbandonVerification, HoldsVerification
<1>9. CASE RecoverStaleExecutions
  BY <1>2, <1>9 DEF RecoverStaleExecutions, UpdateRows, StaleExecutions
<1>10. CASE RecoverStaleVerifications
  BY <1>2, <1>10 DEF RecoverStaleVerifications, UpdateRows, StaleVerifications
<1>11. ASSUME NEW r \in Runs, CancelPreparedRows(r) PROVE journal'[p] = journal[p]
  BY <1>2, <1>11 DEF CancelPreparedRows, UpdateRows, RowsOfRun
<1>12. ASSUME NEW r \in Runs, MarkExecutingRowsUnknown(r) PROVE journal'[p] = journal[p]
  BY <1>2, <1>12 DEF MarkExecutingRowsUnknown, UpdateRows, RowsOfRun
<1>13. CASE Tick
  BY <1>13 DEF Tick, UpdateRows
<1>. QED
  BY <1>3, <1>4, <1>5, <1>6, <1>7, <1>8, <1>9, <1>10, <1>11, <1>12, <1>13 DEF Next

\* One intent has one row (prepare, and the unique index it relies on).
KeysUnique ==
    \A o, p \in Ops :
        /\ Present(o)
        /\ Present(p)
        /\ journal[o].idempotency_key = journal[p].idempotency_key
        => o = p

\* Every operation keeps the keys unique.
LEMMA NextKeysUnique == JournalInv /\ KeysUnique /\ [Next]_journal => KeysUnique'
<1> SUFFICES ASSUME JournalInv, KeysUnique, [Next]_journal,
                    NEW o \in Ops, NEW p \in Ops, Present(o)', Present(p)',
                    journal'[o].idempotency_key = journal'[p].idempotency_key
             PROVE  o = p
  BY DEF KeysUnique
<1>1. \A q \in Ops : Present(q) => journal'[q].idempotency_key = journal[q].idempotency_key
  BY NextIsRowNext, RowKeyStays DEF JournalInv, Present
<1>2. CASE \E q \in Ops, k \in Keys, r \in Runs, s \in BOOLEAN : Insert(q, k, r, s)
  <2>1. PICK q \in Ops, k \in Keys, r \in Runs, s \in BOOLEAN : Insert(q, k, r, s)
    BY <1>2
  <2>2. \A x \in Ops : journal'[x] = IF x = q THEN PreparedRow(k, r, s) ELSE journal[x]
    BY <2>1 DEF Insert, JournalInv
  <2>3. PreparedRow(k, r, s).idempotency_key = k
    BY DEF PreparedRow, AbsentRow
  <2>4. \A x \in Ops \ {q} : Present(x)' => journal'[x].idempotency_key # k
    BY <2>1, <2>2 DEF Insert, Present
  <2>5. CASE o = q \/ p = q
    BY <2>2, <2>3, <2>4, <2>5
  <2>6. CASE o # q /\ p # q
    BY <2>2, <2>6 DEF KeysUnique, Present
  <2>. QED  BY <2>5, <2>6
<1>3. CASE ~ \E q \in Ops, k \in Keys, r \in Runs, s \in BOOLEAN : Insert(q, k, r, s)
  <2>1. Present(o) /\ Present(p)
    BY <1>3, OnlyInsertAdds DEF Present
  <2>. QED  BY <1>1, <2>1 DEF KeysUnique
<1>. QED  BY <1>2, <1>3

-----------------------------------------------------------------------------
(* The program around the journal: its inductive invariant *)

\* What a verifier can have found out.
Observed == {"passed", "failed", "inconclusive"}

\* A run that has begun names an operation, and one that has read the cluster
\* has a verdict.
RunNames(r) ==
    /\ run[r].pc # "idle" => run[r].op \in Ops /\ run[r].key \in Keys
    /\ run[r].pc = "observed" => run[r].verdict \in Observed

\* The same for the recovery worker, which publishes what the journal holds.
WorkerNames ==
    /\ worker.pc \in {"verifying", "observed", "publish"} => worker.op \in Ops
    /\ worker.pc \in {"verifying", "observed"} => worker.owner \in RecoveryOwners
    /\ worker.pc = "observed" => worker.verdict \in Observed
    /\ worker.pc = "publish" =>
          /\ worker.verdict \in FinalVerdicts
          /\ journal[worker.op].verification_status = worker.verdict

TypedInv ==
    /\ ControlTypeOK
    /\ \A r \in Runs : RunNames(r)
    /\ WorkerNames

\* Where a run stands before it issues the external call.
BeforeCall == {"idle", "insert", "reread", "mark", "marked"}

\* A call is issued for a row that was marked, by the one run that marked it.
CallsMarked ==
    /\ \A o \in Ops : calls[o] <= journal[o].attempt_count
    /\ \A r \in Runs : run[r].pc = "marked" =>
          calls[run[r].op] = 0 /\ journal[run[r].op].attempt_count = 1
    /\ \A r, s \in Runs :
          run[r].pc = "marked" /\ run[s].pc = "marked" /\ run[r].op = run[s].op => r = s

\* A command, and what it leaves in the cluster, comes from a call.
CommandsCalled ==
    /\ \A r \in Runs : command[r] # "none" =>
          run[r].pc \notin BeforeCall /\ calls[run[r].op] > 0
    /\ \A o \in applied : calls[o] > 0

\* Nobody but Stop cancels a row, and Stop only one that was never marked.
CancelledUnmarked ==
    \A o \in Ops :
        journal[o].execution_status = "cancelled" => journal[o].attempt_count = 0

\* A success, recorded or about to be, is one the cluster showed.
PassedApplied ==
    /\ \A o \in Ops : journal[o].verification_status = "passed" => o \in applied
    /\ \A r \in Runs :
          run[r].pc = "observed" /\ run[r].verdict = "passed" => run[r].op \in applied
    /\ worker.pc = "observed" /\ worker.verdict = "passed" => worker.op \in applied

RowsWaiting(r, status) ==
    \E o \in Ops : journal[o].run_id = r /\ journal[o].execution_status = status

\* What each stage of a Stop that met no difficulty has established for good.
StopEstablished(r) ==
    ~stop[r].partial =>
        /\ stop[r].stage \in {"killing", "prepared", "executing", "done"} =>
              run[r].pc \in RunEnded
        /\ stop[r].stage \in {"prepared", "executing", "done"} =>
              r \in tombstone /\ command[r] # "running"
        /\ stop[r].stage \in {"executing", "done"} => ~RowsWaiting(r, "prepared")
        /\ stop[r].stage = "done" => ~RowsWaiting(r, "executing")

ControlInv ==
    /\ JournalInv
    /\ KeysUnique
    /\ TypedInv
    /\ CallsMarked
    /\ CommandsCalled
    /\ CancelledUnmarked
    /\ PassedApplied
    /\ ReportsHold
    /\ \A r \in Runs : StopEstablished(r)

-----------------------------------------------------------------------------
(* The journal under its callers *)

\* Every statement the program makes is an operation of the journal.
LEMMA RunStepsJournal ==
    ASSUME TypedInv, NEW r \in Runs, RunStep(r)
    PROVE  [Next]_journal
<1>1. run \in [Runs -> RunRecord] /\ RunNames(r) /\ r \in Verifiers
  BY ControlConstants DEF TypedInv, ControlTypeOK
<1>2. CASE UNCHANGED journal
  BY <1>2
<1>3. CASE PrepareInsert(r)
  BY <1>1, <1>3 DEF PrepareInsert, RunNames, Next
<1>4. CASE RunMarkExecuting(r)
  <2>1. run[r].op \in Ops
    BY <1>1, <1>4 DEF RunMarkExecuting, RunNames
  <2> QED BY <1>4, <2>1 DEF RunMarkExecuting, Next
<1>5. CASE RunRecordOutcome(r)
  <2>1. run[r].op \in Ops
    BY <1>1, <1>5 DEF RunRecordOutcome, RunNames
  <2> QED BY <1>5, <2>1 DEF RunRecordOutcome, Next
<1>6. CASE RunRecordCancelled(r)
  <2>1. run[r].op \in Ops
    BY <1>1, <1>6 DEF RunRecordCancelled, RunNames
  <2> QED BY <1>6, <2>1 DEF RunRecordCancelled, Next
<1>7. CASE RunClaimVerification(r)
  <2>1. run[r].op \in Ops
    BY <1>1, <1>7 DEF RunClaimVerification, RunNames
  <2> QED BY <1>1, <1>7, <2>1 DEF RunClaimVerification, Next
<1>8. CASE RunRecordVerification(r)
  <2>1. run[r].op \in Ops /\ run[r].verdict \in Observed
    BY <1>1, <1>8 DEF RunRecordVerification, RunNames
  <2> QED BY <1>1, <1>8, <2>1 DEF RunRecordVerification, Observed, Next
<1>9. CASE RunAbandonVerification(r)
  <2>1. run[r].op \in Ops
    BY <1>1, <1>9 DEF RunAbandonVerification, RunNames
  <2> QED BY <1>1, <1>9, <2>1 DEF RunAbandonVerification, Next
<1> QED
  BY <1>2, <1>3, <1>4, <1>5, <1>6, <1>7, <1>8, <1>9
     DEF RunStep, PrepareLookup, PrepareReread, StartCall, CallReturns, TransportError,
         ExecuteRaises, RunPoll

\* The same of the recovery worker.
LEMMA WorkerStepsJournal ==
    ASSUME TypedInv, WorkerStep
    PROVE  [Next]_journal
<1>1. WorkerNames /\ RecoveryOwners \subseteq Verifiers
  BY ControlConstants DEF TypedInv
<1>2. ASSUME NEW o \in Ops, WorkerClaim(o) PROVE [Next]_journal
  <2>1. FreshOwners \subseteq Verifiers
    BY <1>1 DEF FreshOwners
  <2> QED BY <1>2, <2>1 DEF WorkerClaim, Next
<1>3. CASE WorkerRecordVerification
  <2>1. worker.op \in Ops /\ worker.owner \in Verifiers /\ worker.verdict \in Observed
    BY <1>1, <1>3 DEF WorkerRecordVerification, WorkerNames
  <2> QED BY <1>3, <2>1 DEF WorkerRecordVerification, Observed, Next
<1> QED
  BY <1>2, <1>3
     DEF WorkerStep, WorkerStart, WorkerRecoverExecutions, WorkerRecoverVerifications,
         WorkerSelect, WorkerPassDone, WorkerPoll, WorkerPublish, Next

\* Commands touch no row, Stop and a shutdown only through the journal's operations.
LEMMA ControlStepsJournal ==
    ASSUME TypedInv, [ControlNext]_vars
    PROVE  [Next]_journal
<1>1. CASE \E r \in Runs : RunStep(r)
  BY <1>1, RunStepsJournal
<1>2. CASE \E r \in Runs : CommandStep(r)
  BY <1>2 DEF CommandStep, CommandRegisters, CommandLands, CommandExits
<1>3. ASSUME NEW r \in Runs, StopStep(r) PROVE [Next]_journal
  BY <1>3 DEF StopStep, StopRequest, StopAwaitTask, StopKillCommands,
              StopConvergePrepared, StopConvergeExecuting, Next
<1>4. CASE WorkerStep
  BY <1>4, WorkerStepsJournal
<1>5. CASE Shutdown
  <2>1. worker.op \in Ops /\ worker.owner \in Verifiers
    BY <1>5, ControlConstants DEF Shutdown, TypedInv, WorkerNames
  <2> QED BY <1>5, <2>1 DEF Shutdown, Next
<1> QED
  BY <1>1, <1>2, <1>3, <1>4, <1>5 DEF ControlNext, Crash, ControlTick, Next, vars

-----------------------------------------------------------------------------
(* What one step may do to a run and to its command *)

\* How far the workflow of a run moves: it begins once, keeps its operation from
\* prepare on, ends once, is marked by mark_executing only, and observes only what
\* the cluster shows.
RunMove(s) ==
    /\ run'[s].pc = "idle" => run[s].pc = "idle"
    /\ run'[s].pc \in BeforeCall => run[s].pc \in BeforeCall
    /\ run[s].pc \notin {"idle", "reread"} => run'[s].op = run[s].op
    /\ run[s].pc \in RunEnded => run'[s].pc = run[s].pc
    /\ run'[s].pc = "marked" => run'[s] = run[s] \/ RunMarkExecuting(s)
    /\ run'[s].pc = "observed" =>
          run'[s] = run[s] \/ run'[s].verdict \in Verdicts(run'[s].op)

\* A run that is not the one that steps stays as it is.
LEMMA OtherRunsStay ==
    ASSUME TypedInv, NEW r \in Runs, RunStep(r), NEW s \in Runs \ {r}
    PROVE  run'[s] = run[s]
  BY DEF TypedInv, ControlTypeOK, RunStep, PrepareLookup, PrepareInsert, PrepareReread,
         RaiseTo, ResumeExisting, RunMarkExecuting, StartCall, CallReturns, TransportError,
         RunRecordOutcome, ExecuteRaises, RunRecordCancelled, RunClaimVerification, RunPoll,
         RunRecordVerification, RunAbandonVerification, Goto, Finish

\* The steps of a workflow move its run like that.
LEMMA RunStepMoves ==
    ASSUME TypedInv, NEW r \in Runs, RunStep(r)
    PROVE  RunMove(r)
<1>1. run \in [Runs -> RunRecord]
  BY DEF TypedInv, ControlTypeOK
<1>2. CASE PrepareLookup(r)
  BY <1>1, <1>2 DEF PrepareLookup, RaiseTo, ResumeExisting, RunMove, RunEnded, BeforeCall
<1>3. CASE PrepareInsert(r)
  BY <1>1, <1>3 DEF PrepareInsert, Goto, RunMove, RunEnded, BeforeCall, RunRecord
<1>4. CASE PrepareReread(r)
  BY <1>1, <1>4 DEF PrepareReread, RaiseTo, ResumeExisting, RunMove, RunEnded, BeforeCall
<1>5. CASE RunMarkExecuting(r)
  BY <1>1, <1>5 DEF RunMarkExecuting, Goto, Finish, RunMove, RunEnded, BeforeCall, RunRecord
<1>6. CASE StartCall(r) \/ CallReturns(r) \/ TransportError(r)
  BY <1>1, <1>6
     DEF StartCall, CallReturns, TransportError, Goto, RunMove, RunEnded, BeforeCall, RunRecord
<1>7. CASE RunRecordOutcome(r) \/ ExecuteRaises(r) \/ RunRecordCancelled(r)
  BY <1>1, <1>7
     DEF RunRecordOutcome, ExecuteRaises, RunRecordCancelled, Goto, Finish, RunMove, RunEnded,
         BeforeCall, RunRecord
<1>8. CASE RunClaimVerification(r) \/ RunAbandonVerification(r)
  BY <1>1, <1>8
     DEF RunClaimVerification, RunAbandonVerification, Goto, Finish, RunMove, RunEnded,
         BeforeCall, RunRecord
<1>9. CASE RunPoll(r)
  BY <1>1, <1>9 DEF RunPoll, RunMove, RunEnded, BeforeCall, RunRecord
<1>10. CASE RunRecordVerification(r)
  BY <1>1, <1>10 DEF RunRecordVerification, Finish, RunMove, RunEnded, BeforeCall, RunRecord
<1> QED
  BY <1>2, <1>3, <1>4, <1>5, <1>6, <1>7, <1>8, <1>9, <1>10 DEF RunStep

\* So do Stop, crashes and everything else.
LEMMA RunsMove ==
    ASSUME TypedInv, [ControlNext]_vars, NEW s \in Runs
    PROVE  RunMove(s)
<1>1. run \in [Runs -> RunRecord]
  BY DEF TypedInv, ControlTypeOK
<1>2. ASSUME run'[s] = run[s] PROVE RunMove(s)
  BY <1>2 DEF RunMove
<1>3. ASSUME NEW r \in Runs, RunStep(r) PROVE RunMove(s)
  BY <1>2, <1>3, RunStepMoves, OtherRunsStay
<1>4. ASSUME NEW r \in Runs, StopRequest(r) PROVE RunMove(s)
  <2>1. CASE s # r
    BY <1>1, <1>2, <1>4, <2>1 DEF StopRequest, Goto
  <2>2. CASE s = r
    <3>1. run'[s] = [run[s] EXCEPT !.pc = AfterCancel(run[s].pc)] /\ run[s].pc # "idle"
      BY <1>1, <1>4, <2>2 DEF StopRequest, Goto
    <3>2. /\ AfterCancel(run[s].pc) \in {"cancelling", "abandoning"} \cup RunEnded
          /\ run[s].pc \in RunEnded => AfterCancel(run[s].pc) = run[s].pc
      BY DEF AfterCancel, RunEnded
    <3> QED BY <1>1, <3>1, <3>2 DEF RunMove, RunEnded, BeforeCall, RunRecord
  <2> QED BY <2>1, <2>2
<1>5. ASSUME EngineGone PROVE RunMove(s)
  <2>1. run'[s] = run[s] \/ (run[s].pc \in RunActive /\ run'[s] = [run[s] EXCEPT !.pc = "dead"])
    BY <1>5 DEF EngineGone
  <2> QED BY <1>1, <1>2, <2>1 DEF RunMove, RunEnded, RunActive, BeforeCall, RunRecord
<1>6. ASSUME UNCHANGED run PROVE RunMove(s)
  BY <1>2, <1>6
<1> QED
  BY <1>3, <1>4, <1>5, <1>6
     DEF ControlNext, vars, CommandStep, CommandRegisters, CommandLands, CommandExits,
         StopStep, StopAwaitTask, StopKillCommands, StopConvergePrepared,
         StopConvergeExecuting, WorkerStep, WorkerStart, WorkerRecoverExecutions,
         WorkerRecoverVerifications, WorkerSelect, WorkerClaim, WorkerPassDone, WorkerPoll,
         WorkerRecordVerification, WorkerPublish, Crash, Shutdown, ControlTick

\* A command begins with a call, a run that has a tombstone gets no process, and a
\* change that lands is that of a command.
CommandMove(s) ==
    /\ command[s] # "none" => command'[s] # "none"
    /\ command'[s] # "none" => command[s] # "none" \/ StartCall(s)
    /\ s \in tombstone /\ command[s] # "running" => command'[s] # "running"

\* What a step may do to the commands, the tombstones and the changes in the cluster.
LEMMA CommandsMove ==
    ASSUME TypedInv, [ControlNext]_vars
    PROVE  /\ \A s \in Runs : CommandMove(s)
           /\ tombstone \subseteq tombstone'
           /\ applied \subseteq applied'
           /\ \A o \in applied' \ applied :
                 \E s \in Runs : command[s] # "none" /\ run[s].op = o
<1>1. command \in [Runs -> {"none", "starting", "running", "ok", "error"}]
  BY DEF TypedInv, ControlTypeOK
<1> USE DEF CommandMove
<1>2. ASSUME UNCHANGED <<command, tombstone, applied>>
      PROVE  /\ \A s \in Runs : CommandMove(s)
             /\ tombstone \subseteq tombstone'
             /\ applied \subseteq applied' /\ applied' \ applied = {}
  BY <1>2
<1>3. ASSUME NEW r \in Runs, StartCall(r)
      PROVE  (\A s \in Runs : CommandMove(s)) /\ UNCHANGED <<tombstone, applied>>
  BY <1>1, <1>3 DEF StartCall
<1>4. ASSUME NEW r \in Runs, CommandRegisters(r)
      PROVE  (\A s \in Runs : CommandMove(s)) /\ UNCHANGED <<tombstone, applied>>
  BY <1>1, <1>4 DEF CommandRegisters
<1>5. ASSUME NEW r \in Runs, CommandLands(r)
      PROVE  /\ UNCHANGED <<command, tombstone>>
             /\ command[r] # "none" /\ applied' = applied \cup {run[r].op}
  BY <1>5 DEF CommandLands
<1>6. ASSUME NEW r \in Runs, CommandExits(r)
      PROVE  (\A s \in Runs : CommandMove(s)) /\ UNCHANGED <<tombstone, applied>>
  BY <1>1, <1>6 DEF CommandExits
<1>7. ASSUME NEW r \in Runs, StopKillCommands(r)
      PROVE  /\ \A s \in Runs : CommandMove(s)
             /\ tombstone \subseteq tombstone' /\ UNCHANGED applied
  BY <1>1, <1>7 DEF StopKillCommands
<1>8. ASSUME NEW r \in Runs, RunStep(r), ~StartCall(r)
      PROVE  UNCHANGED <<command, tombstone, applied>>
  BY <1>8
     DEF RunStep, PrepareLookup, PrepareInsert, PrepareReread, RunMarkExecuting, CallReturns,
         TransportError, RunRecordOutcome, ExecuteRaises, RunRecordCancelled,
         RunClaimVerification, RunPoll, RunRecordVerification, RunAbandonVerification
<1>9. ASSUME NEW r \in Runs, StopStep(r), ~StopKillCommands(r)
      PROVE  UNCHANGED <<command, tombstone, applied>>
  BY <1>9 DEF StopStep, StopRequest, StopAwaitTask, StopConvergePrepared, StopConvergeExecuting
<1>10. ASSUME WorkerStep \/ Crash \/ Shutdown \/ ControlTick \/ UNCHANGED vars
       PROVE  UNCHANGED <<command, tombstone, applied>>
  BY <1>10
     DEF WorkerStep, WorkerStart, WorkerRecoverExecutions, WorkerRecoverVerifications,
         WorkerSelect, WorkerClaim, WorkerPassDone, WorkerPoll, WorkerRecordVerification,
         WorkerPublish, Crash, Shutdown, EngineGone, ControlTick, vars
<1> QED
  BY <1>2, <1>3, <1>4, <1>5, <1>6, <1>7, <1>8, <1>9, <1>10 DEF ControlNext, CommandStep

-----------------------------------------------------------------------------
(* What one step may do to a row and to its call *)

\* A row is marked once, while it is prepared, and its run stays.
LEMMA RowHistory ==
    ASSUME NEW row, RowInv(row), NEW new, RowInv(new), RowNext(row, new)
    PROVE  /\ new.attempt_count >= row.attempt_count
           /\ new.attempt_count = row.attempt_count \/ new.execution_status = "executing"
           /\ row.execution_status # "absent" => new.run_id = row.run_id
           /\ new.execution_status = "prepared" =>
                 row.execution_status \in {"absent", "prepared"}
           /\ new.execution_status = "executing" =>
                 row.execution_status \in {"prepared", "executing"}
           /\ new.execution_status = "cancelled" =>
                 row.execution_status \in {"prepared", "executing", "cancelled"}
<1>1. row \in Row /\ new \in Row
  BY DEF RowInv
<1> USE DEF PreparedRow, AbsentRow, MarkedExecuting, RecordedExecution,
            CancelledBeforeExecution, RecoveredExecution, ClaimedVerification,
            ReleasedVerification, Elapsed
<1>2. /\ new.attempt_count >= row.attempt_count
      /\ new.attempt_count = row.attempt_count \/ new.execution_status = "executing"
  <2>1. CASE row.execution_status = "absent"
    <3>1. new.execution_status \in {"absent", "prepared"}
      BY <1>1, <2>1 DEF RowNext, Row, RowInv, RowConsistent, Claimable, NeedsReview, Ambiguous
    <3> QED BY <1>1, <2>1, <3>1 DEF RowInv, RowExecutedOnce, Row
  <2>2. CASE row.execution_status # "absent"
    <3>1. \/ new.attempt_count = row.attempt_count
          \/ new.attempt_count = row.attempt_count + 1 /\ new.execution_status = "executing"
      <4>1. ASSUME NEW r, new = MarkedExecuting(row, r)
            PROVE  /\ new.attempt_count = row.attempt_count + 1
                   /\ new.execution_status = "executing"
        BY <1>1, <4>1 DEF Row
      <4>2. ASSUME ~ \E r \in Runs : new = MarkedExecuting(row, r)
            PROVE  new.attempt_count = row.attempt_count
        BY <1>1, <2>2, <4>2 DEF RowNext, Row
      <4> QED BY <4>1, <4>2
    <3>2. row.attempt_count \in Nat
      BY <1>1 DEF Row
    <3> QED BY <3>1, <3>2
  <2> QED BY <2>1, <2>2
<1>3. row.execution_status # "absent" => new.run_id = row.run_id
  BY <1>1 DEF RowNext, Row
<1>4. /\ new.execution_status = "prepared" => row.execution_status \in {"absent", "prepared"}
      /\ new.execution_status = "executing" =>
            row.execution_status \in {"prepared", "executing"}
      /\ new.execution_status = "cancelled" =>
            row.execution_status \in {"prepared", "executing", "cancelled"}
  BY <1>1 DEF RowNext, Row
<1> QED BY <1>2, <1>3, <1>4

\* The journal under a step of the program.
LEMMA RowsMove ==
    ASSUME ControlInv, [ControlNext]_vars
    PROVE  /\ JournalInv' /\ KeysUnique'
           /\ \A o \in Ops : RowNext(journal[o], journal'[o])
           /\ \A o \in Ops : RowInv(journal[o]) /\ RowInv(journal'[o])
<1>1. [Next]_journal /\ JournalInv /\ KeysUnique
  BY ControlStepsJournal DEF ControlInv
<1>2. JournalInv' /\ KeysUnique'
  BY <1>1, NextJournalInv, NextKeysUnique
<1> QED BY <1>1, <1>2, NextIsRowNext DEF JournalInv

\* Only StartCall issues calls.
LEMMA OthersIssueNoCall ==
    ASSUME [ControlNext]_vars, ~ \E r \in Runs : StartCall(r)
    PROVE  UNCHANGED calls
<1>1. ASSUME NEW r \in Runs, RunStep(r) PROVE UNCHANGED calls
  BY <1>1
     DEF RunStep, PrepareLookup, PrepareInsert, PrepareReread, RunMarkExecuting, CallReturns,
         TransportError, RunRecordOutcome, ExecuteRaises, RunRecordCancelled,
         RunClaimVerification, RunPoll, RunRecordVerification, RunAbandonVerification
<1>2. ASSUME NEW r \in Runs, CommandStep(r) \/ StopStep(r) PROVE UNCHANGED calls
  BY <1>2
     DEF CommandStep, CommandRegisters, CommandLands, CommandExits, StopStep, StopRequest,
         StopAwaitTask, StopKillCommands, StopConvergePrepared, StopConvergeExecuting
<1>3. CASE WorkerStep \/ Crash \/ Shutdown \/ ControlTick \/ UNCHANGED vars
  BY <1>3
     DEF WorkerStep, WorkerStart, WorkerRecoverExecutions, WorkerRecoverVerifications,
         WorkerSelect, WorkerClaim, WorkerPassDone, WorkerPoll, WorkerRecordVerification,
         WorkerPublish, Crash, Shutdown, EngineGone, ControlTick, vars
<1> QED BY <1>1, <1>2, <1>3 DEF ControlNext

\* The call of a marked run is the first one of its operation.
LEMMA CallIsFirst ==
    ASSUME ControlInv, NEW r \in Runs, StartCall(r)
    PROVE  /\ run[r].op \in Ops /\ calls[run[r].op] = 0
           /\ journal[run[r].op].attempt_count = 1
           /\ calls' = [calls EXCEPT ![run[r].op] = 1]
           /\ run'[r].pc = "calling" /\ \A s \in Runs \ {r} : run'[s] = run[s]
           /\ UNCHANGED journal
<1>1. run \in [Runs -> RunRecord] /\ run[r].pc = "marked" /\ calls \in [Ops -> Nat]
  BY DEF StartCall, ControlInv, TypedInv, ControlTypeOK
<1>2. run[r].op \in Ops
  BY <1>1 DEF ControlInv, TypedInv, RunNames
<1>3. calls[run[r].op] = 0 /\ journal[run[r].op].attempt_count = 1
  BY <1>1 DEF ControlInv, CallsMarked
<1> QED BY <1>1, <1>2, <1>3 DEF StartCall, Goto, RunRecord

\* Calls stay behind marks: a row is marked by one run, once, and that run makes one
\* call.
LEMMA CallsMarkedNext ==
    ASSUME ControlInv, [ControlNext]_vars
    PROVE  CallsMarked'
<1> USE DEF CallsMarked
<1>1. /\ CallsMarked /\ calls \in [Ops -> Nat] /\ run \in [Runs -> RunRecord]
      /\ \A r \in Runs : RunNames(r)
  BY DEF ControlInv, TypedInv, ControlTypeOK
<1>2. /\ \A o \in Ops : RowInv(journal[o]) /\ RowInv(journal'[o])
      /\ \A o \in Ops : journal'[o].attempt_count >= journal[o].attempt_count
  BY RowsMove, RowHistory
<1>3. \A o \in Ops : journal[o].attempt_count \in 0..1 /\ journal'[o].attempt_count \in 0..1
  BY <1>2 DEF RowInv, Row, RowExecutedOnce
<1>4. \A s \in Runs : RunMove(s)
  BY RunsMove DEF ControlInv
<1>5. ASSUME NEW r \in Runs, StartCall(r) PROVE CallsMarked'
  <2>1. \A s \in Runs : run'[s].pc = "marked" => s # r /\ run'[s] = run[s]
    BY <1>5, CallIsFirst
  <2>2. \A s \in Runs : run'[s].pc = "marked" => run[s].op # run[r].op /\ run[s].op \in Ops
    BY <1>1, <1>5, <2>1 DEF StartCall, RunNames
  <2> QED BY <1>1, <1>3, <1>5, <2>1, <2>2, CallIsFirst
<1>6. CASE ~ \E r \in Runs : StartCall(r)
  <2>1. UNCHANGED calls
    BY <1>6, OthersIssueNoCall
  <2>2. ASSUME NEW o \in Ops PROVE calls'[o] <= journal'[o].attempt_count
    BY <1>1, <1>2, <1>3, <2>1
  <2>3. ASSUME NEW s \in Runs, run'[s].pc = "marked", run'[s] # run[s]
        PROVE  /\ run'[s].op \in Ops
               /\ journal[run'[s].op].attempt_count = 0
               /\ journal'[run'[s].op].attempt_count = 1
               /\ \A t \in Runs \ {s} : run'[t] = run[t]
    <3>1. RunMarkExecuting(s) /\ run[s].pc = "mark"
      BY <1>4, <2>3 DEF RunMove, RunMarkExecuting
    <3>2. run[s].op \in Ops /\ run'[s].op = run[s].op
      BY <1>1, <1>4, <3>1 DEF RunNames, RunMove
    <3>3. journal[run[s].op].execution_status = "prepared"
          /\ journal' = [journal EXCEPT ![run[s].op] = MarkedExecuting(@, s)]
      BY <1>1, <2>3, <3>1 DEF RunMarkExecuting, Finish, MarkExecuting, RunRecord
    <3>4. journal'[run[s].op].execution_status = "executing"
      BY <1>2, <3>2, <3>3 DEF MarkedExecuting, ControlInv, JournalInv, RowInv, Row
    <3>5. journal[run[s].op].attempt_count = 0 /\ journal'[run[s].op].attempt_count = 1
      BY <1>2, <3>2, <3>3, <3>4 DEF RowInv, RowExecutedOnce
    <3>6. \A t \in Runs \ {s} : run'[t] = run[t]
      BY <1>1, <3>1 DEF RunMarkExecuting, Goto, Finish
    <3> QED BY <3>2, <3>5, <3>6
  <2>4. ASSUME NEW s \in Runs, run'[s].pc = "marked"
        PROVE  calls'[run'[s].op] = 0 /\ journal'[run'[s].op].attempt_count = 1
    <3>1. CASE run'[s] = run[s]
      <4>1. run[s].op \in Ops
        BY <1>1, <2>4, <3>1 DEF RunNames
      <4> QED BY <1>1, <1>2, <1>3, <2>1, <2>4, <3>1, <4>1
    <3>2. CASE run'[s] # run[s]
      BY <1>1, <1>3, <2>1, <2>3, <2>4, <3>2
    <3> QED BY <3>1, <3>2
  <2>5. ASSUME NEW s \in Runs, NEW t \in Runs, run'[s].pc = "marked", run'[t].pc = "marked",
               run'[s].op = run'[t].op, s # t
        PROVE  FALSE
    <3>1. CASE run'[s] = run[s] /\ run'[t] = run[t]
      BY <1>1, <2>5, <3>1
    <3>2. CASE run'[s] # run[s]
      <4>1. run'[t] = run[t] /\ journal[run'[s].op].attempt_count = 0
        BY <2>3, <2>5, <3>2
      <4> QED BY <1>1, <2>5, <4>1
    <3>3. CASE run'[t] # run[t]
      <4>1. run'[s] = run[s] /\ journal[run'[t].op].attempt_count = 0
        BY <2>3, <2>5, <3>3
      <4> QED BY <1>1, <2>5, <4>1
    <3> QED BY <3>1, <3>2, <3>3
  <2> QED BY <2>2, <2>4, <2>5
<1> QED BY <1>5, <1>6

\* Commands, and what they leave in the cluster, stay behind calls.
LEMMA CommandsCalledNext ==
    ASSUME ControlInv, [ControlNext]_vars
    PROVE  CommandsCalled'
<1>1. /\ CommandsCalled /\ calls \in [Ops -> Nat] /\ \A r \in Runs : RunNames(r)
      /\ applied \subseteq Ops
  BY DEF ControlInv, TypedInv, ControlTypeOK
<1>2. /\ \A s \in Runs : RunMove(s)
      /\ \A s \in Runs : CommandMove(s)
      /\ \A o \in applied' \ applied : \E s \in Runs : command[s] # "none" /\ run[s].op = o
  BY RunsMove, CommandsMove DEF ControlInv
<1>3. \A o \in Ops : calls'[o] >= calls[o] /\ calls'[o] \in Nat
  BY <1>1, CallIsFirst, OthersIssueNoCall
<1>4. ASSUME NEW s \in Runs, command[s] # "none"
      PROVE  /\ run[s].op \in Ops /\ run'[s].op = run[s].op /\ run'[s].pc \notin BeforeCall
             /\ calls'[run[s].op] > 0
  <2>1. run[s].pc \notin BeforeCall /\ calls[run[s].op] > 0
    BY <1>1, <1>4 DEF CommandsCalled
  <2>2. run[s].op \in Ops
    BY <1>1, <2>1 DEF RunNames, BeforeCall
  <2> QED BY <1>1, <1>2, <1>3, <2>1, <2>2 DEF RunMove, BeforeCall
<1>5. ASSUME NEW s \in Runs, StartCall(s)
      PROVE  run'[s].pc = "calling" /\ calls'[run'[s].op] > 0
  <2>1. run'[s].op = run[s].op
    BY <1>2, <1>5 DEF RunMove, StartCall
  <2> QED BY <1>1, <1>5, <2>1, CallIsFirst
<1>6. ASSUME NEW s \in Runs, command'[s] # "none"
      PROVE  run'[s].pc \notin BeforeCall /\ calls'[run'[s].op] > 0
  BY <1>2, <1>4, <1>5, <1>6 DEF CommandMove, BeforeCall
<1>7. ASSUME NEW o \in applied' PROVE calls'[o] > 0
  <2>1. CASE o \in applied
    BY <1>1, <1>3, <2>1 DEF CommandsCalled
  <2>2. CASE o \notin applied
    BY <1>2, <1>4, <2>2
  <2> QED BY <2>1, <2>2
<1> QED BY <1>6, <1>7 DEF CommandsCalled

\* What the program does to a row and an arbitrary caller of the journal need not:
\* an execution ends in an outcome to verify, a row belongs to the run that prepares
\* it, and success is recorded for a change that is in the cluster.
RowMove(o) ==
    /\ journal[o].execution_status = "executing" =>
          journal'[o].execution_status \in Ambiguous \cup {"executing"}
    /\ journal[o].execution_status = "absent" =>
          \/ journal'[o].execution_status = "absent"
          \/ \E r \in Runs : run[r].pc = "insert" /\ journal'[o].run_id = r
    /\ journal'[o].verification_status = "passed" =>
          journal[o].verification_status = "passed" \/ o \in applied

\* A statement of the journal other than prepare, on one row.
OneRowStatement(p) ==
    \/ \E r \in Runs : MarkExecuting(p, r)
    \/ \E st \in Ambiguous : RecordExecution(p, st)
    \/ \E v \in Verifiers : ClaimVerification(p, v)
    \/ GiveUpVerification(p)
    \/ \E v \in Verifiers : AbandonVerification(p, v)
    \/ \E v \in Verifiers, st \in Observed :
          RecordVerification(p, v, st) /\ (st = "passed" => p \in applied)

\* Recovery, Stop and time, on many rows.
ManyRowsStatement ==
    \/ RecoverStaleExecutions
    \/ RecoverStaleVerifications
    \/ \E r \in Runs : CancelPreparedRows(r) \/ MarkExecutingRowsUnknown(r)
    \/ Tick

\* The INSERT of prepare, for the request of run r.
InsertStatement(r) ==
    /\ run[r].pc = "insert" /\ run[r].op \in Ops /\ run[r].key \in Keys
    /\ Insert(run[r].op, run[r].key, r, TRUE)

\* The statements that the program makes, which are fewer than those it could: no
\* outcome but an ambiguous one, no success that the cluster does not show.
LEMMA ControlStatements ==
    ASSUME ControlInv, [ControlNext]_vars
    PROVE  \/ UNCHANGED journal
           \/ \E r \in Runs : InsertStatement(r)
           \/ \E p \in Ops : OneRowStatement(p)
           \/ ManyRowsStatement
<1> DEFINE Statement == \/ UNCHANGED journal
                        \/ \E r \in Runs : InsertStatement(r)
                        \/ \E p \in Ops : OneRowStatement(p)
                        \/ ManyRowsStatement
<1>1. /\ PassedApplied /\ (\A r \in Runs : RunNames(r)) /\ WorkerNames
      /\ Runs \subseteq Verifiers /\ RecoveryOwners \subseteq Verifiers
  BY ControlConstants DEF ControlInv, TypedInv
<1>2. ASSUME NEW r \in Runs, RunStep(r) PROVE Statement
  <2>1. CASE PrepareInsert(r)
    BY <1>1, <2>1 DEF PrepareInsert, RunNames, InsertStatement
  <2>2. CASE RunMarkExecuting(r)
    BY <1>1, <2>2 DEF RunMarkExecuting, RunNames, OneRowStatement
  <2>3. CASE RunRecordOutcome(r)
    BY <1>1, <2>3 DEF RunRecordOutcome, RunNames, Ambiguous, OneRowStatement
  <2>4. CASE RunRecordCancelled(r)
    BY <1>1, <2>4 DEF RunRecordCancelled, RunNames, Ambiguous, OneRowStatement
  <2>5. CASE RunClaimVerification(r)
    BY <1>1, <2>5 DEF RunClaimVerification, RunNames, OneRowStatement
  <2>6. CASE RunRecordVerification(r)
    BY <1>1, <2>6 DEF RunRecordVerification, RunNames, PassedApplied, OneRowStatement
  <2>7. CASE RunAbandonVerification(r)
    BY <1>1, <2>7 DEF RunAbandonVerification, RunNames, OneRowStatement
  <2> QED
    BY <1>2, <2>1, <2>2, <2>3, <2>4, <2>5, <2>6, <2>7
       DEF RunStep, PrepareLookup, PrepareReread, StartCall, CallReturns, TransportError,
           ExecuteRaises, RunPoll
<1>3. ASSUME NEW r \in Runs, CommandStep(r) PROVE Statement
  BY <1>3 DEF CommandStep, CommandRegisters, CommandLands, CommandExits
<1>4. ASSUME NEW r \in Runs, StopStep(r) PROVE Statement
  BY <1>4
     DEF StopStep, StopRequest, StopAwaitTask, StopKillCommands, StopConvergePrepared,
         StopConvergeExecuting, ManyRowsStatement
<1>5. ASSUME WorkerStep PROVE Statement
  <2>1. ASSUME NEW p \in Ops, WorkerClaim(p) PROVE Statement
    <3>1. FreshOwners \subseteq Verifiers
      BY <1>1 DEF FreshOwners
    <3> QED BY <2>1, <3>1 DEF WorkerClaim, OneRowStatement
  <2>2. ASSUME WorkerRecordVerification PROVE Statement
    BY <1>1, <2>2 DEF WorkerRecordVerification, WorkerNames, PassedApplied, OneRowStatement
  <2> QED
    BY <1>5, <2>1, <2>2
       DEF WorkerStep, WorkerStart, WorkerRecoverExecutions, WorkerRecoverVerifications,
           WorkerSelect, WorkerPassDone, WorkerPoll, WorkerPublish, ManyRowsStatement
<1>6. ASSUME Shutdown PROVE Statement
  BY <1>1, <1>6 DEF Shutdown, WorkerNames, OneRowStatement
<1>7. ASSUME Crash \/ ControlTick \/ UNCHANGED vars PROVE Statement
  BY <1>7 DEF Crash, ControlTick, ManyRowsStatement, vars
<1> QED BY <1>2, <1>3, <1>4, <1>5, <1>6, <1>7 DEF ControlNext

\* What a statement on one row does to any row.
LEMMA OneRowMoves ==
    ASSUME JournalInv, NEW o \in Ops, NEW p \in Ops, OneRowStatement(p)
    PROVE  RowMove(o)
<1>1. RowInv(journal[p]) /\ journal[p] \in Row
  BY DEF JournalInv, RowInv
<1>2. ASSUME NEW row, journal' = [journal EXCEPT ![p] = row], o # p PROVE RowMove(o)
  BY <1>2 DEF RowMove, JournalInv
<1>3. ASSUME NEW row, journal' = [journal EXCEPT ![p] = row],
             journal[p].execution_status \in ExecutionStatus,
             journal[p].execution_status = "executing" =>
                row.execution_status \in Ambiguous \cup {"executing"},
             row.verification_status = "passed" =>
                journal[p].verification_status = "passed" \/ p \in applied
      PROVE  RowMove(o)
  BY <1>2, <1>3 DEF RowMove, JournalInv, ExecutionStatus
<1>4. ASSUME NEW r \in Runs, MarkExecuting(p, r) PROVE RowMove(o)
  <2> DEFINE row == MarkedExecuting(journal[p], r)
  <2>1. /\ row.execution_status = "executing"
        /\ row.verification_status = journal[p].verification_status
    BY <1>1 DEF MarkedExecuting, Row
  <2> HIDE DEF row
  <2>2. journal' = [journal EXCEPT ![p] = row] /\ journal[p].execution_status = "prepared"
    BY <1>4 DEF MarkExecuting, row
  <2> QED BY <1>3, <2>1, <2>2 DEF ExecutionStatus
<1>5. ASSUME NEW st \in Ambiguous, RecordExecution(p, st) PROVE RowMove(o)
  <2> DEFINE row == RecordedExecution(journal[p], st)
  <2>1. /\ row.execution_status \in Ambiguous
        /\ row.verification_status = journal[p].verification_status
    BY <1>1 DEF RecordedExecution, Row, Ambiguous
  <2> HIDE DEF row
  <2>2. journal' = [journal EXCEPT ![p] = row] /\ journal[p].execution_status = "executing"
    BY <1>5 DEF RecordExecution, row
  <2> QED BY <1>3, <2>1, <2>2 DEF ExecutionStatus
<1>6. ASSUME NEW v \in Verifiers, ClaimVerification(p, v) PROVE RowMove(o)
  <2> DEFINE row == ClaimedVerification(journal[p], v)
  <2>1. /\ row.execution_status = journal[p].execution_status
        /\ row.verification_status = "verifying"
    BY <1>1 DEF ClaimedVerification, Row
  <2> HIDE DEF row
  <2>2. journal' = [journal EXCEPT ![p] = row] /\ journal[p].execution_status \in Ambiguous
    BY <1>6 DEF ClaimVerification, Claimable, row
  <2> QED BY <1>3, <2>1, <2>2 DEF ExecutionStatus, Ambiguous
<1>7. ASSUME NEW st \in {"passed", "failed", "inconclusive", "needs_review"},
             st = "passed" => p \in applied,
             journal' = [journal EXCEPT ![p] = ReleasedVerification(journal[p], st)],
             journal[p].execution_status \in Ambiguous
      PROVE  RowMove(o)
  <2> DEFINE row == ReleasedVerification(journal[p], st)
  <2>1. /\ row.execution_status = journal[p].execution_status
        /\ row.verification_status = st
    BY <1>1 DEF ReleasedVerification, Row
  <2> HIDE DEF row
  <2>2. journal' = [journal EXCEPT ![p] = row]
    BY <1>7 DEF row
  <2> QED BY <1>3, <1>7, <2>1, <2>2 DEF ExecutionStatus, Ambiguous
<1>8. CASE GiveUpVerification(p)
  <2>1. /\ journal[p].execution_status \in Ambiguous
        /\ journal' = [journal EXCEPT ![p] = ReleasedVerification(journal[p], "needs_review")]
    BY <1>8 DEF GiveUpVerification, NeedsReview
  <2> QED BY <1>7, <2>1
<1>9. ASSUME NEW v \in Verifiers, AbandonVerification(p, v) PROVE RowMove(o)
  <2>1. /\ journal[p].verification_status = "verifying"
        /\ journal' = [journal EXCEPT ![p] = ReleasedVerification(journal[p], "inconclusive")]
    BY <1>9 DEF AbandonVerification, HoldsVerification
  <2> QED BY <1>1, <1>7, <2>1, VerifyingIsAmbiguous
<1>10. ASSUME NEW v \in Verifiers, NEW st \in Observed, RecordVerification(p, v, st),
              st = "passed" => p \in applied
       PROVE  RowMove(o)
  <2>1. /\ journal[p].verification_status = "verifying"
        /\ journal' = [journal EXCEPT ![p] = ReleasedVerification(journal[p], st)]
    BY <1>10 DEF RecordVerification, HoldsVerification
  <2> QED BY <1>1, <1>7, <1>10, <2>1, VerifyingIsAmbiguous DEF Observed
<1> QED BY <1>4, <1>5, <1>6, <1>8, <1>9, <1>10 DEF OneRowStatement

\* The same of a statement on many rows.
LEMMA ManyRowsMove ==
    ASSUME JournalInv, NEW o \in Ops, ManyRowsStatement
    PROVE  RowMove(o)
<1>1. RowInv(journal[o]) /\ journal[o] \in Row
  BY DEF JournalInv, RowInv
<1>2. CASE RecoverStaleExecutions
  BY <1>1, <1>2
     DEF RecoverStaleExecutions, UpdateRows, StaleExecutions, RecoveredExecution, Row,
         RowMove, Ambiguous
<1>3. CASE RecoverStaleVerifications
  <2>1. journal[o].verification_status = "verifying" =>
           journal[o].execution_status \in Ambiguous
    BY <1>1, VerifyingIsAmbiguous
  <2> QED
    BY <1>1, <1>3, <2>1
       DEF RecoverStaleVerifications, UpdateRows, StaleVerifications, ReleasedVerification,
           Row, RowMove, Ambiguous
<1>4. ASSUME NEW r \in Runs, CancelPreparedRows(r) PROVE RowMove(o)
  BY <1>1, <1>4
     DEF CancelPreparedRows, UpdateRows, RowsOfRun, CancelledBeforeExecution, Row, RowMove
<1>5. ASSUME NEW r \in Runs, MarkExecutingRowsUnknown(r) PROVE RowMove(o)
  BY <1>1, <1>5
     DEF MarkExecutingRowsUnknown, UpdateRows, RowsOfRun, RecoveredExecution, Row, RowMove,
         Ambiguous
<1>6. CASE Tick
  BY <1>1, <1>6 DEF Tick, UpdateRows, Elapsed, Present, Row, RowMove, Ambiguous
<1> QED BY <1>2, <1>3, <1>4, <1>5, <1>6 DEF ManyRowsStatement

\* Every step of the program moves each row like that.
LEMMA RowsMoveInProgram ==
    ASSUME ControlInv, [ControlNext]_vars, NEW o \in Ops
    PROVE  RowMove(o)
<1>1. JournalInv
  BY DEF ControlInv
<1>2. CASE UNCHANGED journal
  BY <1>2 DEF RowMove
<1>3. ASSUME NEW r \in Runs, InsertStatement(r) PROVE RowMove(o)
  <2>1. /\ run[r].pc = "insert" /\ run[r].op \in Ops
        /\ journal' = [journal EXCEPT ![run[r].op] = PreparedRow(run[r].key, r, TRUE)]
    BY <1>3 DEF InsertStatement, Insert
  <2>2. journal'[o] = IF o = run[r].op THEN PreparedRow(run[r].key, r, TRUE) ELSE journal[o]
    BY <1>1, <2>1 DEF JournalInv
  <2>3. /\ PreparedRow(run[r].key, r, TRUE).run_id = r
        /\ PreparedRow(run[r].key, r, TRUE).verification_status = "pending"
    BY DEF PreparedRow, AbsentRow
  <2>4. o = run[r].op => journal[o].execution_status = "absent"
    BY <1>3 DEF InsertStatement, Insert, Present
  <2> QED BY <2>1, <2>2, <2>3, <2>4 DEF RowMove
<1> QED BY <1>1, <1>2, <1>3, ControlStatements, OneRowMoves, ManyRowsMove

\* A cancelled row stays unmarked.
LEMMA CancelledUnmarkedNext ==
    ASSUME ControlInv, [ControlNext]_vars
    PROVE  CancelledUnmarked'
<1> SUFFICES ASSUME NEW o \in Ops, journal'[o].execution_status = "cancelled"
             PROVE  journal'[o].attempt_count = 0
  BY DEF CancelledUnmarked
<1>1. /\ RowInv(journal[o]) /\ RowInv(journal'[o]) /\ RowNext(journal[o], journal'[o])
      /\ RowMove(o) /\ CancelledUnmarked
  BY RowsMove, RowsMoveInProgram DEF ControlInv
<1>2. /\ journal[o].execution_status \in {"prepared", "executing", "cancelled"}
      /\ journal'[o].attempt_count = journal[o].attempt_count
  BY <1>1, RowHistory
<1>3. journal[o].execution_status # "executing"
  BY <1>1 DEF RowMove, Ambiguous
<1> QED BY <1>1, <1>2, <1>3 DEF RowInv, RowExecutedOnce, CancelledUnmarked

-----------------------------------------------------------------------------
(* Verdicts *)

\* The worker observes what the cluster shows.
LEMMA WorkerObserves ==
    ASSUME TypedInv, [ControlNext]_vars, worker'.pc = "observed"
    PROVE  \/ worker.pc = "observed" /\ worker'.op = worker.op
                                     /\ worker'.verdict = worker.verdict
           \/ worker'.op \in Ops /\ worker'.verdict \in Verdicts(worker'.op)
<1>1. worker \in WorkerRecord /\ WorkerNames
  BY DEF TypedInv, ControlTypeOK
<1>2. ASSUME NEW r \in Runs, RunStep(r) PROVE worker' = worker
  BY <1>2
     DEF RunStep, PrepareLookup, PrepareInsert, PrepareReread, RunMarkExecuting, StartCall,
         CallReturns, TransportError, RunRecordOutcome, ExecuteRaises, RunRecordCancelled,
         RunClaimVerification, RunPoll, RunRecordVerification, RunAbandonVerification
<1>3. ASSUME NEW r \in Runs, CommandStep(r) \/ StopStep(r) PROVE worker' = worker
  BY <1>3
     DEF CommandStep, CommandRegisters, CommandLands, CommandExits, StopStep, StopRequest,
         StopAwaitTask, StopKillCommands, StopConvergePrepared, StopConvergeExecuting
<1>4. CASE WorkerPoll
  BY <1>1, <1>4 DEF WorkerPoll, WorkerRecord, WorkerNames
<1>5. ASSUME WorkerStep, ~WorkerPoll PROVE worker'.pc # "observed"
  BY <1>1, <1>5
     DEF WorkerStep, WorkerStart, WorkerRecoverExecutions, WorkerRecoverVerifications,
         WorkerSelect, WorkerClaim, WorkerPassDone, WorkerRecordVerification,
         WorkerPublish, WorkerAt, WorkerRecord
<1>6. ASSUME Crash \/ Shutdown PROVE worker'.pc # "observed"
  BY <1>6 DEF Crash, Shutdown, EngineGone, WorkerAt
<1>7. ASSUME ControlTick \/ UNCHANGED vars PROVE worker' = worker
  BY <1>7 DEF ControlTick, vars
<1> QED BY <1>2, <1>3, <1>4, <1>5, <1>6, <1>7 DEF ControlNext

\* Nothing passes but what is in the cluster, and what is there stays there.
LEMMA PassedAppliedNext ==
    ASSUME ControlInv, [ControlNext]_vars
    PROVE  PassedApplied'
<1>1. PassedApplied /\ TypedInv /\ applied \subseteq applied'
  BY CommandsMove DEF ControlInv
<1>2. ASSUME NEW o, "passed" \in Verdicts(o) PROVE o \in applied
  BY <1>2 DEF Verdicts
<1>3. ASSUME NEW o \in Ops, journal'[o].verification_status = "passed" PROVE o \in applied'
  BY <1>1, <1>3, RowsMoveInProgram DEF RowMove, PassedApplied
<1>4. ASSUME NEW r \in Runs, run'[r].pc = "observed", run'[r].verdict = "passed"
      PROVE  run'[r].op \in applied'
  <2>1. RunMove(r)
    BY <1>1, RunsMove
  <2>2. CASE run'[r] = run[r]
    BY <1>1, <1>4, <2>2 DEF PassedApplied
  <2>3. CASE run'[r] # run[r]
    BY <1>1, <1>2, <1>4, <2>1, <2>3 DEF RunMove
  <2> QED BY <2>2, <2>3
<1>5. ASSUME worker'.pc = "observed", worker'.verdict = "passed" PROVE worker'.op \in applied'
  BY <1>1, <1>2, <1>5, WorkerObserves DEF PassedApplied
<1> QED BY <1>3, <1>4, <1>5 DEF PassedApplied

\* A final verdict is reported as the journal holds it.
LEMMA ReportsMove ==
    ASSUME ControlInv, [ControlNext]_vars, NEW o \in Ops, NEW d \in FinalVerdicts,
           d \in reported'[o], d \notin reported[o]
    PROVE  journal'[o].verification_status = d
<1>1. /\ TypedInv /\ WorkerNames /\ JournalInv /\ reported \in [Ops -> SUBSET VerificationStatus]
      /\ run \in [Runs -> RunRecord]
  BY DEF ControlInv, TypedInv, ControlTypeOK
<1>2. ASSUME NEW p, NEW verdict, Report(p, verdict) PROVE o = p /\ d = verdict
  BY <1>1, <1>2 DEF Report
<1>3. ~UNCHANGED reported
  BY <1>1
<1>4. ASSUME NEW r \in Runs, NEW q, NEW p, ResumeExisting(r, q, p), UNCHANGED journal
      PROVE  journal'[o].verification_status = d
  BY <1>2, <1>3, <1>4 DEF ResumeExisting
<1>5. ASSUME NEW r \in Runs, PrepareLookup(r) \/ PrepareReread(r)
      PROVE  journal'[o].verification_status = d
  BY <1>3, <1>4, <1>5 DEF PrepareLookup, PrepareReread, RaiseTo
<1>6. ASSUME NEW r \in Runs, RunClaimVerification(r)
      PROVE  journal'[o].verification_status = d
  <2>1. CASE GiveUpVerification(run[r].op) /\ Report(run[r].op, "needs_review")
    <3>1. o = run[r].op /\ d = "needs_review"
      BY <1>2, <2>1
    <3>2. journal'[o] = ReleasedVerification(journal[o], "needs_review") /\ journal[o] \in Row
      BY <1>1, <2>1, <3>1 DEF GiveUpVerification, JournalInv
    <3> QED BY <3>1, <3>2 DEF ReleasedVerification, Row
  <2>2. CASE Report(run[r].op, journal[run[r].op].verification_status) /\ UNCHANGED journal
    BY <1>2, <2>2
  <2> QED BY <1>3, <1>6, <2>1, <2>2 DEF RunClaimVerification
<1>7. ASSUME NEW r \in Runs, RunRecordVerification(r)
      PROVE  journal'[o].verification_status = d
  <2>1. CASE RecordVerification(run[r].op, r, run[r].verdict) /\ Report(run[r].op, run[r].verdict)
    <3>1. o = run[r].op /\ d = run[r].verdict
      BY <1>2, <2>1
    <3>2. journal'[o] = ReleasedVerification(journal[o], d) /\ journal[o] \in Row
      BY <1>1, <2>1, <3>1 DEF RecordVerification, JournalInv
    <3> QED BY <3>2 DEF ReleasedVerification, Row
  <2>2. CASE Report(run[r].op, "inconclusive")
    BY <1>2, <2>2 DEF FinalVerdicts
  <2> QED BY <1>7, <2>1, <2>2 DEF RunRecordVerification
<1>8. CASE WorkerPublish
  BY <1>1, <1>2, <1>3, <1>8 DEF WorkerPublish, WorkerNames
<1>9. ASSUME NEW r \in Runs, RunStep(r) PROVE journal'[o].verification_status = d
  BY <1>3, <1>5, <1>6, <1>7, <1>9
     DEF RunStep, PrepareInsert, RunMarkExecuting, StartCall, CallReturns, TransportError,
         RunRecordOutcome, ExecuteRaises, RunRecordCancelled, RunPoll, RunAbandonVerification
<1>10. ASSUME NEW r \in Runs, CommandStep(r) \/ StopStep(r) PROVE FALSE
  BY <1>3, <1>10
     DEF CommandStep, CommandRegisters, CommandLands, CommandExits, StopStep, StopRequest,
         StopAwaitTask, StopKillCommands, StopConvergePrepared, StopConvergeExecuting
<1>11. ASSUME WorkerStep, ~WorkerPublish PROVE FALSE
  BY <1>3, <1>11
     DEF WorkerStep, WorkerStart, WorkerRecoverExecutions, WorkerRecoverVerifications,
         WorkerSelect, WorkerClaim, WorkerPassDone, WorkerPoll, WorkerRecordVerification
<1>12. ASSUME Crash \/ Shutdown \/ ControlTick \/ UNCHANGED vars PROVE FALSE
  BY <1>3, <1>12 DEF Crash, Shutdown, EngineGone, ControlTick, vars
<1> QED BY <1>8, <1>9, <1>10, <1>11, <1>12 DEF ControlNext

\* What was reported once holds from then on.
LEMMA ReportsHoldNext ==
    ASSUME ControlInv, [ControlNext]_vars
    PROVE  ReportsHold'
<1>1. ReportsHold /\ PassedApplied'
  BY PassedAppliedNext DEF ControlInv
<1>2. ASSUME NEW o \in Ops, NEW d \in FinalVerdicts, d \in reported'[o]
      PROVE  journal'[o].verification_status = d
  <2>1. CASE d \in reported[o]
    <3>1. journal[o].verification_status = d
      BY <1>1, <1>2, <2>1 DEF ReportsHold
    <3> QED BY <1>2, <3>1, RowsMove, RowVerdictIsFinal
  <2>2. CASE d \notin reported[o]
    BY <1>2, <2>2, ReportsMove
  <2> QED BY <2>1, <2>2
<1> QED BY <1>1, <1>2 DEF ReportsHold, PassedApplied

-----------------------------------------------------------------------------
(* Stop *)

\* A Stop goes from stage to stage, and keeps what went wrong.
LEMMA StopMoves ==
    ASSUME TypedInv, [ControlNext]_vars, NEW r \in Runs, ~stop'[r].partial
    PROVE  \/ stop'[r] = stop[r]
           \/ stop'[r].stage = "cancelling"
           \/ /\ ~stop[r].partial
              /\ \/ /\ stop[r].stage = "cancelling" /\ stop'[r].stage = "killing"
                    /\ run[r].pc \in RunEnded
                 \/ /\ stop[r].stage = "killing" /\ stop'[r].stage = "prepared"
                    /\ r \in tombstone' /\ command'[r] # "running"
                 \/ /\ stop[r].stage = "prepared" /\ stop'[r].stage = "executing"
                    /\ CancelPreparedRows(r)
                 \/ /\ stop[r].stage = "executing" /\ stop'[r].stage = "done"
                    /\ MarkExecutingRowsUnknown(r)
<1>1. /\ stop \in [Runs -> StopRecord]
      /\ command \in [Runs -> {"none", "starting", "running", "ok", "error"}]
  BY DEF TypedInv, ControlTypeOK
<1> USE DEF StopRecord, StopTo, StopPartialTo
<1>2. ASSUME NEW s \in Runs, StopStep(s), s # r PROVE stop'[r] = stop[r]
  BY <1>1, <1>2
     DEF StopStep, StopRequest, StopAwaitTask, StopKillCommands, StopConvergePrepared,
         StopConvergeExecuting
<1>3. CASE StopRequest(r)
  BY <1>1, <1>3 DEF StopRequest
<1>4. CASE StopAwaitTask(r)
  BY <1>1, <1>4 DEF StopAwaitTask
<1>5. CASE StopKillCommands(r)
  BY <1>1, <1>5 DEF StopKillCommands
<1>6. CASE StopConvergePrepared(r)
  BY <1>1, <1>6 DEF StopConvergePrepared
<1>7. CASE StopConvergeExecuting(r)
  BY <1>1, <1>7 DEF StopConvergeExecuting
<1>8. CASE EngineGone
  BY <1>1, <1>8 DEF EngineGone
<1>9. ASSUME NEW s \in Runs, RunStep(s) PROVE UNCHANGED stop
  BY <1>9
     DEF RunStep, PrepareLookup, PrepareInsert, PrepareReread, RunMarkExecuting, StartCall,
         CallReturns, TransportError, RunRecordOutcome, ExecuteRaises, RunRecordCancelled,
         RunClaimVerification, RunPoll, RunRecordVerification, RunAbandonVerification
<1>10. ASSUME NEW s \in Runs, CommandStep(s) PROVE UNCHANGED stop
  BY <1>10 DEF CommandStep, CommandRegisters, CommandLands, CommandExits
<1>11. ASSUME WorkerStep \/ ControlTick \/ UNCHANGED vars PROVE UNCHANGED stop
  BY <1>11
     DEF WorkerStep, WorkerStart, WorkerRecoverExecutions, WorkerRecoverVerifications,
         WorkerSelect, WorkerClaim, WorkerPassDone, WorkerPoll, WorkerRecordVerification,
         WorkerPublish, ControlTick, vars
<1> QED
  BY <1>2, <1>3, <1>4, <1>5, <1>6, <1>7, <1>8, <1>9, <1>10, <1>11
     DEF ControlNext, StopStep, Crash, Shutdown

\* The rows of a run that has ended only leave a state they wait in.
LEMMA WaitingRowsEnd ==
    ASSUME ControlInv, [ControlNext]_vars, NEW r \in Runs, run[r].pc \in RunEnded
    PROVE  /\ RowsWaiting(r, "prepared")' => RowsWaiting(r, "prepared")
           /\ RowsWaiting(r, "executing")' =>
                 RowsWaiting(r, "executing") \/ RowsWaiting(r, "prepared")
<1>1. \A o \in Ops :
        /\ RowInv(journal[o]) /\ RowInv(journal'[o]) /\ RowNext(journal[o], journal'[o])
        /\ RowMove(o)
  BY RowsMove, RowsMoveInProgram
<1>2. ASSUME NEW o \in Ops, NEW status \in {"prepared", "executing"},
             journal'[o].run_id = r, journal'[o].execution_status = status
      PROVE  /\ journal[o].run_id = r
             /\ status = "prepared" => journal[o].execution_status = "prepared"
             /\ journal[o].execution_status \in {"prepared", "executing"}
  <2>1. journal[o].execution_status # "absent"
    BY <1>1, <1>2 DEF RowMove, RunEnded
  <2> QED BY <1>1, <1>2, <2>1, RowHistory
<1> QED BY <1>2 DEF RowsWaiting

\* Once the prepared rows of a run are cancelled none is left, and once the
\* executing ones are marked unknown none of those is.
LEMMA ConvergedRows ==
    ASSUME JournalInv, NEW r \in Runs
    PROVE  /\ CancelPreparedRows(r) => ~RowsWaiting(r, "prepared")'
           /\ MarkExecutingRowsUnknown(r) => ~RowsWaiting(r, "executing")'
<1>1. \A o \in Ops : journal[o] \in Row
  BY DEF JournalInv
<1>2. ASSUME CancelPreparedRows(r), NEW o \in Ops, journal'[o].run_id = r
      PROVE  journal'[o].execution_status # "prepared"
  BY <1>1, <1>2 DEF CancelPreparedRows, UpdateRows, RowsOfRun, CancelledBeforeExecution, Row
<1>3. ASSUME MarkExecutingRowsUnknown(r), NEW o \in Ops, journal'[o].run_id = r
      PROVE  journal'[o].execution_status # "executing"
  BY <1>1, <1>3 DEF MarkExecutingRowsUnknown, UpdateRows, RowsOfRun, RecoveredExecution, Row
<1> QED BY <1>2, <1>3 DEF RowsWaiting

\* What a stage has established stays.
LEMMA StopEstablishedNext ==
    ASSUME ControlInv, [ControlNext]_vars, NEW r \in Runs
    PROVE  StopEstablished(r)'
<1> SUFFICES ASSUME ~stop'[r].partial PROVE StopEstablished(r)'
  BY DEF StopEstablished
<1>1. TypedInv /\ JournalInv /\ StopEstablished(r) /\ run \in [Runs -> RunRecord]
  BY DEF ControlInv, TypedInv, ControlTypeOK
<1>2. RunMove(r) /\ CommandMove(r) /\ tombstone \subseteq tombstone'
  BY <1>1, RunsMove, CommandsMove
<1>3. run[r].pc \in RunEnded =>
         /\ run'[r].pc \in RunEnded
         /\ RowsWaiting(r, "prepared")' => RowsWaiting(r, "prepared")
         /\ RowsWaiting(r, "executing")' =>
               RowsWaiting(r, "executing") \/ RowsWaiting(r, "prepared")
  BY <1>2, WaitingRowsEnd DEF RunMove
<1>4. r \in tombstone /\ command[r] # "running" => r \in tombstone' /\ command'[r] # "running"
  BY <1>2 DEF CommandMove
<1>5. CASE stop'[r] = stop[r]
  BY <1>1, <1>3, <1>4, <1>5 DEF StopEstablished
<1>6. CASE stop'[r].stage = "cancelling"
  BY <1>6 DEF StopEstablished
<1>7. CASE /\ stop[r].stage = "cancelling" /\ stop'[r].stage = "killing"
           /\ run[r].pc \in RunEnded
  BY <1>3, <1>7 DEF StopEstablished
<1>8. CASE /\ stop[r].stage = "killing" /\ stop'[r].stage = "prepared" /\ ~stop[r].partial
           /\ r \in tombstone' /\ command'[r] # "running"
  BY <1>1, <1>3, <1>8 DEF StopEstablished
<1>9. CASE /\ stop[r].stage = "prepared" /\ stop'[r].stage = "executing" /\ ~stop[r].partial
           /\ CancelPreparedRows(r)
  BY <1>1, <1>3, <1>4, <1>9, ConvergedRows DEF StopEstablished
<1>10. CASE /\ stop[r].stage = "executing" /\ stop'[r].stage = "done" /\ ~stop[r].partial
            /\ MarkExecutingRowsUnknown(r)
  BY <1>1, <1>3, <1>4, <1>10, ConvergedRows DEF StopEstablished
<1> QED BY <1>1, <1>5, <1>6, <1>7, <1>8, <1>9, <1>10, StopMoves

-----------------------------------------------------------------------------
(* Types *)

\* A run keeps its type and has an operation once it has begun.
LEMMA RunsTyped ==
    ASSUME TypedInv, JournalInv, [ControlNext]_vars
    PROVE  run' \in [Runs -> RunRecord] /\ \A s \in Runs : RunNames(s)'
<1>1. /\ run \in [Runs -> RunRecord] /\ JournalInv
      /\ \A s \in Runs : RunNames(s)
  BY DEF TypedInv, ControlTypeOK
<1> DEFINE Named(rec) ==
      /\ rec \in RunRecord
      /\ rec.pc # "idle" => rec.op \in Ops /\ rec.key \in Keys
      /\ rec.pc = "observed" => rec.verdict \in Observed
<1>2. ASSUME \A s \in Runs : Named(run'[s]), run' = [s \in Runs |-> run'[s]]
      PROVE  run' \in [Runs -> RunRecord] /\ \A s \in Runs : RunNames(s)'
  BY <1>2 DEF RunNames
<1>3. ASSUME NEW r \in Runs, NEW rec, Named(rec), run' = [run EXCEPT ![r] = rec]
      PROVE  run' \in [Runs -> RunRecord] /\ \A s \in Runs : RunNames(s)'
  <2>1. run' = [s \in Runs |-> run'[s]]
    BY <1>1, <1>3
  <2>2. \A s \in Runs : run'[s] = IF s = r THEN rec ELSE run[s]
    BY <1>1, <1>3
  <2> QED BY <1>1, <1>2, <1>3, <2>1, <2>2 DEF RunNames
<1>4. ASSUME NEW r \in Runs, run[r].pc # "idle", NEW pc \in RunActive \cup RunEnded,
             pc # "observed", Goto(r, pc)
      PROVE  run' \in [Runs -> RunRecord] /\ \A s \in Runs : RunNames(s)'
  <2>1. Named([run[r] EXCEPT !.pc = pc])
    <3>1. run[r] \in RunRecord /\ run[r].op \in Ops /\ run[r].key \in Keys
      BY <1>1, <1>4 DEF RunNames
    <3> QED BY <1>4, <3>1 DEF RunRecord
  <2>2. run' = [run EXCEPT ![r] = [run[r] EXCEPT !.pc = pc]]
    BY <1>1, <1>4 DEF Goto
  <2> HIDE DEF Named
  <2> QED BY <1>3, <2>1, <2>2
<1>5. ASSUME NEW r \in Runs, run[r].pc # "idle",
             NEW verdict \in VerificationStatus \cup {"none", "error", "suppressed"},
             NEW pc \in RunActive \cup RunEnded, pc = "observed" => verdict \in Observed,
             run' = [run EXCEPT ![r].pc = pc, ![r].verdict = verdict]
      PROVE  run' \in [Runs -> RunRecord] /\ \A s \in Runs : RunNames(s)'
  <2>1. Named([run[r] EXCEPT !.pc = pc, !.verdict = verdict])
    <3>1. run[r] \in RunRecord /\ run[r].op \in Ops /\ run[r].key \in Keys
      BY <1>1, <1>5 DEF RunNames
    <3> QED BY <1>5, <3>1 DEF RunRecord
  <2>2. run' = [run EXCEPT ![r] = [run[r] EXCEPT !.pc = pc, !.verdict = verdict]]
    BY <1>1, <1>5
  <2> HIDE DEF Named
  <2> QED BY <1>3, <2>1, <2>2
<1>6. ASSUME NEW r \in Runs, NEW pc \in RunActive \cup RunEnded, pc # "observed",
             NEW o \in Ops, NEW k \in Keys,
             NEW verdict \in VerificationStatus \cup {"none", "error", "suppressed"},
             run' = [run EXCEPT ![r] = [pc |-> pc, op |-> o, key |-> k, verdict |-> verdict]]
      PROVE  run' \in [Runs -> RunRecord] /\ \A s \in Runs : RunNames(s)'
  <2>1. Named([pc |-> pc, op |-> o, key |-> k, verdict |-> verdict])
    BY <1>6 DEF RunRecord
  <2> HIDE DEF Named
  <2> QED BY <1>3, <1>6, <2>1
<1> HIDE DEF Named
<1> DEFINE Typed == run' \in [Runs -> RunRecord] /\ \A s \in Runs : RunNames(s)'
<1>7. {"insert", "reread", "mark", "marked", "calling", "succeeded", "errored", "cancelling",
       "verify", "verifying", "abandoning", "finished", "stopped", "dead"}
        \subseteq RunActive \cup RunEnded
      /\ "observed" \in RunActive
      /\ {"none", "error", "suppressed", "passed", "failed", "needs_review", "inconclusive"}
           \subseteq VerificationStatus \cup {"none", "error", "suppressed"}
  BY DEF RunActive, RunEnded, VerificationStatus
<1>8. ASSUME NEW r \in Runs, NEW q \in [op : Ops, key : Keys], NEW o \in Ops,
             ResumeExisting(r, q, o)
      PROVE  Typed
  <2>1. PICK pc \in {"finished", "verify", "mark"},
             verdict \in {"passed", "needs_review", "none", "suppressed"} :
          run' = [run EXCEPT ![r] = [pc |-> pc, op |-> o, key |-> q.key, verdict |-> verdict]]
    BY <1>8 DEF ResumeExisting
  <2> QED BY <1>6, <1>7, <2>1
<1>9. ASSUME NEW r \in Runs, NEW q \in [op : Ops, key : Keys], RaiseTo(r, q) PROVE Typed
  BY <1>6, <1>7, <1>9 DEF RaiseTo
<1>10. ASSUME NEW r \in Runs, PrepareLookup(r) PROVE Typed
  <2>1. PICK q \in Requests :
          \/ run' = [run EXCEPT ![r] = [pc |-> "insert", op |-> q.op, key |-> q.key,
                                        verdict |-> "none"]]
          \/ \E o \in Ops : ResumeExisting(r, q, o)
          \/ RaiseTo(r, q)
    BY <1>10 DEF PrepareLookup
  <2>2. q \in [op : Ops, key : Keys]
    BY ControlConstants
  <2> QED BY <1>6, <1>7, <1>8, <1>9, <2>1, <2>2
<1>11. ASSUME NEW r \in Runs, PrepareReread(r) PROVE Typed
  <2>1. [op |-> run[r].op, key |-> run[r].key] \in [op : Ops, key : Keys]
    BY <1>1, <1>11 DEF PrepareReread, RunNames
  <2> QED BY <1>8, <1>9, <1>11, <2>1 DEF PrepareReread
<1>12. ASSUME NEW r \in Runs, run[r].pc # "idle", NEW verdict \in VerificationStatus \cup {"error"},
              Finish(r, verdict)
       PROVE  Typed
  BY <1>5, <1>7, <1>12 DEF Finish
<1>13. ASSUME NEW r \in Runs, PrepareInsert(r) \/ RunMarkExecuting(r) \/ StartCall(r) PROVE Typed
  BY <1>4, <1>7, <1>12, <1>13 DEF PrepareInsert, RunMarkExecuting, StartCall
<1>14. ASSUME NEW r \in Runs, CallReturns(r) \/ TransportError(r) \/ RunRecordOutcome(r) PROVE Typed
  BY <1>4, <1>7, <1>12, <1>14 DEF CallReturns, TransportError, RunRecordOutcome
<1>15. ASSUME NEW r \in Runs,
              ExecuteRaises(r) \/ RunRecordCancelled(r) \/ RunAbandonVerification(r)
       PROVE  Typed
  BY <1>4, <1>7, <1>12, <1>15 DEF ExecuteRaises, RunRecordCancelled, RunAbandonVerification
<1>16. ASSUME NEW r \in Runs, RunClaimVerification(r) PROVE Typed
  <2>1. run[r].op \in Ops /\ run[r].pc # "idle"
    BY <1>1, <1>16 DEF RunClaimVerification, RunNames
  <2>2. journal[run[r].op].verification_status \in VerificationStatus
    BY <1>1, <2>1 DEF JournalInv, Row
  <2> QED BY <1>4, <1>7, <1>12, <1>16, <2>1, <2>2 DEF RunClaimVerification
<1>17. ASSUME NEW r \in Runs, RunPoll(r) PROVE Typed
  <2>1. PICK d \in Verdicts(run[r].op) :
          run' = [run EXCEPT ![r].pc = "observed", ![r].verdict = d]
    BY <1>17 DEF RunPoll
  <2>2. d \in Observed /\ d \in VerificationStatus /\ run[r].pc # "idle"
    BY <1>17, <2>1 DEF Verdicts, Observed, VerificationStatus, RunPoll
  <2> QED BY <1>5, <1>7, <2>1, <2>2
<1>18. ASSUME NEW r \in Runs, RunRecordVerification(r) PROVE Typed
  <2>1. run[r].verdict \in Observed /\ run[r].pc # "idle"
    BY <1>1, <1>18 DEF RunRecordVerification, RunNames
  <2> QED BY <1>7, <1>12, <1>18, <2>1 DEF RunRecordVerification, Observed
<1>19. ASSUME NEW r \in Runs, StopRequest(r) PROVE Typed
  <2>1. run[r].pc # "idle" /\ run[r].pc \in RunActive \cup RunEnded \cup {"idle"}
    BY <1>1, <1>19 DEF StopRequest, RunRecord
  <2>2. AfterCancel(run[r].pc) \in {"cancelling", "abandoning"} \cup RunEnded
    BY DEF AfterCancel, RunEnded
  <2> QED BY <1>4, <1>7, <1>19, <2>1, <2>2 DEF StopRequest, RunEnded
<1>20. ASSUME EngineGone PROVE Typed
  <2>1. ASSUME NEW s \in Runs PROVE Named(run'[s])
    <3>1. run'[s] = run[s] \/ (run[s].pc \in RunActive /\ run'[s] = [run[s] EXCEPT !.pc = "dead"])
      BY <1>20 DEF EngineGone
    <3>2. run[s] \in RunRecord /\ RunNames(s) /\ "dead" \in RunEnded
      BY <1>1 DEF RunEnded
    <3>3. "idle" \notin RunActive
      BY DEF RunActive
    <3> QED BY <3>1, <3>2, <3>3 DEF Named, RunRecord, RunNames
  <2>2. run' = [s \in Runs |-> run'[s]]
    BY <1>20 DEF EngineGone
  <2> QED BY <1>2, <2>1, <2>2
<1>21. ASSUME UNCHANGED run PROVE Typed
  BY <1>1, <1>21 DEF RunNames
<1> QED
  BY <1>10, <1>11, <1>13, <1>14, <1>15, <1>16, <1>17, <1>18, <1>19, <1>20, <1>21
     DEF ControlNext, vars, RunStep, CommandStep, CommandRegisters, CommandLands,
         CommandExits, StopStep, StopAwaitTask, StopKillCommands, StopConvergePrepared,
         StopConvergeExecuting, WorkerStep, WorkerStart, WorkerRecoverExecutions,
         WorkerRecoverVerifications, WorkerSelect, WorkerClaim, WorkerPassDone, WorkerPoll,
         WorkerRecordVerification, WorkerPublish, Crash, Shutdown, ControlTick

\* A row with a final verdict keeps it.
LEMMA FinalStays ==
    ASSUME JournalInv, [Next]_journal, NEW o \in Ops,
           journal[o].verification_status \in FinalVerdicts
    PROVE  journal'[o].verification_status = journal[o].verification_status
  BY NextIsRowNext, RowVerdictIsFinal DEF JournalInv

\* The worker keeps its type, and publishes what the journal holds.
LEMMA WorkerTyped ==
    ASSUME TypedInv, JournalInv, [ControlNext]_vars
    PROVE  worker' \in WorkerRecord /\ WorkerNames'
<1>1. worker \in WorkerRecord /\ WorkerNames
  BY DEF TypedInv, ControlTypeOK
<1>2. [Next]_journal
  BY ControlStepsJournal
<1> USE DEF WorkerRecord
<1>3. ASSUME UNCHANGED worker PROVE worker' \in WorkerRecord /\ WorkerNames'
  <2>1. worker.pc = "publish" =>
          journal'[worker.op].verification_status = journal[worker.op].verification_status
    BY <1>1, <1>2, FinalStays DEF WorkerNames
  <2> QED BY <1>1, <1>3, <2>1 DEF WorkerNames
<1>4. ASSUME NEW pc \in {"down", "executions", "verifications", "select", "claim"},
             NEW batch \in SUBSET Ops, worker' = [WorkerAt(pc) EXCEPT !.batch = batch]
      PROVE  worker' \in WorkerRecord /\ WorkerNames'
  BY <1>4 DEF WorkerAt, WorkerNames
<1>5. ASSUME NEW pc, worker' = WorkerAt(pc)
      PROVE  worker' = [WorkerAt(pc) EXCEPT !.batch = {}]
  BY <1>5 DEF WorkerAt
<1>6. CASE WorkerStart \/ WorkerRecoverExecutions \/ WorkerRecoverVerifications \/ WorkerPassDone
  BY <1>4, <1>5, <1>6
     DEF WorkerStart, WorkerRecoverExecutions, WorkerRecoverVerifications, WorkerPassDone
<1>7. CASE WorkerSelect
  BY <1>4, <1>7 DEF WorkerSelect, ReconcilableRows
<1>8. ASSUME NEW o \in Ops, WorkerClaim(o) PROVE worker' \in WorkerRecord /\ WorkerNames'
  <2> DEFINE To(pc, v, d) ==
        worker' = [pc |-> pc, batch |-> worker.batch \ {o}, op |-> o, owner |-> v, verdict |-> d]
  <2>1. CASE \E v \in FreshOwners : To("verifying", v, "none")
    BY <1>1, <2>1 DEF FreshOwners, WorkerNames
  <2>2. CASE GiveUpVerification(o) /\ To("publish", NoOne, "needs_review")
    <3>1. journal'[o] = ReleasedVerification(journal[o], "needs_review") /\ journal[o] \in Row
      BY <2>2 DEF GiveUpVerification, JournalInv
    <3>2. journal'[o].verification_status = "needs_review"
      BY <3>1 DEF ReleasedVerification, Row
    <3> QED BY <1>1, <2>2, <3>2 DEF WorkerNames, VerificationStatus, FinalVerdicts
  <2>3. CASE /\ journal[o].verification_status \in FinalVerdicts /\ UNCHANGED journal
             /\ To("publish", NoOne, journal[o].verification_status)
    BY <1>1, <2>3 DEF WorkerNames, VerificationStatus, FinalVerdicts
  <2>4. CASE To("claim", NoOne, "none")
    BY <1>1, <2>4 DEF WorkerNames
  <2> QED BY <1>8, <2>1, <2>2, <2>3, <2>4 DEF WorkerClaim
<1>9. CASE WorkerPoll
  <2>1. PICK d \in Verdicts(worker.op) : worker' = [worker EXCEPT !.pc = "observed", !.verdict = d]
    BY <1>9 DEF WorkerPoll
  <2>2. d \in Observed /\ d \in VerificationStatus
    BY DEF Verdicts, Observed, VerificationStatus
  <2> QED BY <1>1, <1>9, <2>1, <2>2 DEF WorkerPoll, WorkerNames
<1>10. CASE WorkerRecordVerification
  <2>1. worker.pc = "observed" /\ worker.op \in Ops /\ worker.verdict \in Observed
    BY <1>1, <1>10 DEF WorkerRecordVerification, WorkerNames
  <2>2. CASE /\ RecordVerification(worker.op, worker.owner, worker.verdict)
             /\ worker.verdict \in FinalVerdicts
             /\ worker' = [worker EXCEPT !.pc = "publish"]
    <3>1. /\ journal'[worker.op] = ReleasedVerification(journal[worker.op], worker.verdict)
          /\ journal[worker.op] \in Row
      BY <2>1, <2>2 DEF RecordVerification, JournalInv
    <3>2. journal'[worker.op].verification_status = worker.verdict
      BY <3>1 DEF ReleasedVerification, Row
    <3> QED BY <1>1, <2>1, <2>2, <3>2 DEF WorkerNames
  <2>3. CASE worker' = [worker EXCEPT !.pc = "claim"]
    BY <1>1, <2>3 DEF WorkerNames
  <2> QED BY <1>10, <2>2, <2>3 DEF WorkerRecordVerification
<1>11. CASE WorkerPublish
  BY <1>1, <1>11 DEF WorkerPublish, WorkerNames
<1>12. CASE EngineGone
  BY <1>4, <1>5, <1>12 DEF EngineGone
<1>13. ASSUME NEW r \in Runs, RunStep(r) PROVE UNCHANGED worker
  BY <1>13
     DEF RunStep, PrepareLookup, PrepareInsert, PrepareReread, RunMarkExecuting, StartCall,
         CallReturns, TransportError, RunRecordOutcome, ExecuteRaises, RunRecordCancelled,
         RunClaimVerification, RunPoll, RunRecordVerification, RunAbandonVerification
<1>14. ASSUME NEW r \in Runs, CommandStep(r) \/ StopStep(r) PROVE UNCHANGED worker
  BY <1>14
     DEF CommandStep, CommandRegisters, CommandLands, CommandExits, StopStep, StopRequest,
         StopAwaitTask, StopKillCommands, StopConvergePrepared, StopConvergeExecuting
<1>15. ASSUME ControlTick \/ UNCHANGED vars PROVE UNCHANGED worker
  BY <1>15 DEF ControlTick, vars
<1> QED
  BY <1>3, <1>6, <1>7, <1>8, <1>9, <1>10, <1>11, <1>12, <1>13, <1>14, <1>15
     DEF ControlNext, WorkerStep, Crash, Shutdown

\* What the steps of a run leave typed.
LEMMA RunStepTyped ==
    ASSUME ControlInv, NEW r \in Runs, RunStep(r)
    PROVE  /\ command' \in [Runs -> {"none", "starting", "running", "ok", "error"}]
           /\ reported' \in [Ops -> SUBSET VerificationStatus]
           /\ faults' \in 0..MaxFaults
           /\ UNCHANGED <<tombstone, applied, stop>>
<1>1. ControlTypeOK /\ RunNames(r) /\ JournalInv
  BY DEF ControlInv, TypedInv
<1>2. /\ command \in [Runs -> {"none", "starting", "running", "ok", "error"}]
      /\ reported \in [Ops -> SUBSET VerificationStatus]
      /\ faults \in 0..MaxFaults /\ MaxFaults \in Nat
  BY <1>1, ControlConstants DEF ControlTypeOK
<1>3. command' \in [Runs -> {"none", "starting", "running", "ok", "error"}]
      /\ UNCHANGED <<tombstone, applied, stop>>
  BY <1>2
     DEF RunStep, PrepareLookup, PrepareInsert, PrepareReread, RunMarkExecuting, StartCall,
         CallReturns, TransportError, RunRecordOutcome, ExecuteRaises, RunRecordCancelled,
         RunClaimVerification, RunPoll, RunRecordVerification, RunAbandonVerification
<1>4. faults' \in 0..MaxFaults
  <2>1. CASE ExecuteRaises(r)
    BY <1>2, <2>1 DEF ExecuteRaises
  <2>2. CASE ~ExecuteRaises(r)
    <3>1. UNCHANGED faults
      BY <2>2
         DEF RunStep, PrepareLookup, PrepareInsert, PrepareReread, RunMarkExecuting,
             StartCall, CallReturns, TransportError, RunRecordOutcome, RunRecordCancelled,
             RunClaimVerification, RunPoll, RunRecordVerification, RunAbandonVerification
    <3> QED BY <1>2, <3>1
  <2> QED BY <2>1, <2>2
<1>5. ASSUME NEW o, NEW d \in VerificationStatus, Report(o, d)
      PROVE  reported' \in [Ops -> SUBSET VerificationStatus]
  <2>1. reported' = [reported EXCEPT ![o] = reported[o] \cup {d}]
    BY <1>5 DEF Report
  <2>2. CASE o \in Ops
    <3>1. reported[o] \cup {d} \in SUBSET VerificationStatus
      BY <1>2, <1>5, <2>2
    <3> QED BY <1>2, <2>1, <3>1
  <2>3. CASE o \notin Ops
    BY <1>2, <2>1, <2>3
  <2> QED BY <2>2, <2>3
<1>6. ASSUME NEW q, NEW o \in Ops, ResumeExisting(r, q, o)
      PROVE  reported' \in [Ops -> SUBSET VerificationStatus]
  BY <1>2, <1>5, <1>6 DEF ResumeExisting, VerificationStatus
<1>7. CASE PrepareLookup(r) \/ PrepareReread(r)
  BY <1>2, <1>6, <1>7 DEF PrepareLookup, PrepareReread, RaiseTo
<1>8. CASE RunClaimVerification(r)
  <2>1. journal[run[r].op].verification_status \in VerificationStatus
    BY <1>1, <1>8 DEF RunClaimVerification, RunNames, JournalInv, Row
  <2> QED BY <1>2, <1>5, <1>8, <2>1 DEF RunClaimVerification, VerificationStatus
<1>9. CASE RunRecordVerification(r)
  <2>1. run[r].verdict \in Observed
    BY <1>1, <1>9 DEF RunRecordVerification, RunNames
  <2> QED BY <1>2, <1>5, <1>9, <2>1 DEF RunRecordVerification, VerificationStatus, Observed
<1> QED
  BY <1>2, <1>3, <1>4, <1>7, <1>8, <1>9
     DEF RunStep, PrepareInsert, RunMarkExecuting, StartCall, CallReturns, TransportError,
         RunRecordOutcome, ExecuteRaises, RunRecordCancelled, RunPoll, RunAbandonVerification

\* Every step keeps the types.
LEMMA TypedInvNext ==
    ASSUME ControlInv, [ControlNext]_vars
    PROVE  TypedInv'
<1> DEFINE CommandState == {"none", "starting", "running", "ok", "error"}
           Rest == /\ command' \in [Runs -> CommandState]
                   /\ tombstone' \subseteq Runs
                   /\ applied' \subseteq Ops
                   /\ stop' \in [Runs -> StopRecord]
                   /\ reported' \in [Ops -> SUBSET VerificationStatus]
                   /\ faults' \in 0..MaxFaults
<1>1. ControlTypeOK /\ JournalInv /\ \A r \in Runs : RunNames(r)
  BY DEF ControlInv, TypedInv
<1>2. /\ command \in [Runs -> CommandState]
      /\ tombstone \subseteq Runs
      /\ applied \subseteq Ops
      /\ calls \in [Ops -> Nat]
      /\ stop \in [Runs -> StopRecord]
      /\ reported \in [Ops -> SUBSET VerificationStatus]
      /\ faults \in 0..MaxFaults /\ MaxFaults \in Nat
  BY <1>1, ControlConstants DEF ControlTypeOK
<1>3. ASSUME NEW r \in Runs, RunStep(r) PROVE Rest
  BY <1>2, <1>3, RunStepTyped
<1>4. ASSUME NEW r \in Runs, CommandStep(r) PROVE Rest
  <2>1. CASE CommandRegisters(r)
    BY <1>2, <2>1 DEF CommandRegisters
  <2>2. CASE CommandLands(r)
    <3>1. run[r].op \in Ops
      BY <1>1, <2>2 DEF CommandLands, ControlInv, CommandsCalled, BeforeCall, RunNames
    <3> QED BY <1>2, <2>2, <3>1 DEF CommandLands
  <2>3. CASE CommandExits(r)
    BY <1>2, <2>3 DEF CommandExits
  <2> QED BY <1>4, <2>1, <2>2, <2>3 DEF CommandStep
<1>5. ASSUME NEW r \in Runs, StopStep(r) PROVE Rest
  <2>1. ASSUME NEW stage \in {"cancelling", "killing", "prepared", "executing", "done"},
               StopTo(r, stage) \/ StopPartialTo(r, stage)
        PROVE  stop' \in [Runs -> StopRecord]
    <3>1. /\ [stop[r] EXCEPT !.stage = stage] \in StopRecord
          /\ [stage |-> stage, partial |-> TRUE] \in StopRecord
      BY <1>2 DEF StopRecord
    <3>2. \/ stop' = [stop EXCEPT ![r] = [stop[r] EXCEPT !.stage = stage]]
          \/ stop' = [stop EXCEPT ![r] = [stage |-> stage, partial |-> TRUE]]
      BY <2>1 DEF StopTo, StopPartialTo
    <3> QED BY <1>2, <3>1, <3>2
  <2>3. stop' \in [Runs -> StopRecord]
    BY <1>5, <2>1
       DEF StopStep, StopRequest, StopAwaitTask, StopKillCommands, StopConvergePrepared,
           StopConvergeExecuting
  <2>4. tombstone' \subseteq Runs
    BY <1>2, <1>5
       DEF StopStep, StopRequest, StopAwaitTask, StopKillCommands, StopConvergePrepared,
           StopConvergeExecuting
  <2>2. command' \in [Runs -> CommandState] /\ UNCHANGED <<applied, reported, faults>>
    BY <1>2, <1>5
       DEF StopStep, StopRequest, StopAwaitTask, StopKillCommands, StopConvergePrepared,
           StopConvergeExecuting
  <2> QED BY <1>2, <2>2, <2>3, <2>4
<1>6. ASSUME WorkerStep PROVE Rest
  <2>1. CASE WorkerPublish
    <3>1. worker.verdict \in VerificationStatus
      BY <1>1, <2>1 DEF WorkerPublish, ControlInv, TypedInv, WorkerNames, FinalVerdicts,
                        VerificationStatus
    <3>2. worker.op \in Ops
      BY <1>1, <2>1 DEF WorkerPublish, ControlInv, TypedInv, WorkerNames
    <3>3. reported[worker.op] \cup {worker.verdict} \in SUBSET VerificationStatus
      BY <1>2, <3>1, <3>2
    <3>4. /\ UNCHANGED <<command, tombstone, applied, stop, faults>>
          /\ \/ reported' = [reported EXCEPT ![worker.op] = reported[worker.op] \cup {worker.verdict}]
             \/ reported' = reported
      BY <2>1 DEF WorkerPublish, Report
    <3> QED BY <1>2, <3>3, <3>4
  <2>2. CASE ~WorkerPublish
    <3>1. UNCHANGED <<command, tombstone, applied, stop, reported, faults>>
      BY <1>6, <2>2
       DEF WorkerStep, WorkerStart, WorkerRecoverExecutions, WorkerRecoverVerifications,
           WorkerSelect, WorkerClaim, WorkerPassDone, WorkerPoll, WorkerRecordVerification
    <3> QED BY <1>2, <3>1
  <2> QED BY <2>1, <2>2
<1>7. ASSUME EngineGone PROVE Rest
  <2>1. stop' \in [Runs -> StopRecord]
    BY <1>2, <1>7 DEF EngineGone, StopRecord
  <2>2. faults' \in 0..MaxFaults /\ UNCHANGED <<command, tombstone, applied, reported>>
    BY <1>2, <1>7 DEF EngineGone
  <2> QED BY <1>2, <2>1, <2>2
<1>8. ASSUME ControlTick \/ UNCHANGED vars PROVE Rest
  <2>1. UNCHANGED <<command, tombstone, applied, stop, reported, faults>>
    BY <1>8 DEF ControlTick, vars
  <2> QED BY <1>2, <2>1
<1> HIDE DEF Rest
<1>9. Rest
  BY <1>3, <1>4, <1>5, <1>6, <1>7, <1>8 DEF ControlNext, Crash, Shutdown
<1>10. calls' \in [Ops -> Nat]
  BY <1>2, CallIsFirst, OthersIssueNoCall
<1>11. TypeOK'
  BY RowsMove DEF JournalInv, TypeOK
<1>12. TypedInv
  BY DEF ControlInv
<1>13. /\ run' \in [Runs -> RunRecord] /\ \A s \in Runs : RunNames(s)'
       /\ worker' \in WorkerRecord /\ WorkerNames'
  BY <1>1, <1>12, RunsTyped, WorkerTyped
<1> QED BY <1>9, <1>10, <1>11, <1>13 DEF Rest, TypedInv, ControlTypeOK

-----------------------------------------------------------------------------
(* The theorems *)

\* The engine starts with an empty journal and idle runs.
LEMMA ControlInitInv == ControlInit => ControlInv
<1> SUFFICES ASSUME ControlInit PROVE ControlInv
  OBVIOUS
<1>1. JournalInv /\ KeysUnique /\ TypeOK
  BY InitJournalInv DEF ControlInit, Init, KeysUnique, Present, AbsentRow, JournalInv, TypeOK
<1>2. \A o \in Ops :
        /\ journal[o].execution_status = "absent" /\ journal[o].attempt_count = 0
        /\ journal[o].verification_status = "not_required"
  BY DEF ControlInit, Init, AbsentRow
<1>3. run \in [Runs -> RunRecord] /\ \A r \in Runs : run[r].pc = "idle"
  BY DEF ControlInit, IdleRun, RunRecord
<1>4. worker \in WorkerRecord /\ worker.pc = "executions"
  BY DEF ControlInit, WorkerAt, WorkerRecord
<1>5. TypedInv
  BY <1>1, <1>3, <1>4, ControlConstants
     DEF ControlInit, TypedInv, ControlTypeOK, RunNames, WorkerNames, StopRecord
<1>6. CallsMarked /\ CommandsCalled
  BY <1>2, <1>3 DEF ControlInit, CallsMarked, CommandsCalled
<1>7. CancelledUnmarked /\ PassedApplied /\ ReportsHold
  BY <1>2, <1>3, <1>4 DEF ControlInit, CancelledUnmarked, PassedApplied, ReportsHold
<1>8. \A r \in Runs : StopEstablished(r)
  BY DEF ControlInit, StopEstablished
<1> QED BY <1>1, <1>5, <1>6, <1>7, <1>8 DEF ControlInv

\* Every step of the program keeps the invariant.
LEMMA ControlNextInv == ControlInv /\ [ControlNext]_vars => ControlInv'
  BY RowsMove, TypedInvNext, CallsMarkedNext, CommandsCalledNext, CancelledUnmarkedNext,
     PassedAppliedNext, ReportsHoldNext, StopEstablishedNext
     DEF ControlInv

\* The invariant holds whatever runs, commands, worker, Stop and crashes do.
THEOREM ControlInvariant == ControlSpec => []ControlInv
  BY ControlInitInv, ControlNextInv, PTL DEF ControlSpec

\* Type correctness of the composed system.
THEOREM ControlTypeCorrect == ControlSpec => []ControlTypeOK
<1>1. ControlInv => ControlTypeOK
  BY DEF ControlInv, TypedInv
<1> QED BY <1>1, ControlInvariant, PTL

\* However many runs resume or race for an approved mutation, and whatever dies
\* meanwhile, at most one external call is issued for it, and for its idempotency key
\* (ToolExecutor.execute, prepare, mark_executing).
THEOREM AtMostOneCall == ControlSpec => []AtMostOnce
<1>1. ASSUME ControlInv PROVE AtMostOnce
  <2>1. ASSUME NEW o \in Ops
        PROVE  /\ calls[o] \in Nat /\ calls[o] <= 1
               /\ calls[o] > 0 => Present(o)
    <3>1. RowInv(journal[o]) /\ calls[o] \in Nat /\ calls[o] <= journal[o].attempt_count
      BY <1>1 DEF ControlInv, JournalInv, TypedInv, ControlTypeOK, CallsMarked
    <3>2. /\ journal[o].attempt_count \in Nat /\ journal[o].attempt_count <= 1
          /\ journal[o].execution_status = "absent" => journal[o].attempt_count = 0
      BY <3>1 DEF RowInv, Row, RowExecutedOnce
    <3> QED BY <3>1, <3>2 DEF Present
  <2>2. ASSUME NEW o \in Ops, NEW p \in Ops, calls[o] > 0, calls[p] > 0,
               journal[o].idempotency_key = journal[p].idempotency_key
        PROVE  o = p
    <3>1. Present(o) /\ Present(p)
      BY <2>1, <2>2
    <3> QED BY <1>1, <2>2, <3>1 DEF ControlInv, KeysUnique
  <2> QED BY <2>1, <2>2 DEF AtMostOnce
<1> QED BY <1>1, ControlInvariant, PTL

\* A row that Stop cancelled was never executed and nothing of it is in the cluster
\* (converge_stopped_run racing mark_executing).
THEOREM CancelledRowsNeverRan == ControlSpec => []CancelledNeverRan
<1>1. ASSUME ControlInv PROVE CancelledNeverRan
  <2>1. ASSUME NEW o \in Ops, journal[o].execution_status = "cancelled" PROVE calls[o] = 0
    BY <1>1, <2>1 DEF ControlInv, TypedInv, ControlTypeOK, CallsMarked, CancelledUnmarked
  <2>2. \A o \in applied : calls[o] > 0
    BY <1>1 DEF ControlInv, CommandsCalled
  <2> QED BY <2>1, <2>2 DEF CancelledNeverRan
<1> QED BY <1>1, ControlInvariant, PTL

\* A final verdict given to the user or to the model is the journal's from then on,
\* and success is only claimed of a change that is in the cluster.
THEOREM ReportsAreKept == ControlSpec => []ReportsHold
<1>1. ControlInv => ReportsHold
  BY DEF ControlInv
<1> QED BY <1>1, ControlInvariant, PTL

\* After a Stop without partial reasons the workflow is over, no command of it is
\* registered as running, and no row of it waits for an executor (stop_run,
\* converge_stopped_run).
THEOREM StopIsComplete == ControlSpec => []StoppedRunIsQuiet
<1>1. ControlInv => StoppedRunIsQuiet
  BY DEF ControlInv, StopEstablished, RowsWaiting, StoppedRunIsQuiet
<1> QED BY <1>1, ControlInvariant, PTL

-----------------------------------------------------------------------------
(* The refinement.  The program around the journal implements the life     *)
(* cycle of module MutationLifecycle: every statement on the journal is a  *)
(* step of that life cycle or leaves every phase as it is, and a command   *)
(* that lands is the step Land.                                            *)

\* The phases the refinement mapping gives the operations.
Phase == [o \in Ops |-> PhaseOf(journal[o])]

-----------------------------------------------------------------------------
(* The phase of a row, before and after each statement *)

\* The phase of a row, status by status.
LEMMA PhaseCases ==
    ASSUME NEW row, RowInv(row)
    PROVE  /\ row.execution_status = "absent" => PhaseOf(row) = "none"
           /\ row.execution_status = "prepared" => PhaseOf(row) = "admitted"
           /\ row.execution_status = "cancelled" => PhaseOf(row) = "withdrawn"
           /\ row.execution_status = "executing" => PhaseOf(row) = "launched"
           /\ row.execution_status \in Ambiguous /\ row.verification_status \in FinalVerdicts
                 => PhaseOf(row) = row.verification_status
           /\ row.execution_status \in Ambiguous /\ row.verification_status \notin FinalVerdicts
                 => PhaseOf(row) = "settled"
           /\ row.execution_status = "failed" => PhaseOf(row) = "settled"
  BY DEF PhaseOf, Ambiguous, FinalVerdicts, RowInv, RowConsistent

\* A row after the statement that claims it, ends its verification, or lets time pass.
LEMMA PhaseWhileVerified ==
    ASSUME NEW row, RowInv(row)
    PROVE  /\ PhaseOf(Elapsed(row)) = PhaseOf(row)
           /\ \A v : Claimable(row, v) =>
                PhaseOf(row) = "settled" /\ PhaseOf(ClaimedVerification(row, v)) = "settled"
           /\ NeedsReview(row) \/ row.verification_status = "verifying" =>
                /\ PhaseOf(row) = "settled"
                /\ PhaseOf(ReleasedVerification(row, "inconclusive")) = "settled"
                /\ \A d \in FinalVerdicts : PhaseOf(ReleasedVerification(row, d)) = d
<1>1. row \in Row
  BY DEF RowInv
<1>2. PhaseOf(Elapsed(row)) = PhaseOf(row)
  BY <1>1 DEF PhaseOf, Elapsed, Row
<1>3. ASSUME NEW v, Claimable(row, v)
      PROVE  PhaseOf(row) = "settled" /\ PhaseOf(ClaimedVerification(row, v)) = "settled"
  <2>1. /\ ClaimedVerification(row, v).execution_status = row.execution_status
        /\ ClaimedVerification(row, v).verification_status = "verifying"
    BY <1>1 DEF ClaimedVerification, Row
  <2>2. row.execution_status \in Ambiguous /\ row.verification_status \notin FinalVerdicts
    BY <1>3 DEF Claimable, TerminalVerification, FinalVerdicts
  <2> QED BY <2>1, <2>2 DEF PhaseOf, Ambiguous, FinalVerdicts
<1>4. ASSUME NeedsReview(row) \/ row.verification_status = "verifying"
      PROVE  /\ PhaseOf(row) = "settled"
             /\ PhaseOf(ReleasedVerification(row, "inconclusive")) = "settled"
             /\ \A d \in FinalVerdicts : PhaseOf(ReleasedVerification(row, d)) = d
  <2>1. row.execution_status \in Ambiguous /\ row.verification_status \notin FinalVerdicts
    BY <1>4, VerifyingIsAmbiguous DEF NeedsReview, TerminalVerification, FinalVerdicts
  <2>2. \A d : /\ ReleasedVerification(row, d).execution_status = row.execution_status
               /\ ReleasedVerification(row, d).verification_status = d
    BY <1>1 DEF ReleasedVerification, Row
  <2> QED BY <2>1, <2>2 DEF PhaseOf, Ambiguous, FinalVerdicts
<1> QED BY <1>2, <1>3, <1>4

\* A row after the statement that inserts it, marks it, or ends its execution.
LEMMA PhaseWhileExecuted ==
    ASSUME NEW row, RowInv(row)
    PROVE  /\ \A k, r : PhaseOf(PreparedRow(k, r, TRUE)) = "admitted"
           /\ row.execution_status = "prepared" =>
                \A r : PhaseOf(MarkedExecuting(row, r)) = "launched"
           /\ PhaseOf(CancelledBeforeExecution(row)) = "withdrawn"
           /\ PhaseOf(RecoveredExecution(row)) = "settled"
           /\ row.execution_status = "executing" =>
                \A st \in Ambiguous : PhaseOf(RecordedExecution(row, st)) = "settled"
<1>1. row \in Row
  BY DEF RowInv
<1>2. ASSUME NEW k, NEW r PROVE PhaseOf(PreparedRow(k, r, TRUE)) = "admitted"
  <2>1. /\ PreparedRow(k, r, TRUE).execution_status = "prepared"
        /\ PreparedRow(k, r, TRUE).verification_status = "pending"
    BY DEF PreparedRow, AbsentRow
  <2> QED BY <2>1 DEF PhaseOf, FinalVerdicts
<1>3. ASSUME NEW r, row.execution_status = "prepared"
      PROVE  PhaseOf(MarkedExecuting(row, r)) = "launched"
  <2>1. /\ MarkedExecuting(row, r).execution_status = "executing"
        /\ MarkedExecuting(row, r).verification_status = row.verification_status
        /\ row.verification_status \in {"pending", "not_required"}
    BY <1>1, <1>3 DEF MarkedExecuting, Row, RowInv, RowConsistent
  <2> QED BY <2>1 DEF PhaseOf, FinalVerdicts
<1>4. PhaseOf(CancelledBeforeExecution(row)) = "withdrawn"
  <2>1. /\ CancelledBeforeExecution(row).execution_status = "cancelled"
        /\ CancelledBeforeExecution(row).verification_status = "not_required"
    BY <1>1 DEF CancelledBeforeExecution, Row
  <2> QED BY <2>1 DEF PhaseOf, FinalVerdicts
<1>5. PhaseOf(RecoveredExecution(row)) = "settled"
  <2>1. /\ RecoveredExecution(row).execution_status = "unknown"
        /\ RecoveredExecution(row).verification_status = "pending"
    BY <1>1 DEF RecoveredExecution, Row
  <2> QED BY <2>1 DEF PhaseOf, FinalVerdicts
<1>6. ASSUME row.execution_status = "executing", NEW st \in Ambiguous
      PROVE  PhaseOf(RecordedExecution(row, st)) = "settled"
  <2>1. /\ RecordedExecution(row, st).execution_status = st
        /\ RecordedExecution(row, st).verification_status = row.verification_status
        /\ row.verification_status \in {"pending", "not_required"}
    BY <1>1, <1>6 DEF RecordedExecution, Row, Ambiguous, RowInv, RowConsistent
  <2> QED BY <2>1 DEF PhaseOf, FinalVerdicts, Ambiguous
<1> QED BY <1>2, <1>3, <1>4, <1>5, <1>6

-----------------------------------------------------------------------------
(* Statements are steps of the life cycle *)

\* The steps of the life cycle, in terms of the phases of the mapping.
LEMMA LifecycleSteps ==
    /\ \A o \in Ops : \A from, to :
         Lifecycle!Move(o, from, to) <=>
           /\ Phase[o] = from
           /\ Phase' = [Phase EXCEPT ![o] = to]
           /\ UNCHANGED applied
    /\ \A S \in SUBSET Ops :
         Lifecycle!Settle(S) <=>
           /\ \A o \in S : Phase[o] = "launched"
           /\ Phase' = [o \in Ops |-> IF o \in S THEN "settled" ELSE Phase[o]]
           /\ UNCHANGED applied
    /\ \A S \in SUBSET Ops :
         Lifecycle!Withdraw(S) <=>
           /\ \A o \in S : Phase[o] = "admitted"
           /\ Phase' = [o \in Ops |-> IF o \in S THEN "withdrawn" ELSE Phase[o]]
           /\ UNCHANGED applied
    /\ \A o \in Ops :
         Lifecycle!Land(o) <=>
           /\ Phase[o] \in {"launched", "settled"} \cup Lifecycle!Decided
           /\ o \notin applied
           /\ applied' = applied \cup {o}
           /\ UNCHANGED Phase
  BY DEF Lifecycle!Move, Lifecycle!Settle, Lifecycle!Withdraw, Lifecycle!Land, Phase

\* Replacing one row changes one phase.
LEMMA OnePhaseMoves ==
    ASSUME JournalInv, NEW p \in Ops, NEW new, journal' = [journal EXCEPT ![p] = new]
    PROVE  Phase' = [Phase EXCEPT ![p] = PhaseOf(new)]
<1>1. \A o \in Ops : journal'[o] = IF o = p THEN new ELSE journal[o]
  BY DEF JournalInv
<1>2. \A o \in Ops : Phase'[o] = IF o = p THEN PhaseOf(new) ELSE PhaseOf(journal[o])
  BY <1>1 DEF Phase
<1> QED BY <1>2 DEF Phase

\* prepare admits the change.
LEMMA InsertAdmits ==
    ASSUME JournalInv, NEW r \in Runs, InsertStatement(r), UNCHANGED applied
    PROVE  Lifecycle!LifecycleNext
<1>1. PICK p \in Ops :
        /\ journal[p].execution_status = "absent"
        /\ journal' = [journal EXCEPT ![p] = PreparedRow(run[r].key, r, TRUE)]
  BY DEF InsertStatement, Insert, Present
<1>2. RowInv(journal[p])
  BY <1>1 DEF JournalInv
<1>3. Phase[p] = "none" /\ Phase' = [Phase EXCEPT ![p] = "admitted"]
  <2>1. PhaseOf(journal[p]) = "none" /\ PhaseOf(PreparedRow(run[r].key, r, TRUE)) = "admitted"
    BY <1>1, <1>2, PhaseCases, PhaseWhileExecuted
  <2> QED BY <1>1, <2>1, OnePhaseMoves DEF Phase
<1>4. Lifecycle!Move(p, "none", "admitted")
  BY <1>1, <1>3, LifecycleSteps
<1> QED BY <1>1, <1>4 DEF Lifecycle!LifecycleNext, Lifecycle!Admit

\* A statement on one row launches, settles or decides its change, or leaves its
\* phase as it is.
LEMMA OneRowMaps ==
    ASSUME JournalInv, NEW p \in Ops, OneRowStatement(p), UNCHANGED applied
    PROVE  Lifecycle!LifecycleNext \/ UNCHANGED Phase
<1>1. RowInv(journal[p]) /\ journal[p] \in Row /\ Phase[p] = PhaseOf(journal[p])
  BY DEF JournalInv, RowInv, Phase
<1>2. ASSUME NEW new, journal' = [journal EXCEPT ![p] = new],
             PhaseOf(new) = PhaseOf(journal[p])
      PROVE  UNCHANGED Phase
  <2>1. Phase' = [Phase EXCEPT ![p] = Phase[p]]
    BY <1>1, <1>2, OnePhaseMoves
  <2> QED BY <2>1 DEF Phase
<1>3. ASSUME NEW d \in FinalVerdicts, NeedsReview(journal[p])
                                      \/ journal[p].verification_status = "verifying",
             journal' = [journal EXCEPT ![p] = ReleasedVerification(journal[p], d)],
             d = "passed" => p \in applied
      PROVE  Lifecycle!LifecycleNext
  <2>1. Phase[p] = "settled" /\ Phase' = [Phase EXCEPT ![p] = d]
    <3>1. /\ PhaseOf(journal[p]) = "settled"
          /\ PhaseOf(ReleasedVerification(journal[p], d)) = d
      BY <1>1, <1>3, PhaseWhileVerified
    <3> QED BY <1>1, <1>3, <3>1, OnePhaseMoves
  <2>2. Lifecycle!Move(p, "settled", d)
    BY <2>1, LifecycleSteps
  <2>3. Lifecycle!Decide(p, d) /\ d \in Lifecycle!Decided
    BY <1>3, <2>2 DEF Lifecycle!Decide, Lifecycle!Decided, FinalVerdicts
  <2> QED BY <2>3 DEF Lifecycle!LifecycleNext
<1>4. ASSUME journal[p].verification_status = "verifying",
             journal' = [journal EXCEPT ![p] = ReleasedVerification(journal[p], "inconclusive")]
      PROVE  UNCHANGED Phase
  <2>1. PhaseOf(ReleasedVerification(journal[p], "inconclusive")) = PhaseOf(journal[p])
    BY <1>1, <1>4, PhaseWhileVerified
  <2> QED BY <1>2, <1>4, <2>1
<1>5. ASSUME NEW r \in Runs, MarkExecuting(p, r) PROVE Lifecycle!LifecycleNext
  <2>1. /\ journal[p].execution_status = "prepared"
        /\ journal' = [journal EXCEPT ![p] = MarkedExecuting(journal[p], r)]
    BY <1>5 DEF MarkExecuting
  <2>2. PhaseOf(journal[p]) = "admitted" /\ PhaseOf(MarkedExecuting(journal[p], r)) = "launched"
    BY <1>1, <2>1, PhaseCases, PhaseWhileExecuted
  <2>3. Phase[p] = "admitted" /\ Phase' = [Phase EXCEPT ![p] = "launched"]
    BY <1>1, <2>1, <2>2, OnePhaseMoves
  <2>4. Lifecycle!Move(p, "admitted", "launched")
    BY <2>3, LifecycleSteps
  <2> QED BY <2>4 DEF Lifecycle!LifecycleNext, Lifecycle!Launch
<1>6. ASSUME NEW st \in Ambiguous, RecordExecution(p, st) PROVE Lifecycle!LifecycleNext
  <2>1. /\ journal[p].execution_status = "executing"
        /\ journal' = [journal EXCEPT ![p] = RecordedExecution(journal[p], st)]
    BY <1>6 DEF RecordExecution
  <2>2. PhaseOf(journal[p]) = "launched" /\ PhaseOf(RecordedExecution(journal[p], st)) = "settled"
    BY <1>1, <1>6, <2>1, PhaseCases, PhaseWhileExecuted
  <2>3. Phase[p] = "launched" /\ Phase' = [Phase EXCEPT ![p] = "settled"]
    BY <1>1, <2>1, <2>2, OnePhaseMoves
  <2>4. Phase' = [o \in Ops |-> IF o \in {p} THEN "settled" ELSE Phase[o]]
    BY <2>3 DEF Phase
  <2>5. Lifecycle!Settle({p})
    BY <2>3, <2>4, LifecycleSteps
  <2> QED BY <2>5 DEF Lifecycle!LifecycleNext
<1>7. ASSUME NEW v \in Verifiers, ClaimVerification(p, v) PROVE UNCHANGED Phase
  <2>1. /\ Claimable(journal[p], v)
        /\ journal' = [journal EXCEPT ![p] = ClaimedVerification(journal[p], v)]
    BY <1>7 DEF ClaimVerification
  <2>2. PhaseOf(ClaimedVerification(journal[p], v)) = PhaseOf(journal[p])
    BY <1>1, <2>1, PhaseWhileVerified
  <2> QED BY <1>2, <2>1, <2>2
<1>8. ASSUME GiveUpVerification(p) PROVE Lifecycle!LifecycleNext
  <2>1. /\ NeedsReview(journal[p]) /\ "needs_review" \in FinalVerdicts
        /\ journal' = [journal EXCEPT ![p] = ReleasedVerification(journal[p], "needs_review")]
    BY <1>8 DEF GiveUpVerification, FinalVerdicts
  <2> QED BY <1>3, <2>1
<1>9. ASSUME NEW v \in Verifiers, AbandonVerification(p, v) PROVE UNCHANGED Phase
  BY <1>4, <1>9 DEF AbandonVerification, HoldsVerification
<1>10. ASSUME NEW v \in Verifiers, NEW st \in Observed, RecordVerification(p, v, st),
              st = "passed" => p \in applied
       PROVE  Lifecycle!LifecycleNext \/ UNCHANGED Phase
  <2>1. /\ journal[p].verification_status = "verifying"
        /\ journal' = [journal EXCEPT ![p] = ReleasedVerification(journal[p], st)]
    BY <1>10 DEF RecordVerification, HoldsVerification
  <2> QED BY <1>3, <1>4, <1>10, <2>1 DEF Observed, FinalVerdicts
<1> QED BY <1>5, <1>6, <1>7, <1>8, <1>9, <1>10 DEF OneRowStatement

\* A statement on many rows settles or withdraws their changes, or leaves every
\* phase as it is.
LEMMA ManyRowsMap ==
    ASSUME JournalInv, ManyRowsStatement, UNCHANGED applied
    PROVE  Lifecycle!LifecycleNext \/ UNCHANGED Phase
<1>1. \A o \in Ops : RowInv(journal[o]) /\ Phase[o] = PhaseOf(journal[o])
  BY DEF JournalInv, Phase
<1>2. ASSUME NEW S \in SUBSET Ops, \A o \in S : journal[o].execution_status = "executing",
             \A o \in Ops :
               journal'[o] = IF o \in S THEN RecoveredExecution(journal[o]) ELSE journal[o]
      PROVE  Lifecycle!LifecycleNext
  <2>1. \A o \in S : Phase[o] = "launched" /\ PhaseOf(RecoveredExecution(journal[o])) = "settled"
    BY <1>1, <1>2, PhaseCases, PhaseWhileExecuted
  <2>2. \A o \in Ops : PhaseOf(journal'[o]) = IF o \in S THEN "settled" ELSE Phase[o]
    BY <1>1, <1>2, <2>1
  <2>3. Phase' = [o \in Ops |-> IF o \in S THEN "settled" ELSE Phase[o]]
    BY <2>2 DEF Phase
  <2>4. Lifecycle!Settle(S)
    BY <2>1, <2>3, LifecycleSteps
  <2> QED BY <2>4 DEF Lifecycle!LifecycleNext
<1>3. ASSUME NEW S \in SUBSET Ops, \A o \in S : journal[o].execution_status = "prepared",
             \A o \in Ops :
               journal'[o] = IF o \in S THEN CancelledBeforeExecution(journal[o])
                                        ELSE journal[o]
      PROVE  Lifecycle!LifecycleNext
  <2>1. \A o \in S : /\ Phase[o] = "admitted"
                     /\ PhaseOf(CancelledBeforeExecution(journal[o])) = "withdrawn"
    BY <1>1, <1>3, PhaseCases, PhaseWhileExecuted
  <2>2. \A o \in Ops : PhaseOf(journal'[o]) = IF o \in S THEN "withdrawn" ELSE Phase[o]
    BY <1>1, <1>3, <2>1
  <2>3. Phase' = [o \in Ops |-> IF o \in S THEN "withdrawn" ELSE Phase[o]]
    BY <2>2 DEF Phase
  <2>4. Lifecycle!Withdraw(S)
    BY <2>1, <2>3, LifecycleSteps
  <2> QED BY <2>4 DEF Lifecycle!LifecycleNext
<1>4. ASSUME \A o \in Ops : PhaseOf(journal'[o]) = PhaseOf(journal[o]) PROVE UNCHANGED Phase
  BY <1>4 DEF Phase
<1>5. CASE RecoverStaleExecutions
  BY <1>2, <1>5 DEF RecoverStaleExecutions, UpdateRows, StaleExecutions
<1>6. CASE RecoverStaleVerifications
  <2>1. \A o \in Ops :
          journal'[o] = IF o \in StaleVerifications
                        THEN ReleasedVerification(journal[o], "inconclusive") ELSE journal[o]
    BY <1>6 DEF RecoverStaleVerifications, UpdateRows
  <2>2. \A o \in StaleVerifications :
          /\ PhaseOf(journal[o]) = "settled"
          /\ PhaseOf(ReleasedVerification(journal[o], "inconclusive")) = "settled"
    BY <1>1, PhaseWhileVerified DEF StaleVerifications
  <2> QED BY <1>4, <2>1, <2>2
<1>7. ASSUME NEW r \in Runs, CancelPreparedRows(r) PROVE Lifecycle!LifecycleNext
  BY <1>3, <1>7 DEF CancelPreparedRows, UpdateRows, RowsOfRun
<1>8. ASSUME NEW r \in Runs, MarkExecutingRowsUnknown(r) PROVE Lifecycle!LifecycleNext
  BY <1>2, <1>8 DEF MarkExecutingRowsUnknown, UpdateRows, RowsOfRun
<1>9. CASE Tick
  <2>1. \A o \in Ops : journal'[o] = Elapsed(journal[o]) \/ journal'[o] = journal[o]
    BY <1>9 DEF Tick, UpdateRows
  <2> QED BY <1>1, <1>4, <2>1, PhaseWhileVerified
<1> QED BY <1>5, <1>6, <1>7, <1>8, <1>9 DEF ManyRowsStatement

\* Only a command that lands changes the cluster, and it changes nothing else.
LEMMA LandingAlone ==
    ASSUME [ControlNext]_vars, ~ \E r \in Runs : CommandLands(r)
    PROVE  UNCHANGED applied
<1>1. ASSUME NEW r \in Runs, RunStep(r) PROVE UNCHANGED applied
  BY <1>1
     DEF RunStep, PrepareLookup, PrepareInsert, PrepareReread, RunMarkExecuting, StartCall,
         CallReturns, TransportError, RunRecordOutcome, ExecuteRaises, RunRecordCancelled,
         RunClaimVerification, RunPoll, RunRecordVerification, RunAbandonVerification
<1>2. ASSUME NEW r \in Runs, CommandStep(r) \/ StopStep(r) PROVE UNCHANGED applied
  BY <1>2
     DEF CommandStep, CommandRegisters, CommandExits, StopStep, StopRequest, StopAwaitTask,
         StopKillCommands, StopConvergePrepared, StopConvergeExecuting
<1>3. CASE WorkerStep
  BY <1>3
     DEF WorkerStep, WorkerStart, WorkerRecoverExecutions, WorkerRecoverVerifications,
         WorkerSelect, WorkerClaim, WorkerPassDone, WorkerPoll, WorkerRecordVerification,
         WorkerPublish
<1>4. CASE Crash \/ Shutdown \/ ControlTick \/ UNCHANGED vars
  BY <1>4 DEF Crash, Shutdown, EngineGone, ControlTick, vars
<1> QED BY <1>1, <1>2, <1>3, <1>4 DEF ControlNext

\* A command lands for an operation that was launched, and lands once.
LEMMA LandingMaps ==
    ASSUME ControlInv, NEW r \in Runs, CommandLands(r)
    PROVE  Lifecycle!LifecycleNext
<1> DEFINE p == run[r].op
<1>1. /\ p \notin applied /\ applied' = applied \cup {p} /\ UNCHANGED journal
      /\ command[r] # "none"
  BY DEF CommandLands
<1>2. p \in Ops /\ calls[p] > 0
  BY <1>1 DEF ControlInv, TypedInv, CommandsCalled, BeforeCall, RunNames
<1>3. /\ RowInv(journal[p]) /\ calls[p] \in Nat /\ calls[p] <= journal[p].attempt_count
      /\ journal[p].execution_status = "cancelled" => journal[p].attempt_count = 0
  BY <1>2 DEF ControlInv, JournalInv, TypedInv, ControlTypeOK, CallsMarked, CancelledUnmarked
<1> HIDE DEF p
<1>4. journal[p].execution_status \in Ambiguous \cup {"executing", "failed"}
  BY <1>2, <1>3 DEF RowInv, Row, RowExecutedOnce, ExecutionStatus, Ambiguous
<1>5. Phase[p] \in {"launched", "settled"} \cup FinalVerdicts
  <2>1. Phase[p] = PhaseOf(journal[p])
    BY <1>2 DEF Phase
  <2> QED BY <1>3, <1>4, <2>1, PhaseCases
<1>6. UNCHANGED Phase
  BY <1>1 DEF Phase
<1>7. Lifecycle!Land(p)
  BY <1>1, <1>2, <1>5, <1>6, LifecycleSteps DEF Lifecycle!Decided, FinalVerdicts
<1> QED BY <1>2, <1>7 DEF Lifecycle!LifecycleNext

-----------------------------------------------------------------------------
(* The refinement *)

\* Every step of the program is a step of the life cycle or changes nothing of it.
LEMMA ControlStepMaps ==
    ASSUME ControlInv, [ControlNext]_vars
    PROVE  [Lifecycle!LifecycleNext]_<<Phase, applied>>
<1>1. CASE \E r \in Runs : CommandLands(r)
  BY <1>1, LandingMaps
<1>2. CASE ~ \E r \in Runs : CommandLands(r)
  <2>1. JournalInv /\ UNCHANGED applied
    BY <1>2, LandingAlone DEF ControlInv
  <2>2. CASE UNCHANGED journal
    BY <2>1, <2>2 DEF Phase
  <2> QED BY <2>1, <2>2, ControlStatements, InsertAdmits, OneRowMaps, ManyRowsMap
<1> QED BY <1>1, <1>2

\* Runs, leases, retries, Stop, crashes and recovery together implement the life cycle
\* an operator is promised: admitted once, withdrawn or launched once, settled, decided
\* once and for all, positively only if the change is in the cluster.
THEOREM ProgramImplementsLifecycle == ControlSpec => ImplementsLifecycle
<1>1. ControlInit => Lifecycle!LifecycleInit
  <2> SUFFICES ASSUME ControlInit PROVE Lifecycle!LifecycleInit
    OBVIOUS
  <2>1. \A o \in Ops : PhaseOf(journal[o]) = "none"
    <3>1. RowInv(AbsentRow) /\ AbsentRow.execution_status = "absent"
      BY AbsentRowInv DEF AbsentRow
    <3>2. \A o \in Ops : journal[o] = AbsentRow
      BY DEF ControlInit, Init
    <3> QED BY <3>1, <3>2, PhaseCases DEF ControlInit
  <2> QED BY <2>1 DEF Lifecycle!LifecycleInit, ControlInit
<1>2. ControlInv /\ [ControlNext]_vars =>
        [Lifecycle!LifecycleNext]_<<[o \in Ops |-> PhaseOf(journal[o])], applied>>
  BY ControlStepMaps DEF Phase
<1> QED
  BY <1>1, <1>2, ControlInvariant, PTL
     DEF ControlSpec, ImplementsLifecycle, Lifecycle!LifecycleSpec
=============================================================================

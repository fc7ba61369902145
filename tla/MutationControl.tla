--------------------------- MODULE MutationControl ---------------------------
(***************************************************************************)
(* The program around the journal: workflow runs that execute an approved  *)
(* mutation and verify it (ToolExecutor.execute, MutationVerifier.verify,  *)
(* the verification node), the MCP command they start, the recovery worker *)
(* (MutationRecoveryWorker), the Stop endpoint (stop_run) and crashes of   *)
(* the engine.  A run carries one mutation; the same mutation reaches      *)
(* several runs when an approval is sent twice, or when a conversation     *)
(* goes on after a crash from a checkpoint that still lists it.            *)
(*                                                                         *)
(* One step of a run is what it does between two awaits that matter: a     *)
(* statement on the journal, the start or the return of the external call, *)
(* one reading of the cluster.                                             *)
(***************************************************************************)
EXTENDS MutationJournal

CONSTANTS
    Requests,           \* [op, key]: the tool calls a run can be asked to execute
    IntentOf,           \* the tool and arguments behind an idempotency key
    RecoveryOwners,     \* "recovery:<uuid>" lease owners
    RecoveryBatchSize,  \* MUTATION_RECOVERY_BATCH_SIZE
    MaxFaults,          \* bound on crashes, shutdowns and failures of the database
    MaxStops            \* bound on Stop requests

ASSUME ControlConstants ==
    /\ Requests \subseteq [op : Ops, key : Keys]
    /\ DOMAIN IntentOf = Keys
    /\ Verifiers = Runs \cup RecoveryOwners
    /\ Runs \cap RecoveryOwners = {}
    /\ NoOne \notin Ops
    /\ RecoveryBatchSize \in Nat \ {0}
    /\ MaxFaults \in Nat
    /\ MaxStops \in Nat

VARIABLES
    run,        \* run[r]: where the workflow of run r stands
    command,    \* command[r]: the MCP command of run r
    tombstone,  \* runs whose commands the MCP server refuses and kills
    applied,    \* operations whose marker is in the cluster
    calls,      \* calls[o]: external tool calls issued for operation o
    stop,       \* stop[r]: where the Stop request for run r stands
    worker,     \* the recovery worker
    reported,   \* reported[o]: verdicts given to the user or to the model
    faults      \* crashes, shutdowns and failures of the database so far

vars == <<journal, run, command, tombstone, applied, calls, stop, worker, reported, faults>>

-----------------------------------------------------------------------------
(* Runs *)

RunActive ==
    {"insert", "reread", "mark", "marked", "calling", "succeeded", "errored",
     "cancelling", "verify", "verifying", "observed", "abandoning"}

RunEnded == {"finished", "stopped", "dead"}

RunRecord ==
    [pc : RunActive \cup RunEnded \cup {"idle"},
     op : Ops \cup {NoOne},
     key : Keys \cup {NoOne},
     verdict : VerificationStatus \cup {"none", "error", "suppressed"}]

IdleRun == [pc |-> "idle", op |-> NoOne, key |-> NoOne, verdict |-> "none"]

Goto(r, pc) == run' = [run EXCEPT ![r].pc = pc]

Finish(r, verdict) ==
    run' = [run EXCEPT ![r].pc = "finished", ![r].verdict = verdict]

Report(o, verdict) == reported' = [reported EXCEPT ![o] = @ \cup {verdict}]

\* What execute does with a row that prepare found: suppress the duplicate,
\* verify it, or go on with a row nobody has started to execute yet.
ResumeExisting(r, q, o) ==
    LET row == journal[o]
        At(pc, verdict) ==
            run' = [run EXCEPT ![r] =
                      [pc |-> pc, op |-> o, key |-> q.key, verdict |-> verdict]]
    IN  \/ /\ row.verification_status \in {"passed", "needs_review"}
           /\ At("finished", row.verification_status)
           /\ Report(o, row.verification_status)
        \/ /\ row.execution_status \in Ambiguous
           /\ row.verification_status \in {"pending", "verifying", "inconclusive"}
           /\ At("verify", "none")
           /\ UNCHANGED reported
        \/ /\ row.execution_status \in Ambiguous
           /\ row.verification_status \in {"failed", "not_required"}
           /\ At("finished", "suppressed")
           /\ UNCHANGED reported
        \/ /\ row.execution_status \in {"executing", "failed", "cancelled"}
           /\ At("finished", "suppressed")
           /\ UNCHANGED reported
        \/ /\ row.execution_status = "prepared"
           /\ At("mark", "none")
           /\ UNCHANGED reported

\* Raised inside execute and turned into text: nothing tells the graph to verify.
RaiseTo(r, q) ==
    /\ run' = [run EXCEPT ![r] =
                 [pc |-> "finished", op |-> q.op, key |-> q.key, verdict |-> "error"]]
    /\ UNCHANGED reported

\* prepare: the SELECT by id or idempotency key.  first() may return either match.
PrepareLookup(r) ==
    /\ run[r].pc = "idle"
    /\ worker.pc # "down"
    /\ \E q \in Requests :
         LET matches == {o \in Ops : /\ Present(o)
                                     /\ o = q.op \/ journal[o].idempotency_key = q.key}
         IN  \/ /\ matches = {}
                /\ run' = [run EXCEPT ![r] = [pc |-> "insert", op |-> q.op,
                                              key |-> q.key, verdict |-> "none"]]
                /\ UNCHANGED reported
             \/ \E o \in matches :
                  \/ /\ IntentOf[journal[o].idempotency_key] = IntentOf[q.key]
                     /\ ResumeExisting(r, q, o)
                  \/ /\ IntentOf[journal[o].idempotency_key] # IntentOf[q.key]
                     /\ RaiseTo(r, q)
    /\ UNCHANGED <<journal, command, tombstone, applied, calls, stop, worker, faults>>

\* prepare: the INSERT, or the IntegrityError of a caller that was faster.
PrepareInsert(r) ==
    /\ run[r].pc = "insert"
    /\ \/ /\ Insert(run[r].op, run[r].key, r, TRUE)
          /\ Goto(r, "mark")
       \/ /\ \/ Present(run[r].op)
             \/ \E p \in Ops : Present(p) /\ journal[p].idempotency_key = run[r].key
          /\ Goto(r, "reread")
          /\ UNCHANGED journal
    /\ UNCHANGED <<command, tombstone, applied, calls, stop, worker, reported, faults>>

\* prepare: the SELECT by idempotency key after the IntegrityError.
PrepareReread(r) ==
    /\ run[r].pc = "reread"
    /\ LET q == [op |-> run[r].op, key |-> run[r].key]
           same == {o \in Ops : Present(o) /\ journal[o].idempotency_key = q.key}
       IN  \/ \E o \in same : ResumeExisting(r, q, o)
           \/ same = {} /\ RaiseTo(r, q)
    /\ UNCHANGED <<journal, command, tombstone, applied, calls, stop, worker, faults>>

RunMarkExecuting(r) ==
    /\ run[r].pc = "mark"
    /\ \/ /\ MarkExecuting(run[r].op, r)
          /\ Goto(r, "marked")
       \/ /\ journal[run[r].op].execution_status # "prepared"
          /\ Finish(r, "error")
          /\ UNCHANGED journal
    /\ UNCHANGED <<command, tombstone, applied, calls, stop, worker, reported, faults>>

StartCall(r) ==
    /\ run[r].pc = "marked"
    /\ Goto(r, "calling")
    /\ calls' = [calls EXCEPT ![run[r].op] = @ + 1]
    /\ command' = [command EXCEPT ![r] = "starting"]
    /\ UNCHANGED <<journal, tombstone, applied, stop, worker, reported, faults>>

CallReturns(r) ==
    /\ run[r].pc = "calling"
    /\ \/ command[r] = "ok" /\ Goto(r, "succeeded")
       \/ command[r] = "error" /\ Goto(r, "errored")
    /\ UNCHANGED <<journal, command, tombstone, applied, calls, stop, worker, reported, faults>>

\* MCPClient.call_tool turns a lost connection into an ambiguous error result.
TransportError(r) ==
    /\ run[r].pc = "calling"
    /\ command[r] \in {"starting", "running"}
    /\ Goto(r, "errored")
    /\ UNCHANGED <<journal, command, tombstone, applied, calls, stop, worker, reported, faults>>

\* The result of the call is journaled; an error never counts as "nothing happened".
\* If Stop or lease recovery moved the row first, record_execution raises.
RunRecordOutcome(r) ==
    /\ run[r].pc \in {"succeeded", "errored"}
    /\ \/ /\ RecordExecution(run[r].op,
                IF run[r].pc = "succeeded" THEN "reported_success" ELSE "unknown")
          /\ Goto(r, "verify")
       \/ /\ journal[run[r].op].execution_status # "executing"
          /\ Finish(r, "error")
          /\ UNCHANGED journal
    /\ UNCHANGED <<command, tombstone, applied, calls, stop, worker, reported, faults>>

\* Any other exception of execute outside the call, the database being away for
\* one: it becomes text, and a row that was marked stays as it is.
ExecuteRaises(r) ==
    /\ run[r].pc \in {"insert", "reread", "mark", "marked", "succeeded", "errored"}
    /\ faults < MaxFaults
    /\ faults' = faults + 1
    /\ Finish(r, "error")
    /\ UNCHANGED <<journal, command, tombstone, applied, calls, stop, worker, reported>>

\* The CancelledError handler around the call: record UNKNOWN, then re-raise.
RunRecordCancelled(r) ==
    /\ run[r].pc = "cancelling"
    /\ \/ RecordExecution(run[r].op, "unknown")
       \/ journal[run[r].op].execution_status # "executing" /\ UNCHANGED journal
    /\ Goto(r, "stopped")
    /\ UNCHANGED <<command, tombstone, applied, calls, stop, worker, reported, faults>>

-----------------------------------------------------------------------------
(* The MCP command of a run *)

\* A server that registers any process, stopped run or not.
CommandRegistersAlways(r) ==
    /\ command[r] = "starting"
    /\ command' = [command EXCEPT ![r] = "running"]
    /\ UNCHANGED <<journal, run, tombstone, applied, calls, stop, worker, reported, faults>>

\* _register_process: the process of a stopped run is terminated instead.
CommandRegisters(r) ==
    /\ command[r] = "starting"
    /\ command' = [command EXCEPT ![r] = IF r \in tombstone THEN "error" ELSE "running"]
    /\ UNCHANGED <<journal, run, tombstone, applied, calls, stop, worker, reported, faults>>

\* The change lands in the cluster, carrying the marker of the operation.  The
\* process is spawned before it is registered, so it can land even then.
CommandLands(r) ==
    /\ command[r] \in {"starting", "running"}
    /\ run[r].op \notin applied
    /\ applied' = applied \cup {run[r].op}
    /\ UNCHANGED <<journal, run, command, tombstone, calls, stop, worker, reported, faults>>

\* Exit code 0 only after the change; any error, timeout or kill before or after
\* it; a request may also never reach the server, or fail to spawn its process.
CommandExits(r) ==
    /\ \/ /\ command[r] = "running"
          /\ run[r].op \in applied
          /\ command' = [command EXCEPT ![r] = "ok"]
       \/ /\ command[r] \in {"starting", "running"}
          /\ command' = [command EXCEPT ![r] = "error"]
    /\ UNCHANGED <<journal, run, tombstone, applied, calls, stop, worker, reported, faults>>

-----------------------------------------------------------------------------
(* Verification, by the run and by the worker *)

\* A verifier that takes the absence of the change for success.
VerdictsTrustingExitCode(o) == {"passed", "failed", "inconclusive"}

\* What one polling round can end in.  Only the marker of the operation in the
\* cluster lets it pass; unhealthy or partial results, refused reads and foreign
\* markers make it fail; the deadline makes it inconclusive.
Verdicts(o) ==
    IF o \in applied THEN {"passed", "failed", "inconclusive"} ELSE {"failed", "inconclusive"}

\* The verification node: claim the row, or report what its state already says.
RunClaimVerification(r) ==
    LET o == run[r].op
        row == journal[o]
    IN  /\ run[r].pc = "verify"
        /\ \/ /\ ClaimVerification(o, r)
              /\ Goto(r, "verifying")
              /\ UNCHANGED reported
           \/ /\ GiveUpVerification(o)
              /\ Finish(r, "needs_review")
              /\ Report(o, "needs_review")
           \/ /\ ~Claimable(row, r)
              /\ ~NeedsReview(row)
              /\ Finish(r, row.verification_status)
              /\ Report(o, row.verification_status)
              /\ UNCHANGED journal
        /\ UNCHANGED <<command, tombstone, applied, calls, stop, worker, faults>>

RunPoll(r) ==
    /\ run[r].pc = "verifying"
    /\ \E d \in Verdicts(run[r].op) :
         run' = [run EXCEPT ![r].pc = "observed", ![r].verdict = d]
    /\ UNCHANGED <<journal, command, tombstone, applied, calls, stop, worker, reported, faults>>

\* record_verification; if the lease is gone it raises and the node reports
\* "inconclusive".
RunRecordVerification(r) ==
    LET o == run[r].op
    IN  /\ run[r].pc = "observed"
        /\ \/ /\ RecordVerification(o, r, run[r].verdict)
              /\ Finish(r, run[r].verdict)
              /\ Report(o, run[r].verdict)
           \/ /\ ~HoldsVerification(journal[o], r)
              /\ Finish(r, "inconclusive")
              /\ Report(o, "inconclusive")
              /\ UNCHANGED journal
        /\ UNCHANGED <<command, tombstone, applied, calls, stop, worker, faults>>

\* The CancelledError handler of verify.
RunAbandonVerification(r) ==
    /\ run[r].pc = "abandoning"
    /\ \/ AbandonVerification(run[r].op, r)
       \/ ~HoldsVerification(journal[run[r].op], r) /\ UNCHANGED journal
    /\ Goto(r, "stopped")
    /\ UNCHANGED <<command, tombstone, applied, calls, stop, worker, reported, faults>>

-----------------------------------------------------------------------------
(* The recovery worker *)

WorkerRecord ==
    [pc : {"down", "executions", "verifications", "select", "claim", "verifying",
           "observed", "publish"},
     batch : SUBSET Ops,
     op : Ops \cup {NoOne},
     owner : RecoveryOwners \cup {NoOne},
     verdict : VerificationStatus \cup {"none"}]

WorkerAt(pc) == [pc |-> pc, batch |-> {}, op |-> NoOne, owner |-> NoOne, verdict |-> "none"]

WorkerStart ==
    /\ worker.pc = "down"
    /\ worker' = WorkerAt("executions")
    /\ UNCHANGED <<journal, run, command, tombstone, applied, calls, stop, reported, faults>>

WorkerRecoverExecutions ==
    /\ worker.pc = "executions"
    /\ RecoverStaleExecutions
    /\ worker' = WorkerAt("verifications")
    /\ UNCHANGED <<run, command, tombstone, applied, calls, stop, reported, faults>>

WorkerRecoverVerifications ==
    /\ worker.pc = "verifications"
    /\ RecoverStaleVerifications
    /\ worker' = WorkerAt("select")
    /\ UNCHANGED <<run, command, tombstone, applied, calls, stop, reported, faults>>

\* A worker that only looks after rows nobody has tried to verify yet.
NeverTriedRows ==
    {o \in Ops : /\ journal[o].execution_status \in Ambiguous
                 /\ journal[o].verification_status = "pending"
                 /\ journal[o].idle > RecoveryGraceSeconds}

\* reconcile_once: the filter of the SELECT
ReconcilableRows ==
    {o \in Ops : /\ journal[o].execution_status \in Ambiguous
                 /\ journal[o].verification_status \in {"pending", "inconclusive"}
                 /\ journal[o].idle > RecoveryGraceSeconds}

\* An unordered SELECT ... LIMIT returns any rows that fit.
WorkerSelect ==
    /\ worker.pc = "select"
    /\ \E batch \in SUBSET ReconcilableRows :
         /\ Cardinality(batch) <= RecoveryBatchSize
         /\ \/ batch = ReconcilableRows
            \/ Cardinality(batch) = RecoveryBatchSize
         /\ worker' = [WorkerAt("claim") EXCEPT !.batch = batch]
    /\ UNCHANGED <<journal, run, command, tombstone, applied, calls, stop, reported, faults>>

\* A new uuid4: no row names it.
FreshOwners == RecoveryOwners \ {journal[o].verification_lease_owner : o \in Ops}

\* The next row of the batch.  The batch was read earlier: meanwhile a run may
\* have claimed or decided the row.
WorkerClaim(o) ==
    LET row == journal[o]
        Then(pc, v, d) ==
            worker' = [pc |-> pc, batch |-> worker.batch \ {o}, op |-> o,
                       owner |-> v, verdict |-> d]
    IN  /\ worker.pc = "claim"
        /\ o \in worker.batch
        /\ \/ \E v \in FreshOwners :
                 /\ ClaimVerification(o, v)
                 /\ Then("verifying", v, "none")
           \/ /\ GiveUpVerification(o)
              /\ Then("publish", NoOne, "needs_review")
           \/ /\ row.verification_status \in FinalVerdicts
              /\ Then("publish", NoOne, row.verification_status)
              /\ UNCHANGED journal
           \/ /\ VerificationLeaseActive(row)
              /\ ~NeedsReview(row)
              /\ Then("claim", NoOne, "none")
              /\ UNCHANGED journal
        /\ UNCHANGED <<run, command, tombstone, applied, calls, stop, reported, faults>>

WorkerPassDone ==
    /\ worker.pc = "claim"
    /\ worker.batch = {}
    /\ worker' = WorkerAt("executions")
    /\ UNCHANGED <<journal, run, command, tombstone, applied, calls, stop, reported, faults>>

WorkerPoll ==
    /\ worker.pc = "verifying"
    /\ \E d \in Verdicts(worker.op) :
         worker' = [worker EXCEPT !.pc = "observed", !.verdict = d]
    /\ UNCHANGED <<journal, run, command, tombstone, applied, calls, stop, reported, faults>>

\* record_verification; its exception is logged and the next row follows.
WorkerRecordVerification ==
    /\ worker.pc = "observed"
    /\ \/ /\ RecordVerification(worker.op, worker.owner, worker.verdict)
          /\ worker' = [worker EXCEPT !.pc =
                IF worker.verdict \in FinalVerdicts THEN "publish" ELSE "claim"]
       \/ /\ ~HoldsVerification(journal[worker.op], worker.owner)
          /\ worker' = [worker EXCEPT !.pc = "claim"]
          /\ UNCHANGED journal
    /\ UNCHANGED <<run, command, tombstone, applied, calls, stop, reported, faults>>

\* publish_recovered_mutation, whose failures are only logged.
WorkerPublish ==
    /\ worker.pc = "publish"
    /\ Report(worker.op, worker.verdict) \/ UNCHANGED reported
    /\ worker' = [worker EXCEPT !.pc = "claim"]
    /\ UNCHANGED <<journal, run, command, tombstone, applied, calls, stop, faults>>

-----------------------------------------------------------------------------
(* Stop *)

StopRecord ==
    [stage : {"none", "cancelling", "killing", "prepared", "executing", "done"},
     partial : BOOLEAN]

StopTo(r, stage) == stop' = [stop EXCEPT ![r].stage = stage]

StopPartialTo(r, stage) ==
    stop' = [stop EXCEPT ![r] = [stage |-> stage, partial |-> TRUE]]

\* Where a CancelledError takes the run.
AfterCancel(pc) ==
    CASE pc = "calling" -> "cancelling"
      [] pc \in {"verifying", "observed"} -> "abandoning"
      [] pc \in {"cancelling", "abandoning"} \cup RunEnded -> pc
      [] OTHER -> "stopped"

\* A client learns the run id from the "ready" event, sent once the task is
\* registered.
StopRequest(r) ==
    /\ stop[r].stage = "none"
    /\ Cardinality({s \in Runs : stop[s].stage # "none"}) < MaxStops
    /\ run[r].pc # "idle"
    /\ worker.pc # "down"
    /\ StopTo(r, "cancelling")
    /\ Goto(r, AfterCancel(run[r].pc))
    /\ UNCHANGED <<journal, command, tombstone, applied, calls, worker, reported, faults>>

\* cancel_workflow_task: the task ended, or five seconds went by.  Then the tool
\* calls of the conversation are marked; if that raises, Stop ends with HTTP 500.
StopAwaitTask(r) ==
    /\ stop[r].stage = "cancelling"
    /\ \/ run[r].pc \in RunEnded /\ StopTo(r, "killing")
       \/ run[r].pc \notin RunEnded /\ StopPartialTo(r, "killing")
       \/ StopPartialTo(r, "done")
    /\ UNCHANGED <<journal, run, command, tombstone, applied, calls, worker, reported, faults>>

\* MCPClient.cancel_run: it may fail, with or without having reached the server.
StopKillCommands(r) ==
    /\ stop[r].stage = "killing"
    /\ \/ /\ StopTo(r, "prepared") \/ StopPartialTo(r, "prepared")
          /\ tombstone' = tombstone \cup {r}
          /\ command' = [command EXCEPT ![r] = IF @ = "running" THEN "error" ELSE @]
       \/ /\ StopPartialTo(r, "prepared")
          /\ UNCHANGED <<tombstone, command>>
    /\ UNCHANGED <<journal, run, applied, calls, worker, reported, faults>>

\* converge_stopped_run; stop_run catches its exceptions.
StopConvergePrepared(r) ==
    /\ stop[r].stage = "prepared"
    /\ \/ CancelPreparedRows(r) /\ StopTo(r, "executing")
       \/ UNCHANGED journal /\ StopPartialTo(r, "done")
    /\ UNCHANGED <<run, command, tombstone, applied, calls, worker, reported, faults>>

StopConvergeExecuting(r) ==
    /\ stop[r].stage = "executing"
    /\ \/ MarkExecutingRowsUnknown(r) /\ StopTo(r, "done")
       \/ UNCHANGED journal /\ StopPartialTo(r, "done")
    /\ UNCHANGED <<run, command, tombstone, applied, calls, worker, reported, faults>>

-----------------------------------------------------------------------------
(* The engine process dies; the MCP server and the database live on. *)

EngineGone ==
    /\ faults < MaxFaults
    /\ worker.pc # "down"
    /\ faults' = faults + 1
    /\ worker' = WorkerAt("down")
    /\ run' = [r \in Runs |->
                 IF run[r].pc \in RunActive THEN [run[r] EXCEPT !.pc = "dead"] ELSE run[r]]
    /\ stop' = [r \in Runs |->
                  IF stop[r].stage \in {"none", "done"} THEN stop[r]
                  ELSE [stage |-> "done", partial |-> TRUE]]
    /\ UNCHANGED <<command, tombstone, applied, calls, reported>>

Crash == EngineGone /\ UNCHANGED journal

\* lifespan: MutationRecoveryWorker.stop cancels a verification in progress.
Shutdown ==
    /\ EngineGone
    /\ worker.pc \in {"verifying", "observed"}
    /\ \/ AbandonVerification(worker.op, worker.owner)
       \/ ~HoldsVerification(journal[worker.op], worker.owner) /\ UNCHANGED journal

ControlTick ==
    /\ Tick
    /\ UNCHANGED <<run, command, tombstone, applied, calls, stop, worker, reported, faults>>

-----------------------------------------------------------------------------

ControlInit ==
    /\ Init
    /\ run = [r \in Runs |-> IdleRun]
    /\ command = [r \in Runs |-> "none"]
    /\ tombstone = {}
    /\ applied = {}
    /\ calls = [o \in Ops |-> 0]
    /\ stop = [r \in Runs |-> [stage |-> "none", partial |-> FALSE]]
    /\ worker = WorkerAt("executions")
    /\ reported = [o \in Ops |-> {}]
    /\ faults = 0

RunStep(r) ==
    \/ PrepareLookup(r) \/ PrepareInsert(r) \/ PrepareReread(r)
    \/ RunMarkExecuting(r) \/ StartCall(r) \/ CallReturns(r) \/ TransportError(r)
    \/ RunRecordOutcome(r) \/ ExecuteRaises(r) \/ RunRecordCancelled(r)
    \/ RunClaimVerification(r) \/ RunPoll(r) \/ RunRecordVerification(r)
    \/ RunAbandonVerification(r)

CommandStep(r) == CommandRegisters(r) \/ CommandLands(r) \/ CommandExits(r)

StopStep(r) ==
    \/ StopRequest(r) \/ StopAwaitTask(r) \/ StopKillCommands(r)
    \/ StopConvergePrepared(r) \/ StopConvergeExecuting(r)

WorkerStep ==
    \/ WorkerStart \/ WorkerRecoverExecutions \/ WorkerRecoverVerifications
    \/ WorkerSelect \/ (\E o \in Ops : WorkerClaim(o)) \/ WorkerPassDone
    \/ WorkerPoll \/ WorkerRecordVerification \/ WorkerPublish

ControlNext ==
    \/ \E r \in Runs : RunStep(r) \/ CommandStep(r) \/ StopStep(r)
    \/ WorkerStep
    \/ Crash
    \/ Shutdown
    \/ ControlTick

ControlSpec == ControlInit /\ [][ControlNext]_vars

\* The event loop keeps scheduling the worker task, a reading of the cluster ends
\* by its timeout, an engine that died is restarted, and time passes.  Runs,
\* commands and users owe nothing.
FairControlSpec == ControlSpec /\ WF_vars(WorkerStep) /\ WF_vars(ControlTick)

-----------------------------------------------------------------------------
(* Properties *)

\* Type invariant of the composed system.
ControlTypeOK ==
    /\ TypeOK
    /\ run \in [Runs -> RunRecord]
    /\ command \in [Runs -> {"none", "starting", "running", "ok", "error"}]
    /\ tombstone \subseteq Runs
    /\ applied \subseteq Ops
    /\ calls \in [Ops -> Nat]
    /\ stop \in [Runs -> StopRecord]
    /\ worker \in WorkerRecord
    /\ reported \in [Ops -> SUBSET VerificationStatus]
    /\ faults \in 0..MaxFaults

\* However often an approved mutation is resumed, raced, stopped or recovered, at
\* most one external tool call is ever issued for it: per operation, and per
\* idempotency key when two operation ids stand for one intent
\* (prepare and mark_executing, called by execute).
AtMostOnce ==
    /\ \A o \in Ops : calls[o] <= 1
    /\ \A o, p \in Ops :
         /\ calls[o] > 0
         /\ calls[p] > 0
         /\ journal[o].idempotency_key = journal[p].idempotency_key
         => o = p

\* A row that Stop cancelled "before execution" was never executed, by no run, and
\* nothing of it is in the cluster (converge_stopped_run racing mark_executing).
CancelledNeverRan ==
    \A o \in Ops :
        journal[o].execution_status = "cancelled" => calls[o] = 0 /\ o \notin applied

\* A final verdict given to the user or to the model is the one the journal
\* holds from then on, and success is only ever claimed for a change that is in
\* the cluster (verification node, duplicate suppression and recovery worker).
ReportsHold ==
    \A o \in Ops : \A d \in reported[o] \cap FinalVerdicts :
        /\ journal[o].verification_status = d
        /\ d = "passed" => o \in applied

\* Once stop_run has answered "stopped" without partial reasons, its workflow is
\* over, no command of the run is or ever gets registered as running, and none of
\* its rows waits for an executor.
StoppedRunIsQuiet ==
    \A r \in Runs :
        stop[r] = [stage |-> "done", partial |-> FALSE] =>
            /\ run[r].pc \in RunEnded
            /\ command[r] # "running"
            /\ \A o \in Ops : journal[o].run_id = r =>
                 journal[o].execution_status \notin {"prepared", "executing"}

\* An execution, whoever was in charge of it and whatever became of that run,
\* ends in a final verdict or in a request for manual review
\* (MutationRecoveryWorker, verification_budget_exhausted).
EveryExecutionDecided ==
    \A o \in Ops :
        journal[o].execution_status = "executing" ~>
            journal[o].verification_status \in FinalVerdicts

\* A run that issued the external call and ended on its own has put its operation
\* through verification (README.md: verification is a runtime constraint;
\* _verification_node: "without asking the model to remember to verify").
CallerVerifies ==
    \A r \in Runs :
        run[r].pc = "finished" /\ command[r] # "none" =>
            run[r].verdict \in VerificationStatus

-----------------------------------------------------------------------------
(* The abstract specification *)

PhaseOf(row) ==
    CASE row.execution_status = "absent" -> "none"
      [] row.execution_status = "prepared" -> "admitted"
      [] row.execution_status = "cancelled" -> "withdrawn"
      [] row.execution_status = "executing" -> "launched"
      [] row.verification_status \in FinalVerdicts -> row.verification_status
      [] OTHER -> "settled"

Lifecycle == INSTANCE MutationLifecycle
    WITH phase <- [o \in Ops |-> PhaseOf(journal[o])], landed <- applied

\* Runs, leases, retries, Stop, crashes and recovery together implement the life
\* cycle of module MutationLifecycle.
ImplementsLifecycle == Lifecycle!LifecycleSpec
=============================================================================

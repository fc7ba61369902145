# Verification of the Skyflo engine and MCP server

TLA+ specifications of the parts of this repository that decide whether a change
to a cluster happens once, is verified, can be stopped, and is reported
correctly. All paths below are relative to the repository (`src/`).

## 1. The system and its parts

An operator talks to an agent in a browser (`ui/`). The engine (`engine/`, FastAPI
+ LangGraph, PostgreSQL, Redis) runs one workflow per message; its graph alternates
a model call, a gate that executes tool calls, and a verification node. Tools run in
the MCP server (`mcp/`), which starts `kubectl`, `helm` and others as subprocesses. A
Kubernetes controller (`kubernetes-controller/`) deploys all of this.

| Component | State | Operations | Interacts with |
|---|---|---|---|
| Mutation journal `engine/src/api/services/mutation_journal.py`, `models/mutation.py` | one row per controlled mutation: two status columns, attempt counters, an execution and a verification lease | prepare, mark_executing, record_execution, claim/record/abandon_verification, recover_stale_*, converge_stopped_run | called by executor, verifier, recovery worker, Stop |
| Tool executor `services/tool_executor.py` | none of its own; a task per run | execute: policy, prepare, mark, call, record | journal, MCP client |
| Mutation verifier and recovery worker `services/mutation_verifier.py` | the worker's loop | verify (poll the cluster), reconcile_once, start, stop | journal, MCP client, event stream, conversation store |
| Stop `endpoints/agent.py` (stop_run), `services/stop_service.py` | registry of workflow tasks, Redis stop flag | cancel the task, kill commands, converge the journal | executor, MCP server, journal |
| MCP command runner `mcp/utils/commands.py` | registry of processes per run, cancellation tombstones | run_command, cancel_run_processes | operating system; called by the tools and by Stop |
| Event stream `endpoints/agent.py` (publish_event, create_sse_event_generator), `ui/src/lib/services/sseService.ts` | Redis counter, bounded list and channel per run; last event id per client | publish, replay, follow, resume | workflow, recovery worker, browser |
| Agent graph `agent/graph.py`, `agent/state.py` | graph state, saved as a checkpoint after each node | entry, memory, model, gate, verification, final; pauses for approvals and resumption | executor, verifier, Stop, conversation store |
| Model node `agent/model_node.py`, `utils/sanitization.py` | buffers of one streamed turn | build the request, retry, stream, assemble tool calls | graph, provider |
| Conversation persistence `services/conversation_persistence.py` | `messages_json` of a conversation | append and update text, thinking and tool segments; cancel; project the journal | workflow, Stop, title task, recovery worker |
| Policy `services/mutation_policy.py`, `tool_capabilities.py`, `approvals.py` | none | classify a tool call: read, controlled mutation, refused | executor |
| Memory `memory/`, `endpoints/memory*.py` | stores, documents, versions | create, update, patch, remember, seed, delete, redact, archive, read, retrieve | administrators, the agent's tools, graph |
| Accounts `endpoints/auth.py`, `services/auth.py`, `endpoints/team.py` | users, refresh tokens | register, profile, roles, removal, invitation; issue, rotate, revoke | browser |
| Tools cache, rate limiter, titles, integrations, analytics, listings | caches and rows | request/response | – |
| MCP tools `mcp/tools/*` | none | build a command line | command runner |
| Controller `kubernetes-controller/` | Kubernetes objects | Reconcile | Kubernetes |

What is hard here: the same approved mutation can reach several runs (an approval sent twice, a
checkpoint resumed after a crash); a lease can expire under a call or a verification that is
still going on; Stop races the executor at every await; the engine can die between any two steps
while the command it started lives on; a run pauses for an approval in the middle of a batch and
a later run resumes its checkpoint; a row of messages, a memory document or a user is read,
changed in memory and written back by several requests at a time; the cluster goes on changing
while it is read to decide a verdict; a model answers in fragments that break off; the event
stream has several publishers, a bounded history and clients that come and go. `PROJECT.json`
lists these hazards at their source lines with the properties that cover each, or the reason why
none does.

What makes each component correct, in a sentence:

* journal – a row's statuses and leases always agree; it is executed at most once; its
  outcome and its verdict, once there, never change;
* executor, verifier, worker, Stop together – at most one external call per
  intent; every execution is eventually decided; success is only claimed for a change
  that is in the cluster; what Stop calls cancelled never ran;
* command runner – no process is left behind; a stopped run starts nothing more; a
  mutation is started once;
* event stream – a client at event *n* has seen everything up to *n*, once, or has
  been told that it has not (true of events that nothing overtakes on the channel and that
  the live loop can decode); the stream ends;
* graph – the model never goes on with an unverified change, whatever pauses intervene;
  nothing runs that the user did not approve; no combination of flags leaves a run
  without a next step; Stop ends a run;
* conversation store – no change is called completed that is not verified, although the
  last writer wins;
* verifier's rounds – a change passes only if all of it was seen, rolled out, in one round;
* model node – a request is one the provider accepts and, as long as the conversation fits
  the window, shows the current turn; a tool call is assembled from its own fragments;
* memory – a document and its history agree; an edit that names a SHA replaces what its
  editor saw (true of edits under the row lock, false of `agent_remember`);
* accounts – refreshing never costs a session.

## 2. Modules

```
MutationLifecycle                     what one approved change may go through
      ^ implemented by
MutationControl   --- EXTENDS --->    MutationJournal
VerifierRounds                        how readings of the cluster become a poll's verdict
CommandRunner                         subprocesses of the MCP server
EventStream                           the SSE stream of a run
AgentGraph        --- EXTENDS --->    Conversation
      runs, checkpoint, gate, Stop          the edits of messages_json
LlmContext                            the messages of a conversation and the requests made of them
ModelStream                           a streamed model turn
MemoryDocs                            memory stores, documents and versions
Accounts                              users, team members, refresh tokens
MCMemoryDocs      --- EXTENDS --->    MemoryDocs
MCServices        --- EXTENDS --->    LlmContext, ModelStream, MCMemoryDocs, Accounts,
                                      VerifierRounds, MutationJournal

<M>Proofs              -- EXTENDS ->  M, for MutationControl (and the journal), CommandRunner,
                                      EventStream, AgentGraph (and the conversation),
                                      VerifierRounds, MemoryDocs, Accounts
ModelNodeProofs        -- EXTENDS ->  LlmContext, ModelStream
MC*.tla, *.cfg                        instances for TLC
```

Definitions that follow a comment such as "A retry that ..." and stand directly before
the definition they vary (`MarkExecutingAgain` before `MarkExecuting`) are mutants:
plausible mistakes, used in no specification, each of which makes TLC refute the
property that `PROJECT.json` pairs it with.

### MutationJournal

`journal[o]` is the row of operation `o`, with the columns of `MutationOperation` that
any decision reads. Each operation of `MutationJournalService` is one action, because it
runs under `select_for_update` in one transaction or is one `UPDATE`; `prepare` is a
`SELECT` and an `INSERT` and is split by its caller; `converge_stopped_run` is two
`UPDATE`s and is two actions. Callers are unconstrained: any of them may call anything at
any time.

Time is relative: a lease field holds the seconds left, `age` the seconds since
`created_at`, `idle` those since `updated_at`. Each saturates where no comparison in the
code tells larger values apart (a lease at -1, `age` at the age budget, `idle` one past
the recovery grace), so the state space is finite without bounding time.

Left out: the `version` column (written, never read), the stored arguments, results and
reports (with their redaction and hashing), and the milliseconds between the `now`
read in `claim_verification` and the row lock.

### MutationLifecycle

The abstract specification. A change is admitted, then withdrawn for good or launched
once; it lands in the cluster at most once and only after its launch; its outcome
is settled as something to verify and is decided once, positively only if it landed.

### MutationControl

The callers. `run[r]` is the workflow of run `r` inside `ToolExecutor.execute` and the
verification node; a step is what it does between two awaits that matter. `command[r]` is
the MCP command it started (spawned, registered, landed, exited), reduced from
CommandRunner. `worker` is `MutationRecoveryWorker`: recover executions, recover
verifications, select a batch, then claim, poll, record and publish row by row, with a batch
that may be stale when it is used. `stop[r]` is one `stop_run` request: cancel the task and
wait for it, kill the commands, run the two `UPDATE`s; each part may fail, and
`partial` is what the user is told. `Crash` takes the engine with its runs, Stop requests
and worker; the database, the MCP server and its commands live on. `Shutdown` is the
orderly end, in which the worker abandons its verification.

`ExecuteRaises` is any other exception in `execute` (the database being away). A poll
(`Verdicts`) may fail or be inconclusive whatever the cluster looks like, and may pass only
if the marker of the operation is there, which is what the verifier's annotation and
release checks require.

Abstractions: a run carries one mutation; its verification plan is always supported (the
executor blocks the others before `prepare`); a journal statement that has been sent is not
torn by task cancellation; `uuid4` recovery owners are any owner that no row names; the
Redis stop flag belongs to AgentGraph. A cancellation tombstone of the MCP server stays for
good here, while `commands.py:117-125` forgets it after its time to live: a command that
takes longer than that to reach the server after a Stop is not refused any more.
CommandRunner has the tombstone with its lifetime, and `CancelledRunIsQuiet` is claimed while it
lives.

### VerifierRounds

`verify` polls: a *round* reads the objects of a manifest one by one, or the status of a
release, its manifest and its workloads, and adds up `passed`, `terminal` and
`partial_commit_detected`. `objects[t]` is what `k8s_get` would return for object `t`: its
operation annotation, whether its spec is the one of the change, and a status that may be
of an earlier generation. The two annotations of a manifest, the operation id and its HMAC, are
one mark. Between two reads the command lands on the next object, ends early
or leaves an object out, the controllers report, Helm moves the release from
pending to deployed or failed, and others edit, delete or release. Any read may fail, for
good or not; the adapter may raise. The cluster, the processes and the other users are
external.

`PassedIsTrue` is the ground for the `Verdicts` of MutationControl, where a poll may pass
only if the change is in the cluster. The code is deliberately not credited with more: the
content of an object without a spec (ConfigMap, Secret) is not compared; a pod has no
generation; the workloads of a release that somebody else changes between two reads are
compared with another manifest. Failing has no such property, because the code does not
have it: a deployment whose *old* status says `ProgressDeadlineExceeded` (looked at before
the generation), an object that still has the annotation of an earlier operation, and a
release whose earlier revision failed are recorded as failed while the command is landing.

### CommandRunner

`call[c]` is one `run_command` with its attempt, fallback and number of processes;
`proc` the processes; `registered`, `tombstone` and `canceller` the module globals
and `cancel_run_processes`. The critical sections of `_active_processes_lock` contain no
await, so each is part of the step that enters it. `RequestCancelled` delivers a
CancelledError at whichever await the task is in, including the shielded
`_terminate_process`. Error texts are reduced to whether `_classify_error` calls them
transient. Left out: children that leave the process group, reuse of process ids, and two
concurrent cancel requests for one run (they would share snapshot and tombstone).

### EventStream

`publish_event` is two steps, `INCR` and the `MULTI/EXEC` pipeline, because other tasks run
between them; a Redis failure loses the event. The generator subscribes, reads the list, reads
the counter, replays, resends an already seen terminal event, then follows the
channel. Clients lose connections, come back with their last event id, or
refresh the page and come back at zero. `Script` says what each publishing task emits; the
`remember` item is the recovery worker renewing the run-to-conversation mapping before it
publishes. `disordered` is history: the events that overtook another or were overtaken on their way
to the list. Keys expire only when no coroutine is between two Redis commands (the time to
live is many minutes). Bytes yielded are received, or lost with the connection. The
"ready" and heartbeat frames carry no event and are left out.

### Conversation and AgentGraph

Conversation holds what `ConversationPersistenceService` does to `messages_json`, as
functions on a list of messages with a card per tool call, and
`project_mutation_operations`, which lays the journal over the cards.

AgentGraph is one conversation. `run[r]` is a workflow run: the node it is in, its copy of
the graph state, the local variables of the gate and of the verification node. Nodes work on
the copy and `Commit` saves it as `checkpoint` when the node is over, so a cancelled or
crashed node leaves nothing; `Start` lays the input of a run over the checkpoint the last
run left. The gate goes through `ToolExecutor.execute` call by call: refusals, reads,
approval (`AskApproval`, `PauseForApproval`, `Deny`, `Approved`), `Prepare` with its
duplicates, `MarkExecuting`, `MutationReturns`. `VerifyNext` is one operation of the
verification node. `Chat` and `DecideApproval` start runs, at any time and for calls
already decided, too. `RequestStop` to `ConvergeStoppedRun` are `stop_run` in its order, each
with its failure. `Save` is a write of `messages_json`: it lands at once, or its read happened and
the write comes later (`LateSave`) and overwrites everything between. The writers are the
runs, the requests that start or stop them, the title task and a rename by the user (both
`ReadForTitle`: the whole row is saved for the sake of one column), and the recovery worker.

`worker` is that worker as the conversation sees it: it moves executions whose lease ran
out to "unknown" (`RecoverStaleExecution`), selects a batch, verifies it row by row (a run may
have decided the row since), and brings each verdict to the card of the call
(`PublishRecovered`), where it alone may leave "cancelled" again, or logs an exception.

The journal is used as MutationLifecycle describes it, one phase per operation; `control_races`
checks that journal, leases and worker implement those phases. `needs_review` is folded into
`failed`, which the graph treats alike. `Refuse` is any outcome of policy, registry and
parameter checks. One save at a time is late, so more than two overlapping writers are not
explored. A PATCH of a conversation may carry `messages_json` itself (`ConversationUpdate`); the
user interface never sends it, and what it would write is anything, so it is left out.
`ShownIsTrue` is about the timeline the conversation endpoint serves with the journal laid over
it, and about the messages as they are stored, which `analytics.py:71` and
`title_generator.py:82` read raw. A stop noticed inside the gate or the model call ends the run
as an error, because the node's own handler catches it; the checkpoint then still has
`pending_tools`, and the next chat message enters the gate first and executes a read the user
had stopped (a mutation finds its withdrawn row). No document says otherwise, so this is not
stated as a property; `OnlyApproved` is about mutations.

### LlmContext and ModelStream

LlmContext walks the same nodes with nothing but their messages: a gate may pause, fail or be
interrupted anywhere, so calls stay unanswered and answers follow late. `Prepared` is the
request: memory context before the last user message, window, system prompt, repair, reasoning
fields. Texts are left out; a message is its role, its calls, the call it answers, and its place
in the history. What the code filters out of a list is `Picked`: the elements at a set of positions,
in order, found by the rank of a position, without recursion, so that it can be proved about.
Three things the code does are visible and not stated as
properties: `window_messages` drops the *newest* message of an outgrown history
(`sanitization.py:238`, the place of the first user message is reserved twice); a list with any
system message, such as a verification summary, is sent without the system prompt; and
messages that the repair strips of their calls stay. `build_llm_messages` is not called.
A decision on an approval starts a run whether or not a call is pending, so a model turn
without a new user message is one of the behaviours. That call ids are unique (`NextId`) is an
assumption about the provider: the code takes them as they come, and the repair by ids
(`RequestWellFormed`) rests on it.

ModelStream is `run_model_turn`: retries with pauses, the stream, the buffers in which calls
are assembled from fragments that providers label in three ways, and the end of a stream that
breaks off. A call whose arguments are cut off goes on with an empty object, as the
code does; the repair of malformed JSON has that one outcome. `AssembledFromOwnFragments` is about
streams that have not broken off and would not object to that call. Usage, cost and time to
first token are left out.

### MemoryDocs

A request is a record with its stage and the row it read. `update_document` and `patch_document`
hold the row lock from the read to the commit; creating a version, which refers to the row,
waits for that lock. `agent_remember` reads without a lock and saves every column;
`delete_document` writes the version and the document in two statements without a transaction;
`update_store` and `archive_store` save a whole store. `RequestDies` is a request whose task or
engine dies. A content stands for its SHA. What a request sends is chosen where the request
first depends on it, which keeps the number of states down. Two properties are about edits that
name the SHA they saw. `LockedEditsReplaceWhatTheySaw` is about those under the row lock, and
holds. `EditsBuildOnWhatTheyReplace` is about all of them: `service.py:427` calls the check of
`agent_remember` optimistic concurrency and the tool says that it "Prevents silent overwrites
when two concurrent runs write the same path", but the check compares with a copy read without a
lock and the save writes that copy, so `memory_remember` refutes it. `agent_remember` may also
bring back a deleted document, and a crash between the two statements of a deletion leaves a
"delete" version on a live document: history and *current* content still agree, which is all
that `HistoryTellsContent` claims. Proposals, source references, ranking and formatting are left
out.

### Accounts

A request reads a row in one step and saves all of it in another, as `save()` does; tokens are
written by column, rotated in one transaction. `UserUpdate` can set a role and
`is_active`, so a profile change can, too. A token that expires is one nobody reads any more.
Two refreshes with one token may both succeed and leave two valid tokens; nothing documented
rules that out.

## 3. Model checking

| Run | Instance | Shows |
|---|---|---|
| `control_races` | one operation id, the same or other arguments, 2 runs, worker, 1 fault | at most one call; reports hold; the life cycle is implemented, across crashes and lease takeovers |
| `control_stop` | one mutation, 2 runs, worker, a Stop that can fail in each part | cancelled rows never ran; an unqualified "stopped" is true; the life cycle is implemented |
| `control_liveness` | one mutation, 1 run, worker, 1 fault, 1 Stop | every execution is decided |
| `command_runner` | a mutation and a read of one run, a call without a run | no orphan, quiet after cancel, bounded starts, exact registry; calls and cancel requests return even if processes ignore SIGTERM |
| `stream_replay` | a workflow with a later recovery, the title task with a U+2028 in its title, one client, a list of two events, two reconnects, one expiry | an event that nothing overtook and that can be decoded is never lost silently; no duplicates; streams end |
| `workflow` | one conversation, its recovery worker, three scenarios (below) | no model turn on an unverified change; only approved changes; "completed" only when nothing is open; no run is stuck; Stop ends a run; nothing is called completed that is not verified |
| `services` | one of LlmContext, ModelStream, MemoryDocs, Accounts, VerifierRounds, MutationJournal in each behaviour | requests are well formed and show the current turn of a conversation that fits the window; calls consist of their own fragments; documents and histories agree; edits under the lock replace what was seen; sessions survive rotation; a change passes only if it was seen rolled out; rows of the journal stay consistent and are executed once, their outcomes and verdicts stay, leases are not stolen, with callers unconstrained |
| `caller_verifies` | refuted | a call that outlives its lease ends as plain error text and skips the verification node |
| `stream_concurrent` | refuted | two publishers append out of id order and the smaller id is skipped |
| `stream_separator` | refuted | a payload with U+2028 is dropped by the live loop |
| `memory_remember` | refuted | two `agent_remember` that name the same SHA: the second overwrites the first unseen |
| `first_user` | refuted | registering in an empty deployment fails: `create` expects None where `get_by_email` raises |

The refuted properties are ones that comments, tests or the README of the repository state;
`findings` in `PROJECT.json` quotes them. `InOrderIsNotLost` and `StreamEnds` are claimed for
runs whose Redis keys do not expire before the run is over: after a silence of
`SSE_EVENT_TTL_SECONDS` ids start again at one, below the position of a connected client, and
both fail; `NoDuplicates` does not see it. `StreamEnds` also excepts a terminal event that was
overtaken or cannot be decoded, which the two refuted runs are about. A client that resumes at
zero while the first event is between `INCR` and the pipeline is sent a `stream.gap` although
nothing is missing; this costs a reload and is not stated as a property.

Bounds. Two runs are the smallest number that can race for one row; the worker is a third actor.
Lease lengths of one second have all three phases the code distinguishes (active, exactly
expired, stale: `>` in claim, `<` in recovery). An attempt budget of two has a first, a last and
a refused attempt; the control runs with a budget of one still have the last and the refused
one. `MaxFaults` and `MaxStops` of one put a fault or a Stop at every point of every behaviour.
The control runs share one operation id, so the recovery batch has at most one row: a LIMIT that
keeps leaving a row out is not exercised, and two ids with one idempotency key are covered by
the theorem `AtMostOneCall` but not by TLC. A list of two events with five published ones is
trimmed past every client position. In `stream_replay` the title of the second publisher may
overtake and be overtaken by any of the four events of the first. Two command attempts have a
retried and a final one; a tombstone lifetime of one lets a cancel be remembered and forgotten
while calls go on. Symmetry over runs and recovery owners is used in safety runs only.
`CHECK_DEADLOCK FALSE` is set for the stream: a run that is over and whose clients are gone
stops. It is also set for `workflow`, `services` and `first_user`, which stop when the bounds on
runs, turns, documents or tokens are used up.

The scenarios of `workflow` are values of the variable `bounds`. `TwoMutations`: batches of two
mutations in up to three runs one after the other, so that one of a batch is executed before the
other asks for approval and a second run resumes. `MixedBatch`: a mutation, a read and
`load_toolset`. `Races`: two runs at a time on one mutation, with two of: a Stop, a fault
(crash, failed node, failed Stop part, failed publication or late task), an overtaken save. The
worker is in all three. The hazards listed for the graph need at most two of them; all three
together take too long for a routine run. `NeverStuck` with the recursion limit says that a run
ends; a liveness property over this many states is out of reach.

The parts of `services` share no state, so a behaviour exercises one of them. LlmContext: a
window of 4 and histories of up to 5 messages, so that fitting, exactly filled and outgrown
histories occur, batches of two calls. ModelStream: three calls of two argument fragments, in
three labellings, two turns, three retries. MemoryDocs: two requests in flight, one store of any
kind (the public one, a conversation's, a user's), two documents, three versions, one redaction.
Accounts: two users, two requests, three tokens. VerifierRounds: two objects, in three pairs
that cover all kinds, one change by somebody else. MutationJournal: two operations, keys, runs
and verifiers. Requests, clients and operations are interchangeable.

Fairness. Control: the worker task is scheduled by the event loop, its reads of the cluster
end by their timeout, a dead engine is restarted by Kubernetes (`WF(WorkerStep)`), and time
passes (`WF(ControlTick)`). Runs, commands and users owe nothing: a hung call is
decided by the worker. Command runner: every runnable task and timer is served
and SIGKILL ends a process (`WF` of the steps of a call and of the death of its terminated
processes, and `WF(CancelStep(r))`); processes
need not end by themselves. Stream: the generator of a connected client is served;
publishers need not go on and clients need not come back.

## 4. Proofs

Every theorem is about a specification as it stands, for all values of the constants that the
`ASSUME`s of its module allow: any sets of operations, runs, calls, owners, requests, documents
or fragments, any lease lengths and budgets. None of them rests on the bounds of
section 3. Each proof has the same shape: an inductive invariant, checked by TLC on the
instances of the runs before it was proved, with one lemma or step per action.

| Invariant run with TLC | Theorem | Invariant run with TLC | Theorem |
|---|---|---|---|
| journal `TypeOK`, `RowsConsistent`, `ExecutedOnce` | `TypeCorrect`, `RowsStayConsistent`, `NeverExecutedTwice` | `VerdictIsFinal`, `OutcomeIsFinal`, `LeaseNotStolen` | `VerdictsStay`, `OutcomesStay`, `LeasesAreNotStolen` |
| `ControlTypeOK`, `AtMostOnce`, `CancelledNeverRan` | `ControlTypeCorrect`, `AtMostOneCall`, `CancelledRowsNeverRan` | `ReportsHold`, `StoppedRunIsQuiet`, `ImplementsLifecycle` | `ReportsAreKept`, `StopIsComplete`, `ProgramImplementsLifecycle` |
| runner `TypeOK`, `NoOrphan`, `RegistryExact` | `CommandTypeCorrect`, `NoProcessOrphaned`, `RegistryStaysExact` | `CancelledRunIsQuiet`, `StartsBounded` | `CancelledRunsStayQuiet`, `StartsStayBounded` |
| `OnlyApproved`, `VerifiedBeforeModel`, `CompletedIsSettled` | `ApprovedOnly`, `NoTurnBeforeVerification`, `CompletedLeavesNothing` | `StopEndsRun`, `GraphTypeOK`, `ShownIsTrue` | `StoppedRunsAreOver`, `GraphTypeCorrect`, `UserIsShownTheTruth` |
| stream `TypeOK`, `NoDuplicates`, `InOrderIsNotLost` | `StreamTypeCorrect`, `NoEventTwice`, `NothingInOrderIsLost` | `AssembledFromOwnFragments` | `CallsAreAssembled` |
| `HistoryTellsContent`, `LockedEditsReplaceWhatTheySaw` | `HistoryTellsTheRows`, `EditsAreExact` | `PassedIsTrue`, `RotationKeepsSession` | `VerifiedChangesWereSeen`, `SessionsSurviveRotation` |
| `RequestWellFormed` | `RequestsAreWellFormed` | `CurrentTurnInView` | `CurrentTurnStaysInView` |

### The journal (`MutationControlProofs`, first part)

`JournalInv` says of every row that it is typed, `RowConsistent` and `RowExecutedOnce`. The
parts need each other: that a verdict is not lost when an execution is recovered needs
that a row being executed has none (consistency); that a row is executed once needs
that a prepared row has attempt count zero. Each operation is proved once as a fact about one
row (`MarkedExecutingInv`, `ClaimedVerificationInv`, ...) and lifted by `UpdateOneRow` and
`UpdateSomeRows`. `NextIsRowNext` reduces a step of the journal to what may happen to a
single row; the three action properties then are statements about one row. `KeysUnique`, that no
two rows share an idempotency key, is what `AtMostOneCall` needs of the guard of `Insert` (the
UNIQUE constraint); it is inductive together with `JournalInv`.

### The program around it (`MutationControlProofs`, second part)

`ControlStepsJournal` shows that every step of the program is a step of the journal or leaves
it alone, so `JournalInv` and `KeysUnique` hold of the composed system. `ControlInv` adds
what the actors may rely on between two statements:

* `CallsMarked`: an operation has had no more calls than its row has attempts; a run
  between `mark_executing` and its call has the attempt to itself. With `RowExecutedOnce`
  this is `AtMostOnce`. Neither part is inductive without the other: a second run could
  otherwise be about to call for the attempt that the first has marked.
* `CommandsCalled`, `CancelledUnmarked`: what runs or landed comes from a call; a cancelled
  row was never marked. Together they give `CancelledNeverRan`.
* `PassedApplied`: a success that a verifier holds in its hands, or that is in the
  journal, is one the cluster showed; landing is never undone.
* `StopEstablished`: what each stage of a Stop without a difficulty has established for good
  (first that the task is over, then that its command is gone and the tombstone set, then
  that no row is prepared, then that none is executing), which no later step of anybody takes
  back: nobody else prepares or marks rows of that run. Its last stage is `StoppedRunIsQuiet`.

`ProgramImplementsLifecycle` is the refinement. Initial states map to initial states; `Insert`
is *Admit*; `MarkExecuting` is *Launch*; `CancelPreparedRows` is *Withdraw*, of several changes
at once; recording or recovering an execution and the second `UPDATE` of Stop are *Settle*;
recording a final verdict and giving verification up are *Decide*; a command landing is *Land*;
claims, abandoned and inconclusive verifications, recovered leases and the clock are stutters.
*Decide* may say "passed" only if the change landed, which is `PassedApplied`; *Land* needs a
launch and happens once, which is `CallsMarked` with `CommandsCalled`.

### The command runner (`CommandRunnerProofs`)

`CommandInv` has `CallCounts` (how many processes a call can have had at its stage: what a
retry, a fallback and a mutation may still start), `NoOrphan`, `RegistryExact` and `QuietRuns`,
the strengthening of `CancelledRunIsQuiet` to the time before the cancel request returns: a
process of a cancelled run that goes on is one of those the request found and is still
terminating. It needs the tombstone to be set before the registry is read, so that whatever
registers later is refused. The steps are sorted into kinds by what they do to processes and
registries (`Starts`, `Leaves`, `Registers`, `Interrupts`, `ProcessMoves`, `CancelMoves`;
`StepKinds` says there are no others), and each part of the invariant is proved once per kind.

### The event stream (`EventStreamProofs`)

There are two invariants, because the two properties need different things.

`StreamInv` holds for any publishers and any expiry of the list: an event has one entry, under
the id it got; what a page has received lies behind its position, and what the channel or a
replay may still bring it is sent on only when it lies ahead. Hence `NoDuplicates`, whoever
publishes.

`FollowInv` is about the events *in order*, which nothing overtook on the way to the list, among
any publishers, and holds until the keys expire in the middle of a run. An event in order is in
the list or older than all of it (`ChannelHolds`), and wherever it stands in the list, a replay
or a subscription, its neighbours of either side have ids on that side (`Ordered`), though the
others may be shuffled among themselves. So the position of a page, which follows the ids of
whatever it is sent, never moves past such an event before it was sent (`FollowerHolds`). What
lies ahead of a page is in the rest of its replay or in its subscription, unless its gap has
been noticed; a replay has no holes (`Whole`). The hard step is the end of a replay: between the
read of the list and the first message of the subscription nothing may fall, which is why the
code subscribes first. An event that two publishers made disordered can be lost, as
`stream_concurrent` shows, and so can one that the live loop cannot decode;
`NothingInOrderIsLost` says that neither costs a client any other event.

### The model's requests (`ModelNodeProofs`, first part)

`ContextInv` says what the nodes may leave in the history. Call ids count up from 1 and each is
given to one call (`IdsGiven`, `CallsApart`); a call is answered at most once (`AnswersApart`); one
that is pending has no answer yet (`PendingUnanswered`). `AnswersInOrder` says that between a call
and its answer there are only answers and what users said while the gate was waiting: the message
of a chat can fall into a batch, but no second batch begins before the first is answered or dropped,
which is what `PendingInOrder` and `NodeHolds` carry from a pause to the resumption.

`RequestsAreWellFormed` needs this history, because the repair compares ids and not places: an
answer is kept when *some* earlier message of the list carries its id as a valid one. The
argument runs along the five steps of `Prepared`. Memory, window and system prompt only leave
out messages and add ones of their own (`DrawnList`: no message of the history is there twice),
so in the repaired list a call still has one place and one answer. A call is valid if its answer
follows without a gap, and its only answer is that one; so whatever tool message is left belongs
to a call right before it, and what the repair takes away stands in no such gap (`Repairs`). The
reasoning fields are set on all assistant messages or found on none.

`CurrentTurnStaysInView` follows the last user message and everything behind it through the same
steps (`ShowsTurn`): memory goes in right before it, a list that fits the window is not cut, and
a system prompt moves all of it by one place. The repair keeps a user message, and it keeps an
answer whose call came after the last user message: `AnswersInOrder` leaves only answers between
the two, so the call is valid.

Nothing of this needs induction over the lists. `PickedFacts` describes a filtered list by the
increasing map of its positions to those it was taken from (`Lists`), got from ranks and the
library's theorems on cardinality, and the least and greatest positions that `SelectInSeq` and
`SelectLastInSeq` choose exist by the well-foundedness of the natural numbers (`LeastPosition`,
`GreatestPosition`).

### The model's stream (`ModelNodeProofs`, second part)

`AssemblyInv` says where the assembly stands in terms of what has arrived, counted from the
wire: the first `m` calls have started, the slot of each holds its name and exactly the argument
fragments that have arrived (`SlotsHold`), and the ids lead a later fragment to that slot
(`IdsHold`: by the index when the provider gives one per call, and by the last call when it
gives 0 for all, which works because then nothing arrives of an earlier call). A fragment is the
opening label (`LabelOpens`), one of the arguments (`ArgumentArrives`) or the closing label
(`LabelCloses`), and each has a lemma. Two things are assumptions about the provider, in
`MayCome`: calls start in order, which makes slot and number agree, and one that gives index 0
for all finishes a call before it starts the next, without which a fragment with no id could not
be assigned at all.

### The graph (`AgentGraphProofs`, first part)

`GraphInv` says of the checkpoint, and of the copy of the state in every run, what whoever reads
it may assume: that a state which has an operation to verify knows it (`StateHolds`); that a
state on its way to the model has none, and one that ends a run either waits for somebody, or
failed, or has nothing open (`NodeHolds`); that inside the gate the flag is raised for whatever
an earlier call of the batch did, and inside the verification node each operation to verify is
still in the queue or counted as unverified (`LocalsHold`). The last two are what carries the
requirement over a pause for approval in the middle of a batch and over a resumption, where the
gate rebuilds it from the operations in the state. That a decision in a state is one of the
user's survives because approvals only grow (`ApprovalsOnlyHelp`). `StopsHold` says that a Stop
which got past the task without giving up found it over.

### What the user is shown (`AgentGraphProofs`, second part)

`ChatInv`: neither the stored messages nor those of a save on its way show an operation as
completed that is not verified. A late save overwrites newer cards with older ones, but what it
writes was true when it was read and a verified operation stays verified (`HeldStays`). The
recovery worker may turn any card of an operation into "completed", a cancelled one too, and a
run may have decided the operation since the worker selected it; `WorkerInv` says that what it
publishes is nevertheless the verdict of the row, since a row that is decided stays decided and
the worker gets its verdict from it. The projection then hides every card whose operation the
journal knows better (`ShownStatus`). The projection and `_update_tool_segment_status` are
written with ordered IFs like the chains of `if` and `elif` they translate, where the arms of a
TLA+ CASE would overlap.

### The verifier's rounds (`VerifierRoundsProofs`)

`VerifierInv` makes a round a promise: as long as `passed` has not been taken back, every object
read so far was seen with the whole change rolled out (`RoundHolds`), and a release that is
deployed with its marker can only lose it with a change by somebody else (`ReleaseHolds`). What
was seen is history, so the cluster may go on changing (`ClusterKeepsRound`); the objects not
yet read owe nothing.

### Memory (`MemoryDocsProofs`)

A copy a request holds may be old. `MemoryInv` therefore does not say that copies agree with
rows but what each copy may become: whatever is written back comes with a version that says the
same (`RowTells`), made in the same transaction or, for a deletion, just before in its own
(`RequestHolds`). Only a request that holds the row lock knows that its copy is the row; this is
`EditsAreExact`, and the reason it cannot be had for `agent_remember`. The proof needs one
assumption on a model value, that `NoRequest` is not a request.

### Accounts (`AccountsProofs`)

`AccountInv` adds to `RotationKeepsSession` that tokens and the requests that carry one are
typed (`TokensTyped`: a token being refreshed exists) and that a token replaces one that exists
(`ReplacesOlder`): without it a token added later could be taken for the one replaced.
`RotatesInv` is the heart: a rotation revokes the token in hand and adds one of its session, so
that session keeps a live token even when the one in hand had been revoked by another refresh of
it, and a session other than this one keeps its own.

### Model-checked only

* Liveness (`EveryExecutionDecided`, `CallsReturn`, `CancelReturns`, `StreamEnds`) and
  `NeverStuck`, which is about ENABLED: outside the proof system.
* The refuted properties, which are false.

## 5. Not modelled, and the plan

Not modelled because it is plain request/response, I/O or text: titles, integrations,
analytics, listings, prompts, the model itself, the command lines built by the MCP
tools, Helm charts, most of the user interface. `mutation_policy`, `tool_capabilities` and
`approvals` classify a call by its name and arguments without state; each of their outcomes is a
choice in AgentGraph and MutationControl. The controller's
`Reconcile` never runs: `cmd/manager/main.go` registers no controller (line 59, "TODO: Register
controllers here"), though `kubernetes-controller/README.md:5` says that it manages the
components' lifecycle. Of modelled components these parts are left
out: `Message` rows and usage buffers of the conversation store, proposals of promotion in
memory, passwords and JWTs.

If the development goes on: the classification of calls as operators checked against a
reference definition, and `Reconcile` once the manager registers it.

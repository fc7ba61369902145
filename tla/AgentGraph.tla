----------------------------- MODULE AgentGraph -----------------------------
(***************************************************************************)
(* The agent of one conversation: the LangGraph workflow (WorkflowGraph)   *)
(* with its checkpoint, the gate that executes tool calls one by one and   *)
(* pauses for approvals, the verification node, the model turn, and around *)
(* them the endpoints that start runs (chat_stream, decide_approval) and   *)
(* stop them (stop_run), the stop flag, the chat projection that all of    *)
(* them rewrite, and crashes of the engine.                                *)
(*                                                                         *)
(* The nodes of a run work on their own copy of the graph state and save a *)
(* checkpoint when a node is over: what a cancelled or crashed node had    *)
(* done is not in it.  Several runs may be active on one conversation.     *)
(*                                                                         *)
(* The mutation journal is used as MutationLifecycle describes it, one     *)
(* phase per operation; that the journal, its leases and the recovery      *)
(* worker implement those phases is checked with module MutationControl.   *)
(***************************************************************************)
EXTENDS Conversation, FiniteSets

CONSTANTS
    Controlled,     \* calls of controlled mutations: approved, journaled, verified
    MetaCalls,      \* calls of load_toolset, which the gate handles itself
    Scenarios       \* the bounds under which the system is explored, a set of:

    \* calls         what the model emits
    \* batch         bound on the tool calls of one model turn
    \* runs, active  bounds on the runs, and on those active at a time
    \* steps         LLM_MAX_ITERATIONS, the recursion limit of the graph
    \* stops         bound on Stop requests
    \* faults        bound on crashes, failed nodes and failures of Redis
    \* lateSaves     bound on saves of messages_json that other saves overtake

ASSUME GraphConstants ==
    /\ Controlled \subseteq Calls
    /\ MetaCalls \cap Calls = {}
    /\ Runs \subseteq Nat \ {0}
    /\ \A s \in Scenarios :
          /\ s.calls \subseteq Calls \cup MetaCalls
          /\ {s.batch, s.runs, s.active, s.steps, s.stops, s.faults, s.lateSaves} \subseteq Nat

VARIABLES
    checkpoint,     \* the latest graph state LangGraph saved for the conversation
    run,            \* run[r]: a workflow run, its node and its copy of the state
    flags,          \* runs whose stop flag is set in Redis
    phase,          \* phase[c]: the journal's operation of call c
    owner,          \* owner[c]: the run that prepared it
    messages,       \* messages_json
    late,           \* a save whose read happened, or nothing
    stop,           \* stop[r]: where the Stop request for run r stands
    worker,         \* what the recovery worker has selected, and what it has to publish
    minted,         \* calls some model turn has emitted
    approved,       \* calls the user approved
    lateSaves,      \* saves that were overtaken so far
    faults,         \* crashes and failures so far
    bounds          \* the scenario of this behaviour

StepLimit == bounds.steps

chat == <<messages, late, lateSaves>>
vars == <<checkpoint, run, flags, phase, owner, messages, late, stop, worker,
          minted, approved, lateSaves, faults, bounds>>

-----------------------------------------------------------------------------
(* Graph state and runs *)

\* mutation_operations: "required" and "settled" stand for requires_verification.
OperationMeta == {"absent", "required", "settled"}

AgentState ==
    [pending_tools : Seq(Calls \cup MetaCalls),
     awaiting_approval : BOOLEAN,
     suppress_pending_event : BOOLEAN,
     approval_decisions : [Calls -> {"none", "yes", "no"}],
     mutation_operations : [Controlled -> OperationMeta],
     verification_required : BOOLEAN,
     verification_blocked : BOOLEAN,
     error : BOOLEAN]

NoDecisions == [c \in Calls |-> "none"]

FreshState ==
    [pending_tools |-> <<>>, awaiting_approval |-> FALSE,
     suppress_pending_event |-> FALSE, approval_decisions |-> NoDecisions,
     mutation_operations |-> [c \in Controlled |-> "absent"],
     verification_required |-> FALSE, verification_blocked |-> FALSE, error |-> FALSE]

Nodes == {"entry", "memory_prepare", "model", "gate", "verification", "final"}

\* Inside a node: the model's turn, the tool calls of the gate, the operations
\* of the verification node.
InNode == {"turn", "tool", "asking", "prepare", "mark", "calling", "verifying"}

Active == {"starting"} \cup Nodes \cup InNode

\* queue, meta, required and unverified are the local variables of the gate and
\* of the verification node.  A doomed run has a cancellation on its way.
RunRecord ==
    [phase : Active \cup {"idle", "done"},
     state : AgentState,
     queue : Seq(Calls \cup MetaCalls),
     meta : [Controlled -> OperationMeta],
     required : BOOLEAN,
     unverified : BOOLEAN,
     steps : 0..StepLimit,
     doomed : BOOLEAN]

IdleRun ==
    [phase |-> "idle", state |-> FreshState, queue |-> <<>>,
     meta |-> FreshState.mutation_operations, required |-> FALSE, unverified |-> FALSE,
     steps |-> 0, doomed |-> FALSE]

IsActive(r) == run[r].phase \in Active

\* A run waits while its own save of the messages is on its way.
Ready(r) == IsActive(r) /\ ~run[r].doomed /\ late.by # r

At(r, p) == run[r].phase = p /\ Ready(r)

\* Mutant: the limit lets one step too many through.
AtNodeOneMore(r, n) == At(r, n) /\ run[r].steps <= StepLimit

AtNode(r, n) == At(r, n) /\ run[r].steps < StepLimit

Goto(r, p) == run' = [run EXCEPT ![r].phase = p]

\* The end of a run leaves nothing of its local variables, and nobody reads its
\* stop flag any more.
Ended == [IdleRun EXCEPT !.phase = "done"]

End(r) ==
    /\ run' = [run EXCEPT ![r] = Ended]
    /\ flags' = flags \ {r}

\* A node is over: LangGraph saves its result and goes to the next node.
Commit(r, state, next) ==
    /\ checkpoint' = state
    /\ run' = [run EXCEPT ![r] =
                 [IdleRun EXCEPT !.phase = next, !.state = state, !.steps = run[r].steps + 1]]

-----------------------------------------------------------------------------
(* Saves of messages_json.  A save lands at once, or later: then every save in *)
(* between is overwritten.                                                     *)

NoSave == [by |-> 0, messages |-> <<>>]

\* A run also stands for the request that started it.
Title == -1
StopOf(r) == -2 - r
Worker == -2
Writers == Runs \cup {Title, Worker} \cup {StopOf(r) : r \in Runs}

Save(w, ms) ==
    \/ /\ messages' = ms
       /\ UNCHANGED <<late, lateSaves>>
    \/ /\ late = NoSave
       /\ lateSaves < bounds.lateSaves
       /\ ms # messages
       /\ late' = [by |-> w, messages |-> ms]
       /\ lateSaves' = lateSaves + 1
       /\ UNCHANGED messages

LateSave ==
    /\ late # NoSave
    /\ messages' = late.messages
    /\ late' = NoSave
    /\ UNCHANGED <<checkpoint, run, flags, phase, owner, stop, minted, approved,
                   lateSaves, faults, worker, bounds>>

\* set_title, and a user who renames the conversation (update_conversation), save the
\* whole row with the messages they read.
ReadForTitle ==
    /\ late = NoSave
    /\ lateSaves < bounds.lateSaves
    /\ late' = [by |-> Title, messages |-> messages]
    /\ lateSaves' = lateSaves + 1
    /\ UNCHANGED <<checkpoint, run, flags, phase, owner, messages, stop, minted, approved,
                   faults, worker, bounds>>

-----------------------------------------------------------------------------
(* Requests *)

\* The endpoints give every run a new id.
IsNext(r) ==
    /\ r <= bounds.runs
    /\ run[r].phase = "idle"
    /\ \A s \in Runs : s < r => run[s].phase # "idle"

Accept(r, input) ==
    /\ IsNext(r)
    /\ Cardinality({s \in Runs : IsActive(s)}) < bounds.active
    /\ run' = [run EXCEPT ![r] = [IdleRun EXCEPT !.phase = "starting", !.state = input]]
    /\ UNCHANGED <<checkpoint, flags, phase, owner, stop, minted, faults, worker, bounds>>

\* chat_stream
Chat(r) ==
    /\ Accept(r, FreshState)
    /\ \E ms \in AppendUserMessage(messages) : Save(r, ms)
    /\ UNCHANGED approved

\* decide_approval: the user may decide on any call that once asked, again too.
DecideApproval(r) ==
    \E c \in Controlled, d \in {"yes", "no"} :
        /\ \E i \in DOMAIN messages :
              messages[i].cards[c].status \in ToolStatus \ {"pending", "executing"}
        /\ Accept(r, [FreshState EXCEPT !.suppress_pending_event = TRUE,
                                        !.approval_decisions[c] = d])
        /\ IF d = "yes"
           THEN approved' = approved \cup {c} /\ UNCHANGED chat
           ELSE Save(r, UpdateToolSegmentStatus(messages, c, "denied", FALSE)) /\ UNCHANGED approved

\* run_agent_workflow clears the stop flag of its run; ainvoke lays the input over
\* the checkpoint of the conversation and saves the result.
Start(r) ==
    /\ At(r, "starting")
    /\ flags' = flags \ {r}
    /\ LET input == run[r].state
           state == IF input.suppress_pending_event
                    THEN [checkpoint EXCEPT
                            !.suppress_pending_event = TRUE,
                            !.approval_decisions = input.approval_decisions]
                    ELSE checkpoint
       IN  /\ checkpoint' = state
           /\ run' = [run EXCEPT ![r] =
                        [IdleRun EXCEPT !.phase = "entry", !.state = state]]
    /\ UNCHANGED <<phase, owner, stop, minted, approved, faults, chat, worker, bounds>>

-----------------------------------------------------------------------------
(* The graph *)

route_from_entry(s) ==
    IF s.pending_tools # <<>> THEN "gate"
    ELSE IF s.verification_required THEN "verification" ELSE "memory_prepare"

route_after_model(s) ==
    IF s.pending_tools # <<>> THEN "gate"
    ELSE IF s.verification_required THEN "verification" ELSE "final"

\* Mutant: a gate without a pause ends the run.
route_after_gate_ends(s) ==
    IF s.pending_tools = <<>> THEN "final"
    ELSE IF s.awaiting_approval THEN "final" ELSE "model"

route_after_gate(s) ==
    IF s.awaiting_approval \/ s.error THEN "final"
    ELSE IF s.verification_required THEN "verification" ELSE "model"

route_after_verification(s) ==
    IF s.verification_blocked \/ s.verification_required THEN "final" ELSE "model"

\* What a step of a run never touches, and what a step inside a node leaves too.
world == <<owner, stop, approved, faults, worker, bounds>>
graph == <<checkpoint, flags, minted>>

\* StopRequested leaves the graph: invoke clears the flag and reports "stopped".
StopRequested(r) ==
    /\ r \in flags
    /\ End(r)
    /\ UNCHANGED <<checkpoint, phase, minted, chat, world>>

Entry(r) ==
    /\ AtNode(r, "entry")
    /\ \/ StopRequested(r)
       \/ /\ r \notin flags
          /\ LET s == [run[r].state EXCEPT !.awaiting_approval = FALSE,
                                           !.verification_blocked = FALSE,
                                           !.error = FALSE]
             IN  Commit(r, s, route_from_entry(s))
          /\ UNCHANGED <<flags, phase, minted, chat, world>>

MemoryPrepare(r) ==
    /\ AtNode(r, "memory_prepare")
    /\ Commit(r, run[r].state, "model")
    /\ UNCHANGED <<flags, phase, minted, chat, world>>

\* check_stop of the model node; the second check, inside ModelNode, and the ones
\* during the stream end as a model error or are swallowed (ModelFails, ModelTurn).
ModelNode(r) ==
    /\ AtNode(r, "model")
    /\ \/ StopRequested(r)
       \/ /\ r \notin flags
          /\ Goto(r, "turn")
          /\ UNCHANGED <<phase, chat, graph, world>>

Batches ==
    {q \in SeqOf(bounds.calls \ minted, bounds.batch) : IsInjective(q)}

\* thinking.complete and generation.complete
WithGeneration(ms) == AppendTextSegment(AppendThinkingSegment(ms))

\* A model turn ends with text or thinking, and perhaps tool calls.
ModelTurn(r) ==
    /\ At(r, "turn")
    /\ \E q \in Batches :
          LET s == [run[r].state EXCEPT !.pending_tools = q]
          IN  /\ Commit(r, s, route_after_model(s))
              /\ minted' = minted \cup (Range(q) \cap Calls)
    /\ Save(r, WithGeneration(messages))
    /\ UNCHANGED <<flags, phase, world>>

\* The retries of the model call are used up, or a stop was noticed in the stream.
ModelFails(r) ==
    /\ At(r, "turn")
    /\ LET s == [run[r].state EXCEPT !.pending_tools = <<>>, !.error = TRUE]
       IN  Commit(r, s, route_after_model(s))
    /\ UNCHANGED <<flags, phase, minted, chat, world>>

-----------------------------------------------------------------------------
(* The gate: its tool calls in order, one of them at a time *)

\* Operations the graph knows it must verify, whichever pass of the gate ran them.
VerificationRequired(s) ==
    \E c \in Controlled : s.mutation_operations[c] = "required"

\* tools.pending: the last message gets a card for every call of the turn it does
\* not have one for.
WithPendingCards(ms, r, q) ==
    LET open == WithAssistant(ms)
        new == {c \in Calls : c \in Range(q) /\ Last(open).cards[c] = NoCard}
    IN  IF new = {} THEN ms
        ELSE [open EXCEPT ![Len(open)].cards =
                [c \in Calls |-> IF c \in new THEN [status |-> "pending", run_id |-> r]
                                 ELSE @[c]]]

\* Mutant: a new pass of the gate starts from what it executes itself.
ForgottenRequirement(s) == FALSE

\* The gate may be resuming a checkpoint whose first calls were executed before
\* the pause: it rebuilds the requirement from the operations.
RebuiltRequirement(s) == VerificationRequired(s)

Gate(r) ==
    /\ AtNode(r, "gate")
    /\ LET s == run[r].state
       IN  \/ \* check_stop raises inside the node's own try
              /\ r \in flags
              /\ LET failed == [s EXCEPT !.pending_tools = <<>>, !.error = TRUE,
                                         !.suppress_pending_event = FALSE]
                 IN  Commit(r, failed, route_after_gate(failed))
              /\ UNCHANGED <<flags, phase, minted, chat, world>>
           \/ /\ r \notin flags
              /\ run' = [run EXCEPT ![r].phase = "tool",
                                    ![r].queue = s.pending_tools,
                                    ![r].meta = s.mutation_operations,
                                    ![r].required = RebuiltRequirement(s)]
              /\ IF s.suppress_pending_event
                 THEN UNCHANGED chat
                 ELSE Save(r, WithPendingCards(messages, r, s.pending_tools))
              /\ UNCHANGED <<phase, graph, world>>

\* The first call of the queue has its answer.
Advance(r) ==
    run' = [run EXCEPT ![r].phase = "tool", ![r].queue = Tail(@)]

AdvanceWith(r, c, meta) ==
    run' = [run EXCEPT ![r].phase = "tool", ![r].queue = Tail(@),
                       ![r].meta[c] = meta,
                       ![r].required = @ \/ meta = "required"]

AtCall(r, p, c) == At(r, p) /\ run[r].queue # <<>> /\ Head(run[r].queue) = c

SetCard(r, c, status) == Save(r, UpdateToolSegmentStatus(messages, c, status, FALSE))

\* Mutant: a decision counts for whatever call is next.
DecisionOfAny(r, c) ==
    LET decisions == run[r].state.approval_decisions
    IN  IF \E d \in Calls : decisions[d] = "yes" THEN "yes" ELSE decisions[c]

DecisionOf(r, c) == run[r].state.approval_decisions[c]

\* _handle_load_toolset
LoadsToolset(r) ==
    /\ \E m \in MetaCalls : AtCall(r, "tool", m)
    /\ Advance(r)
    /\ UNCHANGED <<phase, chat, graph, world>>

\* Registry, integration, parameters or policy: the call is answered with the
\* reason.  A parameter error is not published, and the card stays as it was.
Refuse(r) ==
    \E c \in Calls :
        /\ AtCall(r, "tool", c)
        /\ Advance(r)
        /\ SetCard(r, c, "error") \/ UNCHANGED chat
        /\ UNCHANGED <<phase, graph, world>>

\* A tool that only reads goes straight to the MCP server.
ExecuteRead(r) ==
    \E c \in Calls \ Controlled :
        /\ AtCall(r, "tool", c)
        /\ Goto(r, "calling")
        /\ Save(r, UpsertToolSegment(messages, c, r, "executing"))
        /\ UNCHANGED <<phase, graph, world>>

ReadReturns(r) ==
    \E c \in Calls \ Controlled, status \in {"completed", "error"} :
        /\ AtCall(r, "calling", c)
        /\ Advance(r)
        /\ SetCard(r, c, status)
        /\ UNCHANGED <<phase, graph, world>>

AskApproval(r) ==
    \E c \in Controlled :
        /\ AtCall(r, "tool", c)
        /\ DecisionOf(r, c) = "none"
        /\ Goto(r, "asking")
        /\ Save(r, UpsertToolSegment(messages, c, r, "awaiting_approval"))
        /\ UNCHANGED <<phase, graph, world>>

\* ApprovalPending: the gate ends with the calls it has not executed.
PauseForApproval(r) ==
    /\ At(r, "asking")
    /\ LET s == [run[r].state EXCEPT !.pending_tools = run[r].queue,
                                     !.awaiting_approval = TRUE,
                                     !.suppress_pending_event = FALSE,
                                     !.mutation_operations = run[r].meta,
                                     !.verification_required = run[r].required,
                                     !.verification_blocked = FALSE]
       IN  Commit(r, s, route_after_gate(s))
    /\ UNCHANGED <<flags, phase, minted, chat, world>>

Deny(r) ==
    \E c \in Controlled :
        /\ AtCall(r, "tool", c)
        /\ DecisionOf(r, c) = "no"
        /\ Advance(r)
        /\ SetCard(r, c, "denied")
        /\ UNCHANGED <<phase, graph, world>>

Approved(r) ==
    \E c \in Controlled :
        /\ AtCall(r, "tool", c)
        /\ DecisionOf(r, c) = "yes"
        /\ Goto(r, "prepare")
        /\ SetCard(r, c, "approved")
        /\ UNCHANGED <<phase, graph, world>>

\* prepare: a new operation, or what becomes of a duplicate.  A failure of the
\* journal is an answer without an event.
Prepare(r) ==
    \E c \in Controlled :
        /\ AtCall(r, "prepare", c)
        /\ \/ /\ phase[c] = "none"
              /\ phase' = [phase EXCEPT ![c] = "admitted"]
              /\ owner' = [owner EXCEPT ![c] = r]
              /\ Goto(r, "mark")
           \/ /\ UNCHANGED <<phase, owner>>
              /\ \/ phase[c] = "admitted" /\ Goto(r, "mark")
                 \/ phase[c] = "settled" /\ AdvanceWith(r, c, "required")
                 \/ /\ phase[c] \in {"passed", "failed"}
                    /\ AdvanceWith(r, c, "settled")
                 \/ phase[c] \in {"launched", "withdrawn"} /\ Advance(r)
                 \/ phase[c] = "none" /\ Advance(r)
        /\ UNCHANGED <<chat, graph, stop, approved, faults, worker, bounds>>

\* mark_executing raises when another run was faster, or Stop.
MarkExecuting(r) ==
    \E c \in Controlled :
        /\ AtCall(r, "mark", c)
        /\ \/ /\ phase[c] = "admitted"
              /\ phase' = [phase EXCEPT ![c] = "launched"]
              /\ Goto(r, "calling")
              /\ Save(r, UpsertToolSegment(messages, c, r, "executing"))
           \/ /\ phase[c] # "admitted"
              /\ UNCHANGED phase
              /\ Advance(r)
              /\ SetCard(r, c, "error")
        /\ UNCHANGED <<graph, world>>

\* record_execution, or its exception when recovery or Stop moved the row first.
MutationReturns(r) ==
    \E c \in Controlled :
        /\ AtCall(r, "calling", c)
        /\ \/ /\ phase[c] = "launched"
              /\ phase' = [phase EXCEPT ![c] = "settled"]
              /\ AdvanceWith(r, c, "required")
              /\ UNCHANGED chat
           \/ /\ UNCHANGED phase
              /\ Advance(r)
              /\ SetCard(r, c, "error")
        /\ UNCHANGED <<graph, world>>

GateEnds(r) ==
    /\ At(r, "tool")
    /\ run[r].queue = <<>>
    /\ LET s == [run[r].state EXCEPT !.pending_tools = <<>>,
                                     !.awaiting_approval = FALSE,
                                     !.suppress_pending_event = FALSE,
                                     !.mutation_operations = run[r].meta,
                                     !.verification_required = run[r].required,
                                     !.verification_blocked = FALSE]
       IN  Commit(r, s, route_after_gate(s))
    /\ UNCHANGED <<flags, phase, minted, chat, world>>

-----------------------------------------------------------------------------
(* The verification node *)

StartVerification(r) ==
    /\ AtNode(r, "verification")
    /\ \/ StopRequested(r)
       \/ /\ r \notin flags
          /\ IF VerificationRequired(run[r].state)
             THEN /\ run' = [run EXCEPT ![r].phase = "verifying",
                                        ![r].meta = run[r].state.mutation_operations,
                                        ![r].queue = SetToSeq({c \in Controlled :
                                            run[r].state.mutation_operations[c] = "required"})]
                  /\ UNCHANGED <<phase, chat, graph, world>>
             ELSE LET s == [run[r].state EXCEPT !.verification_required = FALSE,
                                                !.verification_blocked = FALSE]
                  IN  /\ Commit(r, s, route_after_verification(s))
                      /\ UNCHANGED <<flags, phase, minted, chat, world>>

\* needs_review is treated like failed wherever the graph looks at it, and stands
\* with it here.
Verdicts == {"passed", "failed"}

\* verify returns the verdict the row has, reaches one, or is inconclusive: out of
\* rounds, without the lease, or on an exception.
VerifyNext(r) ==
    \E c \in Controlled, result \in Verdicts \cup {"inconclusive"} :
        /\ AtCall(r, "verifying", c)
        /\ \/ phase[c] = result /\ UNCHANGED phase
           \/ phase[c] = "settled" /\ result \in Verdicts
              /\ phase' = [phase EXCEPT ![c] = result]
           \/ result = "inconclusive" /\ UNCHANGED phase
        /\ run' = [run EXCEPT ![r].queue = Tail(@),
                              ![r].meta[c] = IF result = "inconclusive" THEN @ ELSE "settled",
                              ![r].unverified = @ \/ result # "passed"]
        /\ SetCard(r, c, IF result = "passed" THEN "completed" ELSE "error")
        /\ UNCHANGED <<graph, world>>

VerificationEnds(r) ==
    /\ At(r, "verifying")
    /\ run[r].queue = <<>>
    /\ LET verified == [run[r].state EXCEPT !.mutation_operations = run[r].meta]
           s == IF run[r].unverified
                THEN [verified EXCEPT
                        !.verification_required = VerificationRequired(verified),
                        !.verification_blocked = TRUE,
                        !.error = TRUE]
                ELSE [verified EXCEPT
                        !.verification_required = FALSE,
                        !.verification_blocked = FALSE,
                        !.error = FALSE]
       IN  Commit(r, s, route_after_verification(s))
    /\ UNCHANGED <<flags, phase, minted, chat, world>>

-----------------------------------------------------------------------------
(* The end of a run *)

\* run_agent_workflow reports what the final state says, in this order.
StatusOf(s) ==
    IF s.awaiting_approval THEN "awaiting_approval"
    ELSE IF s.error THEN "error" ELSE "completed"

Final(r) ==
    /\ AtNode(r, "final")
    /\ End(r)
    /\ UNCHANGED <<checkpoint, phase, minted, chat, world>>

\* Mutant: the limit is looked for one step after the nodes refuse.
RecursionLimitLate(r) ==
    /\ \E n \in Nodes : At(r, n)
    /\ run[r].steps > StepLimit
    /\ End(r)
    /\ UNCHANGED <<checkpoint, phase, minted, chat, world>>

\* GraphRecursionError
RecursionLimit(r) ==
    /\ \E n \in Nodes : At(r, n)
    /\ run[r].steps = StepLimit
    /\ End(r)
    /\ UNCHANGED <<checkpoint, phase, minted, chat, world>>

\* Any other exception of a node or of the checkpointer: what the node did is lost.
NodeFails(r) ==
    /\ faults < bounds.faults
    /\ Ready(r)
    /\ faults' = faults + 1
    /\ End(r)
    /\ UNCHANGED <<checkpoint, phase, owner, chat, stop, minted, approved, worker, bounds>>

\* The cancellation reaches the task: a call in flight is recorded as unknown, a
\* save in flight is dropped (or has landed before).
Cancelled(r) ==
    /\ IsActive(r)
    /\ run[r].doomed
    /\ End(r)
    /\ late' = IF late.by = r THEN NoSave ELSE late
    /\ \/ UNCHANGED phase
       \/ \E c \in Controlled :
             /\ run[r].phase = "calling"
             /\ Head(run[r].queue) = c
             /\ phase[c] = "launched"
             /\ phase' = [phase EXCEPT ![c] = "settled"]
    /\ UNCHANGED <<checkpoint, minted, messages, lateSaves, world>>

-----------------------------------------------------------------------------
(* stop_run, in the order it takes *)

StopStages == {"none", "cancelling", "waiting", "cards", "journal", "done"}

StopTo(r, stage) == stop' = [stop EXCEPT ![r].stage = stage]

StopPartialTo(r, stage) == stop' = [stop EXCEPT ![r].stage = stage, ![r].partial = TRUE]

\* Mutant: the task registers itself once it runs.
RegisteredLate(r) == IsActive(r) /\ run[r].phase # "starting"

\* A task is in the registry before the client learns the id of its run.
Registered(r) == IsActive(r)

\* request_stop, which may fail
RequestStop(r) ==
    /\ run[r].phase # "idle"
    /\ stop[r].stage = "none"
    /\ Cardinality({s \in Runs : stop[s].stage # "none"}) < bounds.stops
    /\ \/ /\ flags' = IF IsActive(r) THEN flags \cup {r} ELSE flags
          /\ StopTo(r, "cancelling")
          /\ UNCHANGED faults
       \/ /\ faults < bounds.faults
          /\ faults' = faults + 1
          /\ StopPartialTo(r, "cancelling")
          /\ UNCHANGED flags
    /\ UNCHANGED <<checkpoint, run, phase, owner, chat, minted, approved, worker, bounds>>

\* cancel_workflow_task
CancelWorkflowTask(r) ==
    /\ stop[r].stage = "cancelling"
    /\ IF Registered(r)
       THEN run' = [run EXCEPT ![r].doomed = TRUE] /\ StopTo(r, "waiting")
       ELSE StopTo(r, "cards") /\ UNCHANGED run
    /\ UNCHANGED <<checkpoint, flags, phase, owner, chat, minted, approved, faults, worker, bounds>>

\* The task is done, or five seconds went by.
TaskCancelled(r) ==
    /\ stop[r].stage = "waiting"
    /\ \/ ~IsActive(r) /\ StopTo(r, "cards") /\ UNCHANGED faults
       \/ /\ IsActive(r)
          /\ faults < bounds.faults
          /\ faults' = faults + 1
          /\ StopPartialTo(r, "cards")
    /\ UNCHANGED <<checkpoint, run, flags, phase, owner, chat, minted, approved, worker, bounds>>

\* cancel_active_tool_segments; the calls it returns are published as cancelled.
CancelActiveTools(r) ==
    /\ stop[r].stage = "cards"
    /\ Save(StopOf(r), CancelActiveToolSegments(messages, r))
    /\ StopTo(r, "journal")
    /\ UNCHANGED <<checkpoint, run, flags, phase, owner, minted, approved, faults, worker, bounds>>

\* converge_stopped_run, for the rows that name the run
ConvergeStoppedRun(r) ==
    /\ stop[r].stage = "journal"
    /\ late.by # StopOf(r)
    /\ phase' = [c \in Controlled |->
                    IF owner[c] # r THEN phase[c]
                    ELSE IF phase[c] = "admitted" THEN "withdrawn"
                    ELSE IF phase[c] = "launched" THEN "settled" ELSE phase[c]]
    /\ StopTo(r, "done")
    /\ UNCHANGED <<checkpoint, run, flags, owner, chat, minted, approved, faults, worker, bounds>>

-----------------------------------------------------------------------------
(* The surroundings *)

IdleWorker == [batch |-> {}, found |-> {}]

\* The worker, which waits for its own saves too, is between two passes.
BetweenPasses == worker = IdleWorker /\ late.by # Worker

\* MutationRecoveryWorker, start and reconcile_once: a lease that ran out.
RecoverStaleExecution ==
    \E c \in Controlled :
        /\ BetweenPasses
        /\ phase[c] = "launched"
        /\ phase' = [phase EXCEPT ![c] = "settled"]
        /\ UNCHANGED <<checkpoint, run, flags, chat, minted, world>>

\* reconcile_once: the SELECT, of operations whose updated_at is old enough.
SelectBatch ==
    /\ BetweenPasses
    /\ \E B \in SUBSET {c \in Controlled : phase[c] = "settled"} :
          worker' = [worker EXCEPT !.batch = B]
    /\ UNCHANGED <<checkpoint, run, flags, phase, owner, chat, stop, minted, approved, faults,
                   bounds>>

\* verify for the next operation of the batch, which a run may have decided since: it
\* returns the verdict the row has, reaches one, or comes back without.
VerifySelected ==
    \E c \in Controlled, result \in Verdicts \cup {"inconclusive"} :
        /\ c \in worker.batch
        /\ worker.found = {}
        /\ late.by # Worker
        /\ \/ phase[c] = result /\ UNCHANGED phase
           \/ phase[c] = "settled" /\ result \in Verdicts
              /\ phase' = [phase EXCEPT ![c] = result]
           \/ result = "inconclusive" /\ UNCHANGED phase
        /\ worker' = [batch |-> worker.batch \ {c},
                      found |-> IF result \in Verdicts THEN {<<c, result>>} ELSE {}]
        /\ UNCHANGED <<checkpoint, run, flags, owner, chat, stop, minted, approved, faults,
                       bounds>>

\* Mutant: whatever verification ends with, the tool has completed.
RecoveredStatusAnyway(result) == "completed"

RecoveredStatus(result) == IF result = "passed" THEN "completed" ELSE "error"

\* publish_recovered_mutation: the card, which may leave "cancelled" here; or the
\* exception it logs.
PublishRecovered ==
    \E f \in worker.found :
        /\ \/ /\ Save(Worker, UpdateToolSegmentStatus(messages, f[1], RecoveredStatus(f[2]), TRUE))
              /\ UNCHANGED faults
           \/ /\ faults < bounds.faults
              /\ faults' = faults + 1
              /\ UNCHANGED chat
        /\ worker' = [worker EXCEPT !.found = {}]
        /\ UNCHANGED <<checkpoint, run, flags, phase, owner, stop, minted, approved, bounds>>

WorkerStep == RecoverStaleExecution \/ SelectBatch \/ VerifySelected \/ PublishRecovered

\* The engine dies: tasks, requests and saves on their way are gone.
Crash ==
    /\ faults < bounds.faults
    /\ faults' = faults + 1
    /\ run' = [r \in Runs |-> IF IsActive(r) THEN Ended ELSE run[r]]
    /\ stop' = [r \in Runs |->
                  IF stop[r].stage \in {"none", "done"} THEN stop[r]
                  ELSE [stage |-> "done", partial |-> TRUE]]
    /\ flags' = {}
    /\ late' = NoSave
    /\ worker' = IdleWorker
    /\ UNCHANGED <<checkpoint, phase, owner, messages, minted, approved, lateSaves, bounds>>

-----------------------------------------------------------------------------

Init ==
    /\ checkpoint = FreshState
    /\ run = [r \in Runs |-> IdleRun]
    /\ flags = {}
    /\ phase = [c \in Controlled |-> "none"]
    /\ owner = [c \in Controlled |-> NoRun]
    /\ messages = <<>>
    /\ late = NoSave
    /\ stop = [r \in Runs |-> [stage |-> "none", partial |-> FALSE]]
    /\ worker = IdleWorker
    /\ minted = {}
    /\ approved = {}
    /\ lateSaves = 0
    /\ faults = 0
    /\ bounds \in Scenarios

RunStep(r) ==
    \/ Start(r) \/ Entry(r) \/ MemoryPrepare(r) \/ ModelNode(r) \/ ModelTurn(r)
    \/ ModelFails(r) \/ Gate(r) \/ LoadsToolset(r) \/ Refuse(r) \/ ExecuteRead(r)
    \/ ReadReturns(r) \/ AskApproval(r) \/ PauseForApproval(r) \/ Deny(r) \/ Approved(r)
    \/ Prepare(r) \/ MarkExecuting(r) \/ MutationReturns(r) \/ GateEnds(r)
    \/ StartVerification(r) \/ VerifyNext(r) \/ VerificationEnds(r)
    \/ Final(r) \/ RecursionLimit(r) \/ Cancelled(r)

StopStep(r) ==
    \/ CancelWorkflowTask(r) \/ TaskCancelled(r) \/ CancelActiveTools(r)
    \/ ConvergeStoppedRun(r)

Next ==
    \/ \E r \in Runs : Chat(r) \/ DecideApproval(r) \/ RequestStop(r) \/ NodeFails(r)
    \/ \E r \in Runs : RunStep(r) \/ StopStep(r)
    \/ LateSave
    \/ ReadForTitle
    \/ WorkerStep
    \/ Crash

Spec == Init /\ [][Next]_vars

-----------------------------------------------------------------------------
(* Properties *)

\* Type invariant.
GraphTypeOK ==
    /\ checkpoint \in AgentState
    /\ run \in [Runs -> RunRecord]
    /\ flags \subseteq Runs
    /\ phase \in [Controlled -> {"none", "admitted", "launched", "settled", "withdrawn"}
                                    \cup Verdicts]
    /\ owner \in [Controlled -> Runs \cup {NoRun}]
    /\ messages \in Seq(Message)
    /\ late.by \in Writers \cup {NoSave.by}
    /\ late.messages \in Seq(Message)
    /\ stop \in [Runs -> [stage : StopStages, partial : BOOLEAN]]
    /\ worker \in [batch : SUBSET Controlled, found : SUBSET (Controlled \X Verdicts)]
    /\ minted \subseteq Calls
    /\ approved \subseteq Controlled
    /\ lateSaves \in 0..bounds.lateSaves
    /\ faults \in 0..bounds.faults
    /\ bounds \in Scenarios

\* The model is not asked to go on while the run knows of an executed mutation
\* nobody has verified, however many approval pauses, crashes and resumed
\* checkpoints lie between the execution and the turn (_gate_node, "an earlier
\* executed mutation can skip verification").
VerifiedBeforeModel ==
    \A r \in Runs : run[r].phase \in {"model", "turn"} =>
        ~VerificationRequired(run[r].state)

\* Nothing is executed that the user did not approve: not by resuming, not by a
\* decision about another call, not by an old checkpoint (execute, decide_approval).
OnlyApproved ==
    \A c \in Controlled : phase[c] # "none" => c \in approved

\* After Stop has answered "stopped" the run is over, whatever its node was doing
\* and although a starting run clears its own stop flag (stop_run,
\* run_agent_workflow).
StopEndsRun ==
    \A r \in Runs : stop[r] = [stage |-> "done", partial |-> FALSE] => ~IsActive(r)

\* The rows of the journal the projection may find for an operation in its phase.
RowsOf(c) ==
    [execution_status : {e \in {"prepared", "executing", "reported_success", "unknown",
                                "cancelled"} :
          CASE phase[c] = "admitted" -> e = "prepared"
            [] phase[c] = "launched" -> e = "executing"
            [] phase[c] = "withdrawn" -> e = "cancelled"
            [] OTHER -> e \in {"reported_success", "unknown"}},
     verification_status : IF phase[c] \in Verdicts THEN {phase[c]} ELSE {"pending"}]

\* A mutation is only called completed when its change is verified: not in the stored
\* messages, which runs, decisions, Stop, the recovery worker and renames rewrite from
\* copies that may be old and which the title generator and the analytics read as
\* they are, nor in what the timeline makes of them with the rows of the journal
\* (update_tool_segment_status, project_mutation_operations).
ShownIsTrue ==
    \A c \in Controlled : \A row \in RowsOf(c) :
        LET rows == IF phase[c] = "none" THEN <<>> ELSE [d \in {c} |-> row]
            shown == ProjectMutationOperations(messages, rows)
        IN  \A i \in DOMAIN messages :
              "completed" \in {messages[i].cards[c].status, shown[i].cards[c].status} =>
                 phase[c] = "passed"

\* A run is only reported as "completed" when it leaves no call waiting for an
\* answer and no operation to verify (run_agent_workflow, result of the graph).
CompletedIsSettled ==
    \A r \in Runs :
        LET s == run[r].state
        IN  run[r].phase = "final" /\ StatusOf(s) = "completed" =>
               /\ s.pending_tools = <<>>
               /\ ~VerificationRequired(s)

\* A run is never stuck: whatever node, approval, stop or failure it met, it has a
\* next step, unless its own save of the messages is on its way.  With the bound on
\* its steps it therefore ends (routes of the graph, LLM_MAX_ITERATIONS).
NeverStuck ==
    \A r \in Runs : IsActive(r) =>
        \/ late.by = r
        \/ run[r].doomed
        \/ ENABLED RunStep(r)

=============================================================================

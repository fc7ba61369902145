-------------------------- MODULE AgentGraphProofs --------------------------
(***************************************************************************)
(* Proofs about the agent of a conversation, for every set of calls and    *)
(* runs, and for every bound on turns, steps, stops and failures: about    *)
(* its nodes and checkpoints first, then about the messages it shows.      *)
(***************************************************************************)
EXTENDS AgentGraph, FiniteSetTheorems, TLAPS

-----------------------------------------------------------------------------
(* The inductive invariant.  A is the set of the calls the user approved, n *)
(* the bound on the steps of a run.                                        *)

\* The operations to verify, by what a graph state or the gate knows of them.
Required(meta) == {c \in Controlled : meta[c] = "required"}

\* A graph state, in a checkpoint or in the memory of a run, knows that it has
\* something to verify and holds no decision the user did not make.
StateHolds(s, A) ==
    /\ s \in AgentState
    /\ IsFiniteSet(Required(s.mutation_operations))
    /\ VerificationRequired(s) => s.verification_required
    /\ \A c \in Controlled : s.approval_decisions[c] = "yes" => c \in A

InGate == {"tool", "asking", "prepare", "mark", "calling"}

\* What a run may rely on when a node is next.
NodeHolds(next, s) ==
    /\ next \in {"memory_prepare", "model", "turn"} => ~VerificationRequired(s)
    /\ next = "final" =>
          \/ s.awaiting_approval
          \/ s.error
          \/ s.pending_tools = <<>> /\ ~VerificationRequired(s)

\* What it may rely on inside the gate and the verification node.
LocalsHold(x, A, n) ==
    /\ x.phase \in InNode => x.steps < n
    /\ x.phase \in InGate \cup {"verifying"} => IsFiniteSet(Required(x.meta))
    /\ x.phase \in InGate =>
          ((\E c \in Controlled : x.meta[c] = "required") => x.required)
    /\ x.phase = "prepare" => x.queue # <<>> /\ Head(x.queue) \in A
    /\ x.phase = "verifying" =>
          \A c \in Controlled : x.meta[c] = "required" => x.unverified \/ c \in Range(x.queue)

RecordHolds(x, A, n) ==
    StateHolds(x.state, A) /\ NodeHolds(x.phase, x.state) /\ LocalsHold(x, A, n)

RunsHold ==
    /\ run \in [Runs -> RunRecord]
    /\ \A r \in Runs : RecordHolds(run[r], approved, StepLimit)

ChatTyped ==
    /\ late.by \in Writers \cup {NoSave.by}
    /\ lateSaves \in 0..bounds.lateSaves

PhaseTyped ==
    phase \in [Controlled -> {"none", "admitted", "launched", "settled", "withdrawn"}
                                 \cup Verdicts]

\* With ChatTyped and PhaseTyped, GraphTypeOK without the messages.
SharedTyped ==
    /\ flags \subseteq Runs
    /\ owner \in [Controlled -> Runs \cup {NoRun}]
    /\ minted \subseteq Calls
    /\ approved \subseteq Controlled
    /\ faults \in 0..bounds.faults
    /\ bounds \in Scenarios

\* Stop begins only for a run that began; a stop that got past the task without
\* giving up on it found it ended.
StopsHold ==
    /\ stop \in [Runs -> [stage : StopStages, partial : BOOLEAN]]
    /\ \A r \in Runs : stop[r].stage # "none" => run[r].phase # "idle"
    /\ \A r \in Runs :
          stop[r].stage \in {"cards", "journal", "done"} /\ ~stop[r].partial => ~IsActive(r)

GraphInv ==
    /\ StateHolds(checkpoint, approved)
    /\ RunsHold
    /\ ChatTyped
    /\ PhaseTyped
    /\ SharedTyped
    /\ StopsHold
    /\ OnlyApproved

-----------------------------------------------------------------------------
(* Steps of one run *)

\* Run r moves to a record that holds.
Moved(r) ==
    \E x \in RunRecord :
        /\ RecordHolds(x, approved, StepLimit)
        /\ x.phase # "idle"
        /\ run' = [run EXCEPT ![r] = x]

\* What holds of a record and a state goes on to hold when more is approved.
LEMMA ApprovalsOnlyHelp ==
    ASSUME NEW A, NEW B, A \subseteq B, NEW n
    PROVE  /\ \A s : StateHolds(s, A) => StateHolds(s, B)
           /\ \A x : RecordHolds(x, A, n) => RecordHolds(x, B, n)
BY DEF StateHolds, RecordHolds, LocalsHold

\* The bounds of a scenario are numbers.
LEMMA BoundsAreNumbers ==
    ASSUME bounds \in Scenarios
    PROVE  /\ StepLimit \in Nat
           /\ bounds.lateSaves \in Nat
           /\ bounds.faults \in Nat
<1>1. {bounds.batch, bounds.runs, bounds.active, bounds.steps, bounds.stops, bounds.faults,
       bounds.lateSaves} \subseteq Nat
  BY GraphConstants
<1> QED  BY <1>1 DEF StepLimit

\* The state a conversation starts with, and a run without a task, hold.
LEMMA FreshHolds ==
    ASSUME NEW A, NEW n \in Nat
    PROVE  /\ StateHolds(FreshState, A)
           /\ ~VerificationRequired(FreshState)
           /\ FreshState.pending_tools = <<>>
           /\ FreshState.mutation_operations \in [Controlled -> OperationMeta]
           /\ \A c \in Controlled : FreshState.mutation_operations[c] = "absent"
<1>1. FreshState \in AgentState
  BY GraphConstants DEF FreshState, AgentState, NoDecisions, OperationMeta
<1>2. ~VerificationRequired(FreshState)
  BY DEF FreshState, VerificationRequired
<1>3. \A c \in Controlled : FreshState.approval_decisions[c] = "none"
  BY GraphConstants DEF FreshState, NoDecisions
<1>4. FreshState.mutation_operations = [c \in Controlled |-> "absent"]
  BY DEF FreshState
<1>5. Required(FreshState.mutation_operations) = {}
  BY <1>4 DEF Required
<1>6. FreshState.pending_tools = <<>>
  BY DEF FreshState
<1>7. StateHolds(FreshState, A)
  BY <1>1, <1>2, <1>3, <1>5, FS_EmptySet DEF StateHolds
<1> QED  BY <1>2, <1>4, <1>6, <1>7 DEF OperationMeta

\* A run that stands before a node, with its locals as they start.
LEMMA AtNodeHolds ==
    ASSUME bounds \in Scenarios, NEW s, StateHolds(s, approved),
           NEW p \in Nodes \cup {"starting"}, NodeHolds(p, s),
           NEW k \in 0..StepLimit
    PROVE  LET x == [IdleRun EXCEPT !.phase = p, !.state = s, !.steps = k]
           IN  x \in RunRecord /\ RecordHolds(x, approved, StepLimit) /\ x.phase = p
<1> DEFINE x == [IdleRun EXCEPT !.phase = p, !.state = s, !.steps = k]
<1>1. StepLimit \in Nat
  BY BoundsAreNumbers
<1>2. FreshState.mutation_operations \in [Controlled -> OperationMeta]
  BY <1>1, FreshHolds
<1>3. IdleRun \in RunRecord
  <2>1. FreshState \in AgentState
    BY <1>1, FreshHolds DEF StateHolds
  <2>2. 0 \in 0..StepLimit
    BY <1>1
  <2> QED  BY <1>2, <2>1, <2>2 DEF IdleRun, RunRecord
<1>4. p \in Active /\ p \notin InNode /\ p \notin InGate
  BY DEF Nodes, Active, InNode, InGate
<1>5. x \in RunRecord /\ x.phase = p /\ x.state = s
  BY <1>3, <1>4 DEF RunRecord, StateHolds
<1>6. LocalsHold(x, approved, StepLimit)
  <2> HIDE DEF x
  <2> QED  BY <1>4, <1>5 DEF LocalsHold, InNode, InGate, Nodes
<1> HIDE DEF x
<1>7. RecordHolds(x, approved, StepLimit)
  BY <1>5, <1>6 DEF RecordHolds
<1> QED  BY <1>5, <1>7 DEF x

\* The end of a run.
LEMMA EndMoves ==
    ASSUME bounds \in Scenarios, NEW r \in Runs, run' = [run EXCEPT ![r] = Ended]
    PROVE  Moved(r)
<1>1. StepLimit \in Nat
  BY BoundsAreNumbers
<1>2. IdleRun \in RunRecord /\ IdleRun.state = FreshState
  BY <1>1, FreshHolds DEF IdleRun, RunRecord, StateHolds
<1>3. Ended \in RunRecord /\ Ended.phase = "done" /\ Ended.state = FreshState
  BY <1>2 DEF Ended, RunRecord
<1>4. LocalsHold(Ended, approved, StepLimit) /\ NodeHolds(Ended.phase, Ended.state)
  BY <1>3 DEF LocalsHold, NodeHolds, InNode, InGate
<1>5. RecordHolds(Ended, approved, StepLimit)
  BY <1>1, <1>3, <1>4, FreshHolds DEF RecordHolds
<1> QED  BY <1>3, <1>5 DEF Moved

\* A node is over: the state it leaves and the node it leads to hold together.
LEMMA CommitMoves ==
    ASSUME GraphInv, NEW r \in Runs, run[r].steps < StepLimit,
           NEW s, StateHolds(s, approved), NEW next \in Nodes, NodeHolds(next, s),
           Commit(r, s, next)
    PROVE  Moved(r) /\ StateHolds(checkpoint', approved)
<1>1. run[r].steps \in 0..StepLimit /\ bounds \in Scenarios
  BY DEF GraphInv, RunsHold, RunRecord, SharedTyped
<1>2. run[r].steps + 1 \in 0..StepLimit
  BY <1>1, BoundsAreNumbers
<1> DEFINE x == [IdleRun EXCEPT !.phase = next, !.state = s, !.steps = run[r].steps + 1]
<1>3. x \in RunRecord /\ RecordHolds(x, approved, StepLimit) /\ x.phase = next
  BY <1>1, <1>2, AtNodeHolds
<1>4. run' = [run EXCEPT ![r] = x] /\ checkpoint' = s
  BY DEF Commit
<1>5. next # "idle"
  BY DEF Nodes
<1> HIDE DEF x
<1> QED  BY <1>3, <1>4, <1>5 DEF Moved

\* A step inside a node changes its locals, and the state stays as it was.
LEMMA InnerMoves ==
    ASSUME GraphInv, NEW r \in Runs,
           NEW x \in RunRecord, x.state = run[r].state, LocalsHold(x, approved, StepLimit),
           x.phase \in InNode,
           x.phase = "turn" => ~VerificationRequired(run[r].state),
           run' = [run EXCEPT ![r] = x]
    PROVE  Moved(r)
<1>1. StateHolds(x.state, approved)
  BY DEF GraphInv, RunsHold, RecordHolds
<1>2. NodeHolds(x.phase, x.state) /\ x.phase # "idle"
  BY DEF NodeHolds, InNode
<1> QED  BY <1>1, <1>2 DEF Moved, RecordHolds

\* What is known of a run that may take a step.
LEMMA ReadyRun ==
    ASSUME GraphInv, NEW r \in Runs
    PROVE  /\ run[r] \in RunRecord
           /\ RecordHolds(run[r], approved, StepLimit)
           /\ run[r].state \in AgentState
           /\ bounds \in Scenarios
           /\ StepLimit \in Nat
BY BoundsAreNumbers DEF GraphInv, RunsHold, RecordHolds, StateHolds, SharedTyped

\* When only run r moves, the runs hold, and so does what Stop relies on.
LEMMA MovedHolds ==
    ASSUME GraphInv, NEW r \in Runs, Moved(r), IsActive(r), UNCHANGED <<stop, approved, bounds>>
    PROVE  RunsHold' /\ StopsHold'
<1>1. PICK x \in RunRecord : /\ RecordHolds(x, approved, StepLimit)
                             /\ x.phase # "idle"
                             /\ run' = [run EXCEPT ![r] = x]
  BY DEF Moved
<1>2. run \in [Runs -> RunRecord] /\ \A s \in Runs : RecordHolds(run[s], approved, StepLimit)
  BY DEF GraphInv, RunsHold
<1>3. run' \in [Runs -> RunRecord] /\ RunRecord' = RunRecord /\ StepLimit' = StepLimit
  BY <1>1, <1>2 DEF RunRecord, StepLimit, AgentState
<1>4. run'[r] = x /\ \A s \in Runs \ {r} : run'[s] = run[s]
  BY <1>1, <1>2
<1>5. \A s \in Runs : RecordHolds(run'[s], approved', StepLimit')
  BY <1>1, <1>2, <1>3, <1>4
<1>6. RunsHold'
  BY <1>3, <1>5 DEF RunsHold
<1>7. StopsHold'
  <2>1. StopsHold
    BY DEF GraphInv
  <2>2. \A s \in Runs : stop[s].stage # "none" => run'[s].phase # "idle"
    BY <1>1, <1>4, <2>1 DEF StopsHold
  <2>3. ASSUME NEW s \in Runs, stop[s].stage \in {"cards", "journal", "done"}, ~stop[s].partial
        PROVE  run'[s].phase \notin Active
    BY <1>4, <2>1, <2>3 DEF StopsHold, IsActive
  <2> QED  BY <2>1, <2>2, <2>3 DEF StopsHold, IsActive
<1> QED  BY <1>6, <1>7

\* A save of the messages, at once or late.
LEMMA SaveTyped ==
    ASSUME GraphInv, NEW w \in Writers, NEW ms, Save(w, ms), UNCHANGED bounds
    PROVE  ChatTyped'
<1>1. ChatTyped /\ bounds \in Scenarios
  BY DEF GraphInv, SharedTyped
<1>2. CASE UNCHANGED <<late, lateSaves>>
  BY <1>1, <1>2 DEF ChatTyped
<1>3. CASE lateSaves < bounds.lateSaves /\ lateSaves' = lateSaves + 1 /\ late'.by = w
  BY <1>1, <1>3, BoundsAreNumbers DEF ChatTyped
<1> QED  BY <1>2, <1>3 DEF Save

\* The chat as it was.
LEMMA ChatStays ==
    ASSUME GraphInv, UNCHANGED <<chat, bounds>>
    PROVE  ChatTyped'
BY DEF GraphInv, ChatTyped, chat

\* A run that is about to take its first step, or its first node.
LEMMA BeginsHold ==
    ASSUME bounds \in Scenarios, NEW s, StateHolds(s, approved),
           NEW p \in {"starting", "entry"}
    PROVE  LET x == [IdleRun EXCEPT !.phase = p, !.state = s]
           IN  x \in RunRecord /\ RecordHolds(x, approved, StepLimit) /\ x.phase = p
<1> DEFINE x == [IdleRun EXCEPT !.phase = p, !.state = s]
<1>1. StepLimit \in Nat
  BY BoundsAreNumbers
<1>2. IdleRun \in RunRecord
  BY <1>1, FreshHolds DEF IdleRun, RunRecord, StateHolds
<1>3. x \in RunRecord /\ x.phase = p /\ x.state = s
  BY <1>2 DEF RunRecord, StateHolds, Active, Nodes
<1>4. RecordHolds(x, approved, StepLimit)
  <2> HIDE DEF x
  <2> QED  BY <1>3 DEF RecordHolds, NodeHolds, LocalsHold, InNode, InGate
<1> QED  BY <1>3, <1>4 DEF x

-----------------------------------------------------------------------------
(* The actions of a run *)

\* What every step of run r keeps.
StepHolds(r) ==
    /\ Moved(r)
    /\ StateHolds(checkpoint', approved)
    /\ ChatTyped'
    /\ PhaseTyped'
    /\ SharedTyped'
    /\ OnlyApproved'
    /\ UNCHANGED <<stop, approved, bounds>>

\* A step that leaves the journal and the surroundings as they are.
LEMMA QuietStep ==
    ASSUME GraphInv, NEW r \in Runs, Moved(r), StateHolds(checkpoint', approved), ChatTyped',
           flags' \subseteq Runs, minted' \subseteq Calls, UNCHANGED <<phase, world>>
    PROVE  StepHolds(r)
<1>1. UNCHANGED <<phase, owner, stop, approved, faults, bounds>>
  BY DEF world
<1>2. PhaseTyped' /\ OnlyApproved'
  BY <1>1 DEF GraphInv, PhaseTyped, OnlyApproved
<1>3. SharedTyped'
  BY <1>1 DEF GraphInv, SharedTyped
<1> QED  BY <1>1, <1>2, <1>3 DEF StepHolds

\* A step that moves one operation of the journal on, one the user approved.
LEMMA PhaseStep ==
    ASSUME GraphInv, NEW r \in Runs, Moved(r), ChatTyped', UNCHANGED <<graph, world>>,
           NEW c \in Controlled, c \in approved,
           NEW p \in {"launched", "settled"} \cup Verdicts, phase' = [phase EXCEPT ![c] = p]
    PROVE  StepHolds(r)
<1>1. UNCHANGED <<owner, stop, approved, faults, bounds, checkpoint, flags, minted>>
  BY DEF world, graph
<1>2. PhaseTyped' /\ OnlyApproved'
  <2>1. PhaseTyped /\ OnlyApproved
    BY DEF GraphInv
  <2>2. PhaseTyped'
    BY <2>1 DEF PhaseTyped
  <2>3. \A d \in Controlled : phase'[d] # "none" => phase[d] # "none" \/ d = c
    BY <2>1 DEF PhaseTyped
  <2> QED  BY <1>1, <2>1, <2>2, <2>3 DEF OnlyApproved
<1>3. SharedTyped'
  BY <1>1 DEF GraphInv, SharedTyped
<1>4. StateHolds(checkpoint', approved)
  BY <1>1 DEF GraphInv
<1> QED  BY <1>1, <1>2, <1>3, <1>4 DEF StepHolds

\* The run leaves the graph because of its stop flag.
LEMMA StopLeaves ==
    ASSUME GraphInv, NEW r \in Runs, StopRequested(r)
    PROVE  StepHolds(r)
<1>1. Moved(r)
  BY EndMoves DEF StopRequested, End, GraphInv, SharedTyped
<1>2. flags' \subseteq Runs
  BY DEF StopRequested, End, GraphInv, SharedTyped
<1>3. UNCHANGED <<checkpoint, phase, minted, chat, world, bounds>>
  BY DEF StopRequested, world
<1>4. StateHolds(checkpoint', approved) /\ minted' \subseteq Calls
  BY <1>3 DEF GraphInv, SharedTyped
<1> QED  BY <1>1, <1>2, <1>3, <1>4, ChatStays, QuietStep

\* A node is over, and touched no journal and no chat.
LEMMA NodeEnds ==
    ASSUME GraphInv, NEW r \in Runs, run[r].steps < StepLimit,
           NEW s, StateHolds(s, approved), NEW next \in Nodes, NodeHolds(next, s),
           Commit(r, s, next), UNCHANGED <<flags, phase, minted, chat, world>>
    PROVE  StepHolds(r)
<1>1. Moved(r) /\ StateHolds(checkpoint', approved)
  BY CommitMoves
<1>2. ChatTyped'
  BY ChatStays DEF world
<1>3. flags' \subseteq Runs /\ minted' \subseteq Calls
  BY DEF GraphInv, SharedTyped
<1> QED  BY <1>1, <1>2, <1>3, QuietStep

\* run_agent_workflow lays the input of the run over the checkpoint.
LEMMA StartHolds ==
    ASSUME GraphInv, NEW r \in Runs, Start(r)
    PROVE  StepHolds(r)
<1> DEFINE input == run[r].state
           s == IF input.suppress_pending_event
                THEN [checkpoint EXCEPT !.suppress_pending_event = TRUE,
                                        !.approval_decisions = input.approval_decisions]
                ELSE checkpoint
<1>1. StateHolds(checkpoint, approved) /\ StateHolds(input, approved)
  BY ReadyRun DEF GraphInv, RecordHolds
<1>2. StateHolds(s, approved)
  <2>1. CASE ~input.suppress_pending_event
    BY <1>1, <2>1
  <2>2. CASE input.suppress_pending_event
    <3> DEFINE t == [checkpoint EXCEPT !.suppress_pending_event = TRUE,
                                       !.approval_decisions = input.approval_decisions]
    <3>1. /\ t \in AgentState
          /\ t.approval_decisions = input.approval_decisions
          /\ t.mutation_operations = checkpoint.mutation_operations
          /\ t.verification_required = checkpoint.verification_required
      BY <1>1 DEF StateHolds, AgentState
    <3>2. StateHolds(t, approved)
      <4> HIDE DEF t
      <4> QED  BY <1>1, <3>1 DEF StateHolds, VerificationRequired
    <3> QED  BY <2>2, <3>2
  <2> QED  BY <2>1, <2>2
<1> DEFINE x == [IdleRun EXCEPT !.phase = "entry", !.state = s]
<1>3. checkpoint' = s /\ run' = [run EXCEPT ![r] = x]
  BY DEF Start
<1> HIDE DEF s
<1>4. x \in RunRecord /\ RecordHolds(x, approved, StepLimit) /\ x.phase = "entry"
  BY <1>2, BeginsHold DEF GraphInv, SharedTyped
<1> HIDE DEF x
<1>5. Moved(r) /\ StateHolds(checkpoint', approved)
  BY <1>2, <1>3, <1>4 DEF Moved
<1>6. flags' \subseteq Runs /\ minted' \subseteq Calls
  BY DEF Start, GraphInv, SharedTyped
<1>7. UNCHANGED <<phase, world, chat, bounds>>
  BY DEF Start, world
<1> QED  BY <1>5, <1>6, <1>7, ChatStays, QuietStep

\* The routes lead on to the model only when nothing is to verify, and to the end
\* only with a pause, an error, or nothing left to do.
LEMMA RoutesHold ==
    ASSUME NEW A, NEW s, StateHolds(s, A)
    PROVE  /\ route_from_entry(s) \in Nodes /\ NodeHolds(route_from_entry(s), s)
           /\ route_after_model(s) \in Nodes /\ NodeHolds(route_after_model(s), s)
           /\ route_after_gate(s) \in Nodes /\ NodeHolds(route_after_gate(s), s)
<1>1. VerificationRequired(s) => s.verification_required
  BY DEF StateHolds
<1>2. route_from_entry(s) \in Nodes /\ NodeHolds(route_from_entry(s), s)
  BY <1>1 DEF route_from_entry, NodeHolds, Nodes
<1>3. route_after_model(s) \in Nodes /\ NodeHolds(route_after_model(s), s)
  BY <1>1 DEF route_after_model, NodeHolds, Nodes
<1>4. route_after_gate(s) \in Nodes /\ NodeHolds(route_after_gate(s), s)
  BY <1>1 DEF route_after_gate, NodeHolds, Nodes
<1> QED  BY <1>2, <1>3, <1>4

\* A state whose operations, requirement and decisions stay goes on to hold.
LEMMA EditHolds ==
    ASSUME NEW A, NEW s, StateHolds(s, A), NEW t \in AgentState,
           t.approval_decisions = s.approval_decisions,
           t.mutation_operations = s.mutation_operations,
           t.verification_required = s.verification_required
    PROVE  StateHolds(t, A)
BY DEF StateHolds, VerificationRequired

\* The entry node clears what the turn before left and goes to the node its checkpoint
\* calls for; or it finds the run stopped.
LEMMA EntryHolds ==
    ASSUME GraphInv, NEW r \in Runs, Entry(r)
    PROVE  StepHolds(r)
<1>1. CASE StopRequested(r)
  BY <1>1, StopLeaves
<1>2. CASE ~StopRequested(r)
  <2> DEFINE s == [run[r].state EXCEPT !.awaiting_approval = FALSE,
                                       !.verification_blocked = FALSE, !.error = FALSE]
  <2>1. /\ run[r].steps < StepLimit
        /\ Commit(r, s, route_from_entry(s))
        /\ UNCHANGED <<flags, phase, minted, chat, world>>
    BY <1>2 DEF Entry, AtNode
  <2>2. StateHolds(s, approved)
    <3>1. /\ s \in AgentState
          /\ s.approval_decisions = run[r].state.approval_decisions
          /\ s.mutation_operations = run[r].state.mutation_operations
          /\ s.verification_required = run[r].state.verification_required
      BY ReadyRun DEF AgentState
    <3> HIDE DEF s
    <3> QED  BY <3>1, ReadyRun, EditHolds DEF RecordHolds
  <2> HIDE DEF s
  <2> QED  BY <2>1, <2>2, RoutesHold, NodeEnds
<1> QED  BY <1>1, <1>2

\* Preparing the memory leaves the state as it is, so the model still has nothing to
\* verify before it.
LEMMA MemoryPrepareHolds ==
    ASSUME GraphInv, NEW r \in Runs, MemoryPrepare(r)
    PROVE  StepHolds(r)
<1>1. /\ run[r].steps < StepLimit
      /\ run[r].phase = "memory_prepare"
      /\ Commit(r, run[r].state, "model")
      /\ UNCHANGED <<flags, phase, minted, chat, world>>
  BY DEF MemoryPrepare, AtNode, At
<1>2. StateHolds(run[r].state, approved) /\ NodeHolds("model", run[r].state)
  BY <1>1, ReadyRun DEF RecordHolds, NodeHolds
<1> QED  BY <1>1, <1>2, NodeEnds DEF Nodes

\* A step inside a node that changes no shared state but the messages.
LEMMA InnerStep ==
    ASSUME GraphInv, NEW r \in Runs, ChatTyped', UNCHANGED <<phase, graph, world>>,
           NEW x \in RunRecord, x.state = run[r].state, LocalsHold(x, approved, StepLimit),
           x.phase \in InNode,
           x.phase = "turn" => ~VerificationRequired(run[r].state),
           run' = [run EXCEPT ![r] = x]
    PROVE  StepHolds(r)
<1>1. Moved(r)
  BY InnerMoves
<1>2. StateHolds(checkpoint', approved) /\ flags' \subseteq Runs /\ minted' \subseteq Calls
  BY DEF graph, GraphInv, SharedTyped
<1> QED  BY <1>1, <1>2, QuietStep

\* Nothing changes between the model node and its turn but the flag a stop sets.
LEMMA ModelNodeHolds ==
    ASSUME GraphInv, NEW r \in Runs, ModelNode(r)
    PROVE  StepHolds(r)
<1>1. CASE StopRequested(r)
  BY <1>1, StopLeaves
<1>2. CASE ~StopRequested(r)
  <2> DEFINE x == [run[r] EXCEPT !.phase = "turn"]
  <2>1. /\ run[r].steps < StepLimit
        /\ run[r].phase = "model"
        /\ run' = [run EXCEPT ![r] = x]
        /\ UNCHANGED <<phase, chat, graph, world>>
    BY <1>2 DEF ModelNode, AtNode, At, Goto
  <2>2. /\ x \in RunRecord /\ x.state = run[r].state /\ x.phase = "turn"
        /\ x.steps = run[r].steps
    BY ReadyRun DEF RunRecord, Active, InNode
  <2>3. ~VerificationRequired(run[r].state)
    BY <2>1, ReadyRun DEF RecordHolds, NodeHolds
  <2> HIDE DEF x
  <2>4. LocalsHold(x, approved, StepLimit) /\ x.phase \in InNode
    BY <2>1, <2>2 DEF LocalsHold, InGate, InNode
  <2>5. ChatTyped'
    BY <2>1, ChatStays DEF world
  <2> QED  BY <2>1, <2>2, <2>3, <2>4, <2>5, InnerStep
<1> QED  BY <1>1, <1>2

\* The turn of the model brings new calls; what is left to verify, nothing, is as it
\* was.
LEMMA ModelTurnHolds ==
    ASSUME GraphInv, NEW r \in Runs, ModelTurn(r)
    PROVE  StepHolds(r)
<1>1. PICK q \in Batches :
         /\ Commit(r, [run[r].state EXCEPT !.pending_tools = q],
                   route_after_model([run[r].state EXCEPT !.pending_tools = q]))
         /\ minted' = minted \cup (Range(q) \cap Calls)
  BY DEF ModelTurn
<1> DEFINE s == [run[r].state EXCEPT !.pending_tools = q]
<1>2. q \in Seq(Calls \cup MetaCalls)
  <2>1. bounds.calls \subseteq Calls \cup MetaCalls
    BY ReadyRun, GraphConstants
  <2> QED  BY <1>1, <2>1 DEF Batches, SeqOf
<1>3. /\ s \in AgentState
      /\ s.approval_decisions = run[r].state.approval_decisions
      /\ s.mutation_operations = run[r].state.mutation_operations
      /\ s.verification_required = run[r].state.verification_required
  BY <1>2, ReadyRun DEF AgentState
<1>4. run[r].steps < StepLimit
  BY ReadyRun DEF ModelTurn, At, RecordHolds, LocalsHold, InNode
<1>5. Commit(r, s, route_after_model(s))
  BY <1>1
<1> HIDE DEF s
<1>6. StateHolds(s, approved)
  BY <1>3, ReadyRun, EditHolds DEF RecordHolds
<1>7. Moved(r) /\ StateHolds(checkpoint', approved)
  BY <1>4, <1>5, <1>6, RoutesHold, CommitMoves
<1>8. ChatTyped'
  BY SaveTyped DEF ModelTurn, world, Writers
<1>9. flags' \subseteq Runs /\ minted' \subseteq Calls
  BY <1>1 DEF ModelTurn, GraphInv, SharedTyped
<1> QED  BY <1>7, <1>8, <1>9, QuietStep DEF ModelTurn

\* A turn that fails leaves its error in the state, which alone may end the run.
LEMMA ModelFailsHolds ==
    ASSUME GraphInv, NEW r \in Runs, ModelFails(r)
    PROVE  StepHolds(r)
<1> DEFINE s == [run[r].state EXCEPT !.pending_tools = <<>>, !.error = TRUE]
<1>1. /\ s \in AgentState
      /\ s.approval_decisions = run[r].state.approval_decisions
      /\ s.mutation_operations = run[r].state.mutation_operations
      /\ s.verification_required = run[r].state.verification_required
  <2>1. <<>> \in Seq(Calls \cup MetaCalls)
    OBVIOUS
  <2> QED  BY <2>1, ReadyRun DEF AgentState
<1>2. run[r].steps < StepLimit
  BY ReadyRun DEF ModelFails, At, RecordHolds, LocalsHold, InNode
<1>3. Commit(r, s, route_after_model(s)) /\ UNCHANGED <<flags, phase, minted, chat, world>>
  BY DEF ModelFails
<1> HIDE DEF s
<1>4. StateHolds(s, approved)
  BY <1>1, ReadyRun, EditHolds DEF RecordHolds
<1> QED  BY <1>2, <1>3, <1>4, RoutesHold, NodeEnds

-----------------------------------------------------------------------------
(* The gate *)

\* The gate begins with the calls of the turn and the operations the state knows.
LEMMA GateHolds ==
    ASSUME GraphInv, NEW r \in Runs, Gate(r)
    PROVE  StepHolds(r)
<1> DEFINE s == run[r].state
           failed == [s EXCEPT !.pending_tools = <<>>, !.error = TRUE,
                               !.suppress_pending_event = FALSE]
           x == [run[r] EXCEPT !.phase = "tool", !.queue = s.pending_tools,
                               !.meta = s.mutation_operations,
                               !.required = VerificationRequired(s)]
<1>1. run[r].steps < StepLimit
  BY DEF Gate, AtNode
<1>2. CASE /\ Commit(r, failed, route_after_gate(failed))
           /\ UNCHANGED <<flags, phase, minted, chat, world>>
  <2>1. /\ failed \in AgentState
        /\ failed.approval_decisions = s.approval_decisions
        /\ failed.mutation_operations = s.mutation_operations
        /\ failed.verification_required = s.verification_required
    <3>1. <<>> \in Seq(Calls \cup MetaCalls)
      OBVIOUS
    <3> QED  BY <3>1, ReadyRun DEF AgentState
  <2> HIDE DEF failed
  <2>2. StateHolds(failed, approved)
    BY <2>1, ReadyRun, EditHolds DEF RecordHolds
  <2> QED  BY <1>1, <1>2, <2>2, RoutesHold, NodeEnds
<1>3. CASE /\ run' = [run EXCEPT ![r].phase = "tool", ![r].queue = s.pending_tools,
                                 ![r].meta = s.mutation_operations,
                                 ![r].required = RebuiltRequirement(s)]
           /\ \/ UNCHANGED chat
              \/ Save(r, WithPendingCards(messages, r, s.pending_tools))
           /\ UNCHANGED <<phase, graph, world>>
  <2>1. run' = [run EXCEPT ![r] = x]
    BY <1>3 DEF RebuiltRequirement
  <2>2. VerificationRequired(s) \in BOOLEAN
    BY DEF VerificationRequired
  <2>3. s.pending_tools \in Seq(Calls \cup MetaCalls)
           /\ s.mutation_operations \in [Controlled -> OperationMeta]
    BY ReadyRun DEF AgentState
  <2>4. /\ x \in RunRecord
        /\ x.phase = "tool" /\ x.state = s /\ x.steps = run[r].steps
        /\ x.meta = s.mutation_operations /\ x.required = VerificationRequired(s)
    BY <2>2, <2>3, ReadyRun DEF RunRecord, Active, InNode
  <2> HIDE DEF x
  <2>5. LocalsHold(x, approved, StepLimit)
    <3>1. IsFiniteSet(Required(x.meta))
      BY <2>4, ReadyRun DEF RecordHolds, StateHolds
    <3> QED  BY <1>1, <2>4, <3>1 DEF LocalsHold, VerificationRequired
  <2>6. ChatTyped'
    BY <1>3, ChatStays, SaveTyped DEF world, Writers
  <2>7. x.phase \in InNode
    BY <2>4 DEF InNode
  <2> QED  BY <1>3, <2>1, <2>4, <2>5, <2>6, <2>7, InnerStep
<1> QED  BY <1>2, <1>3 DEF Gate

\* The queue of a run, and what is left of it.
LEMMA QueueTyped ==
    ASSUME GraphInv, NEW r \in Runs, run[r].queue # <<>>
    PROVE  /\ run[r].queue \in Seq(Calls \cup MetaCalls)
           /\ Tail(run[r].queue) \in Seq(Calls \cup MetaCalls)
<1>1. run[r].queue \in Seq(Calls \cup MetaCalls)
  BY ReadyRun DEF RunRecord
<1> QED  BY <1>1

\* The gate has the answer of a call and takes the next one.
LEMMA AdvanceMoves ==
    ASSUME GraphInv, NEW r \in Runs, run[r].phase \in InGate, run[r].queue # <<>>,
           Advance(r) \/ \E c \in Controlled, m \in OperationMeta : AdvanceWith(r, c, m)
    PROVE  Moved(r)
<1>1. /\ run[r] \in RunRecord
      /\ run[r].meta \in [Controlled -> OperationMeta]
      /\ run[r].steps < StepLimit
      /\ (\E d \in Controlled : run[r].meta[d] = "required") => run[r].required
      /\ run[r].required \in BOOLEAN
      /\ IsFiniteSet(Required(run[r].meta))
  BY ReadyRun DEF RunRecord, RecordHolds, LocalsHold, InGate, InNode
<1>2. Tail(run[r].queue) \in Seq(Calls \cup MetaCalls)
  BY QueueTyped
<1>3. CASE Advance(r)
  <2> DEFINE x == [run[r] EXCEPT !.phase = "tool", !.queue = Tail(@)]
  <2>1. run' = [run EXCEPT ![r] = x]
    BY <1>3 DEF Advance
  <2>2. /\ x \in RunRecord
        /\ x.phase = "tool" /\ x.state = run[r].state /\ x.steps = run[r].steps
        /\ x.meta = run[r].meta /\ x.required = run[r].required
    BY <1>1, <1>2 DEF RunRecord, Active, InNode
  <2> HIDE DEF x
  <2>3. LocalsHold(x, approved, StepLimit) /\ x.phase \in InNode
    BY <1>1, <2>2 DEF LocalsHold, InNode
  <2> QED  BY <2>1, <2>2, <2>3, InnerMoves
<1>4. ASSUME NEW c \in Controlled, NEW m \in OperationMeta, AdvanceWith(r, c, m)
      PROVE  Moved(r)
  <2> DEFINE meta == [run[r].meta EXCEPT ![c] = m]
             x == [run[r] EXCEPT !.phase = "tool", !.queue = Tail(@),
                                 !.meta = meta, !.required = @ \/ m = "required"]
  <2>1. run' = [run EXCEPT ![r] = x]
    <3> DEFINE y == [run[r] EXCEPT !.phase = "tool", !.queue = Tail(@)]
               z == [y EXCEPT !.meta = meta]
    <3>1. run \in [Runs -> RunRecord]
      BY DEF GraphInv, RunsHold
    <3>2. [run EXCEPT ![r].phase = "tool", ![r].queue = Tail(@)] = [run EXCEPT ![r] = y]
      BY <3>1
    <3>3. /\ y.meta = run[r].meta /\ y.required = run[r].required
          /\ z.required = run[r].required
      BY <1>1 DEF RunRecord
    <3>4. x = [z EXCEPT !.required = run[r].required \/ m = "required"]
      BY <1>1 DEF RunRecord
    <3> HIDE DEF y
    <3>5. [run EXCEPT ![r] = y, ![r].meta[c] = m] = [run EXCEPT ![r] = z]
      BY <3>1, <3>3
    <3> HIDE DEF z
    <3>6. [run EXCEPT ![r] = z, ![r].required = run[r].required \/ m = "required"]
             = [run EXCEPT ![r] = x]
      BY <3>1, <3>4
    <3> QED  BY <1>4, <3>2, <3>5, <3>6 DEF AdvanceWith
  <2>2. meta \in [Controlled -> OperationMeta]
    BY <1>1
  <2>3. \A d \in Controlled : meta[d] = "required" => run[r].meta[d] = "required" \/ m = "required"
    BY <1>1
  <2>4. IsFiniteSet(Required(meta))
    <3>1. Required(meta) \subseteq Required(run[r].meta) \cup {c}
      BY <1>1 DEF Required
    <3>2. IsFiniteSet(Required(run[r].meta) \cup {c})
      BY <1>1, FS_AddElement
    <3> QED  BY <3>1, <3>2, FS_Subset
  <2> HIDE DEF meta
  <2>5. /\ x \in RunRecord
        /\ x.phase = "tool" /\ x.state = run[r].state /\ x.steps = run[r].steps
        /\ x.meta = meta /\ x.required = (run[r].required \/ m = "required")
    BY <1>1, <1>2, <2>2 DEF RunRecord, Active, InNode
  <2> HIDE DEF x
  <2>6. LocalsHold(x, approved, StepLimit) /\ x.phase \in InNode
    BY <1>1, <2>3, <2>5, <2>4 DEF LocalsHold, InNode
  <2> QED  BY <2>1, <2>5, <2>6, InnerMoves
<1> QED  BY <1>3, <1>4

\* The gate goes on with the call it has.
LEMMA GotoMoves ==
    ASSUME GraphInv, NEW r \in Runs, run[r].phase \in InGate,
           NEW p \in InGate, Goto(r, p),
           p = "prepare" => run[r].queue # <<>> /\ Head(run[r].queue) \in approved
    PROVE  Moved(r)
<1> DEFINE x == [run[r] EXCEPT !.phase = p]
<1>1. /\ run[r] \in RunRecord
      /\ run[r].steps < StepLimit
      /\ (\E d \in Controlled : run[r].meta[d] = "required") => run[r].required
      /\ IsFiniteSet(Required(run[r].meta))
  BY ReadyRun DEF RecordHolds, LocalsHold, InGate, InNode
<1>2. p \in InNode /\ p \in Active /\ p # "verifying" /\ p # "turn"
  BY DEF InGate, InNode, Active
<1>3. run' = [run EXCEPT ![r] = x]
  BY DEF Goto
<1>4. /\ x \in RunRecord
      /\ x.phase = p /\ x.state = run[r].state /\ x.steps = run[r].steps
      /\ x.meta = run[r].meta /\ x.required = run[r].required /\ x.queue = run[r].queue
  BY <1>1, <1>2 DEF RunRecord
<1> HIDE DEF x
<1>5. LocalsHold(x, approved, StepLimit)
  BY <1>1, <1>2, <1>4 DEF LocalsHold
<1> QED  BY <1>2, <1>3, <1>4, <1>5, InnerMoves

\* A save by a run, or none.
LEMMA RunSaves ==
    ASSUME GraphInv, NEW r \in Runs, UNCHANGED bounds,
           UNCHANGED chat \/ \E ms : Save(r, ms)
    PROVE  ChatTyped'
BY ChatStays, SaveTyped DEF Writers

\* A step of the gate that leaves the journal alone.
LEMMA GateStep ==
    ASSUME GraphInv, NEW r \in Runs, Moved(r), UNCHANGED <<phase, graph, world>>,
           UNCHANGED chat \/ \E ms : Save(r, ms)
    PROVE  StepHolds(r)
<1>1. ChatTyped'
  BY RunSaves DEF world
<1>2. StateHolds(checkpoint', approved) /\ flags' \subseteq Runs /\ minted' \subseteq Calls
  BY DEF graph, GraphInv, SharedTyped
<1> QED  BY <1>1, <1>2, QuietStep

\* A call of a meta tool is passed over.
LEMMA LoadsToolsetHolds ==
    ASSUME GraphInv, NEW r \in Runs, LoadsToolset(r)
    PROVE  StepHolds(r)
<1>1. run[r].phase \in InGate /\ run[r].queue # <<>>
  BY DEF LoadsToolset, AtCall, At, InGate
<1> QED  BY <1>1, AdvanceMoves, GateStep DEF LoadsToolset

\* A call that is refused is passed over, whatever becomes of its card.
LEMMA RefuseHolds ==
    ASSUME GraphInv, NEW r \in Runs, Refuse(r)
    PROVE  StepHolds(r)
<1>1. PICK c \in Calls : /\ AtCall(r, "tool", c)
                         /\ Advance(r)
                         /\ SetCard(r, c, "error") \/ UNCHANGED chat
                         /\ UNCHANGED <<phase, graph, world>>
  BY DEF Refuse
<1>2. run[r].phase \in InGate /\ run[r].queue # <<>>
  BY <1>1 DEF AtCall, At, InGate
<1>3. UNCHANGED chat \/ \E ms : Save(r, ms)
  BY <1>1 DEF SetCard
<1> QED  BY <1>1, <1>2, <1>3, AdvanceMoves, GateStep

\* A call that reads needs no approval and leaves nothing to verify.
LEMMA ReadHolds ==
    ASSUME GraphInv, NEW r \in Runs, ExecuteRead(r) \/ ReadReturns(r)
    PROVE  StepHolds(r)
<1>1. CASE ExecuteRead(r)
  <2>1. PICK c \in Calls \ Controlled : /\ AtCall(r, "tool", c)
                                        /\ Goto(r, "calling")
                                        /\ \E ms : Save(r, ms)
                                        /\ UNCHANGED <<phase, graph, world>>
    BY <1>1 DEF ExecuteRead
  <2>2. run[r].phase \in InGate /\ "calling" \in InGate
    BY <2>1 DEF AtCall, At, InGate
  <2> QED  BY <2>1, <2>2, GotoMoves, GateStep
<1>2. CASE ReadReturns(r)
  <2>1. PICK c \in Calls \ Controlled : /\ AtCall(r, "calling", c)
                                        /\ Advance(r)
                                        /\ \E ms : Save(r, ms)
                                        /\ UNCHANGED <<phase, graph, world>>
    BY <1>2 DEF ReadReturns, SetCard
  <2>2. run[r].phase \in InGate /\ run[r].queue # <<>>
    BY <2>1 DEF AtCall, At, InGate
  <2> QED  BY <2>1, <2>2, AdvanceMoves, GateStep
<1> QED  BY <1>1, <1>2

\* A mutation without a decision is asked for before anything else is done with it.
LEMMA AskApprovalHolds ==
    ASSUME GraphInv, NEW r \in Runs, AskApproval(r)
    PROVE  StepHolds(r)
<1>1. PICK c \in Controlled : /\ AtCall(r, "tool", c)
                              /\ Goto(r, "asking")
                              /\ \E ms : Save(r, ms)
                              /\ UNCHANGED <<phase, graph, world>>
  BY DEF AskApproval
<1>2. run[r].phase \in InGate /\ "asking" \in InGate
  BY <1>1 DEF AtCall, At, InGate
<1> QED  BY <1>1, <1>2, GotoMoves, GateStep

\* A mutation the user denied is passed over.
LEMMA DenyHolds ==
    ASSUME GraphInv, NEW r \in Runs, Deny(r)
    PROVE  StepHolds(r)
<1>1. PICK c \in Controlled : /\ AtCall(r, "tool", c)
                              /\ Advance(r)
                              /\ \E ms : Save(r, ms)
                              /\ UNCHANGED <<phase, graph, world>>
  BY DEF Deny, SetCard
<1>2. run[r].phase \in InGate /\ run[r].queue # <<>>
  BY <1>1 DEF AtCall, At, InGate
<1> QED  BY <1>1, <1>2, AdvanceMoves, GateStep

\* The decision the gate acts on is one the user made.
LEMMA ApprovedHolds ==
    ASSUME GraphInv, NEW r \in Runs, Approved(r)
    PROVE  StepHolds(r)
<1>1. PICK c \in Controlled : /\ AtCall(r, "tool", c)
                              /\ DecisionOf(r, c) = "yes"
                              /\ Goto(r, "prepare")
                              /\ \E ms : Save(r, ms)
                              /\ UNCHANGED <<phase, graph, world>>
  BY DEF Approved, SetCard
<1>2. run[r].phase \in InGate /\ "prepare" \in InGate /\ run[r].queue # <<>>
  BY <1>1 DEF AtCall, At, InGate
<1>3. Head(run[r].queue) \in approved
  BY <1>1, ReadyRun DEF AtCall, DecisionOf, RecordHolds, StateHolds
<1> QED  BY <1>1, <1>2, <1>3, GotoMoves, GateStep

\* prepare admits only the call at the head of the queue, which is approved.
LEMMA PrepareHolds ==
    ASSUME GraphInv, NEW r \in Runs, Prepare(r)
    PROVE  StepHolds(r)
<1>1. PICK c \in Controlled :
        /\ AtCall(r, "prepare", c)
        /\ \/ /\ phase' = [phase EXCEPT ![c] = "admitted"]
              /\ owner' = [owner EXCEPT ![c] = r]
              /\ Goto(r, "mark")
           \/ /\ UNCHANGED <<phase, owner>>
              /\ \/ Goto(r, "mark")
                 \/ AdvanceWith(r, c, "required")
                 \/ AdvanceWith(r, c, "settled")
                 \/ Advance(r)
        /\ UNCHANGED <<chat, graph, stop, approved, faults, bounds>>
  BY DEF Prepare
<1>2. run[r].phase = "prepare" /\ run[r].queue # <<>> /\ Head(run[r].queue) = c
  BY <1>1 DEF AtCall, At
<1>3. c \in approved
  BY <1>2, ReadyRun DEF RecordHolds, LocalsHold
<1>4. Moved(r)
  <2>1. run[r].phase \in InGate /\ "mark" \in InGate
    BY <1>2 DEF InGate
  <2>2. "required" \in OperationMeta /\ "settled" \in OperationMeta
    BY DEF OperationMeta
  <2> QED  BY <1>1, <1>2, <2>1, <2>2, GotoMoves, AdvanceMoves
<1>5. ChatTyped'
  BY <1>1, ChatStays
<1>6. PhaseTyped' /\ OnlyApproved' /\ owner' \in [Controlled -> Runs \cup {NoRun}]
  <2>1. PhaseTyped /\ OnlyApproved /\ owner \in [Controlled -> Runs \cup {NoRun}]
    BY DEF GraphInv, SharedTyped
  <2>2. CASE UNCHANGED <<phase, owner>>
    BY <1>1, <2>1, <2>2 DEF PhaseTyped, OnlyApproved
  <2>3. CASE phase' = [phase EXCEPT ![c] = "admitted"] /\ owner' = [owner EXCEPT ![c] = r]
    <3>1. PhaseTyped' /\ owner' \in [Controlled -> Runs \cup {NoRun}]
      BY <2>1, <2>3 DEF PhaseTyped
    <3>2. \A d \in Controlled : phase'[d] # "none" => phase[d] # "none" \/ d = c
      BY <2>1, <2>3 DEF PhaseTyped
    <3> QED  BY <1>1, <1>3, <2>1, <3>1, <3>2 DEF OnlyApproved
  <2> QED  BY <1>1, <2>2, <2>3
<1>7. SharedTyped' /\ StateHolds(checkpoint', approved)
  BY <1>1, <1>6 DEF GraphInv, SharedTyped, graph
<1> QED  BY <1>1, <1>4, <1>5, <1>6, <1>7 DEF StepHolds

\* An operation that is in the journal is one the user approved.
LEMMA MarkExecutingHolds ==
    ASSUME GraphInv, NEW r \in Runs, MarkExecuting(r)
    PROVE  StepHolds(r)
<1>1. PICK c \in Controlled :
        /\ AtCall(r, "mark", c)
        /\ \/ /\ phase[c] = "admitted"
              /\ phase' = [phase EXCEPT ![c] = "launched"]
              /\ Goto(r, "calling")
           \/ UNCHANGED phase /\ Advance(r)
        /\ \E ms : Save(r, ms)
        /\ UNCHANGED <<graph, world>>
  BY DEF MarkExecuting, SetCard
<1>2. run[r].phase \in InGate /\ "calling" \in InGate /\ run[r].queue # <<>>
  BY <1>1 DEF AtCall, At, InGate
<1>3. CASE UNCHANGED phase /\ Advance(r)
  BY <1>1, <1>2, <1>3, AdvanceMoves, GateStep
<1>4. CASE /\ phase[c] = "admitted"
           /\ phase' = [phase EXCEPT ![c] = "launched"]
           /\ Goto(r, "calling")
  <2>1. Moved(r) /\ ChatTyped'
    BY <1>1, <1>2, <1>4, GotoMoves, RunSaves DEF world
  <2>2. c \in approved
    BY <1>4 DEF GraphInv, OnlyApproved
  <2> QED  BY <1>1, <1>4, <2>1, <2>2, PhaseStep
<1> QED  BY <1>1, <1>3, <1>4

\* A mutation that was launched and returns is to be verified, and the gate notes that
\* something is; one that was not comes back as an error.
LEMMA MutationReturnsHolds ==
    ASSUME GraphInv, NEW r \in Runs, MutationReturns(r)
    PROVE  StepHolds(r)
<1>1. PICK c \in Controlled :
        /\ AtCall(r, "calling", c)
        /\ \/ /\ phase[c] = "launched"
              /\ phase' = [phase EXCEPT ![c] = "settled"]
              /\ AdvanceWith(r, c, "required")
              /\ UNCHANGED chat
           \/ /\ UNCHANGED phase
              /\ Advance(r)
              /\ \E ms : Save(r, ms)
        /\ UNCHANGED <<graph, world>>
  BY DEF MutationReturns, SetCard
<1>2. run[r].phase \in InGate /\ "required" \in OperationMeta /\ run[r].queue # <<>>
  BY <1>1 DEF AtCall, At, InGate, OperationMeta
<1>3. CASE UNCHANGED phase /\ Advance(r) /\ \E ms : Save(r, ms)
  BY <1>1, <1>2, <1>3, AdvanceMoves, GateStep
<1>4. CASE /\ phase[c] = "launched"
           /\ phase' = [phase EXCEPT ![c] = "settled"]
           /\ AdvanceWith(r, c, "required")
           /\ UNCHANGED chat
  <2>1. Moved(r) /\ ChatTyped'
    BY <1>1, <1>2, <1>4, AdvanceMoves, ChatStays DEF world
  <2>2. c \in approved
    BY <1>4 DEF GraphInv, OnlyApproved
  <2> QED  BY <1>1, <1>4, <2>1, <2>2, PhaseStep
<1> QED  BY <1>1, <1>3, <1>4

\* The gate ends, or pauses, with the requirement it rebuilt and extended: no
\* operation it knows of is left out of it.
LEMMA GateLeaves ==
    ASSUME GraphInv, NEW r \in Runs, run[r].phase \in InGate,
           NEW s \in AgentState,
           s.approval_decisions = run[r].state.approval_decisions,
           s.mutation_operations = run[r].meta,
           s.verification_required = run[r].required,
           Commit(r, s, route_after_gate(s)), UNCHANGED <<flags, phase, minted, chat, world>>
    PROVE  StepHolds(r)
<1>1. run[r].steps < StepLimit
  BY ReadyRun DEF RecordHolds, LocalsHold, InGate, InNode
<1>2. /\ (\E c \in Controlled : run[r].meta[c] = "required") => run[r].required
      /\ IsFiniteSet(Required(run[r].meta))
  BY ReadyRun DEF RecordHolds, LocalsHold
<1>3. \A c \in Controlled : s.approval_decisions[c] = "yes" => c \in approved
  BY ReadyRun DEF RecordHolds, StateHolds
<1>4. StateHolds(s, approved)
  BY <1>2, <1>3 DEF StateHolds, VerificationRequired
<1> QED  BY <1>1, <1>4, RoutesHold, NodeEnds

\* The gate writes down what it found out: with something left to verify its state says
\* so, and the run goes to the verification; with an approval to wait for it ends.
LEMMA GateEndsHolds ==
    ASSUME GraphInv, NEW r \in Runs, PauseForApproval(r) \/ GateEnds(r)
    PROVE  StepHolds(r)
<1>1. /\ run[r].state \in AgentState
      /\ run[r].queue \in Seq(Calls \cup MetaCalls)
      /\ run[r].meta \in [Controlled -> OperationMeta]
      /\ run[r].required \in BOOLEAN
      /\ <<>> \in Seq(Calls \cup MetaCalls)
  BY ReadyRun DEF RunRecord
<1>2. CASE PauseForApproval(r)
  <2> DEFINE s == [run[r].state EXCEPT !.pending_tools = run[r].queue,
                                       !.awaiting_approval = TRUE,
                                       !.suppress_pending_event = FALSE,
                                       !.mutation_operations = run[r].meta,
                                       !.verification_required = run[r].required,
                                       !.verification_blocked = FALSE]
  <2>1. /\ run[r].phase \in InGate
        /\ Commit(r, s, route_after_gate(s))
        /\ UNCHANGED <<flags, phase, minted, chat, world>>
    BY <1>2 DEF PauseForApproval, At, InGate
  <2>2. /\ s \in AgentState
        /\ s.approval_decisions = run[r].state.approval_decisions
        /\ s.mutation_operations = run[r].meta
        /\ s.verification_required = run[r].required
    BY <1>1 DEF AgentState
  <2> HIDE DEF s
  <2> QED  BY <2>1, <2>2, GateLeaves
<1>3. CASE GateEnds(r)
  <2> DEFINE s == [run[r].state EXCEPT !.pending_tools = <<>>,
                                       !.awaiting_approval = FALSE,
                                       !.suppress_pending_event = FALSE,
                                       !.mutation_operations = run[r].meta,
                                       !.verification_required = run[r].required,
                                       !.verification_blocked = FALSE]
  <2>1. /\ run[r].phase \in InGate
        /\ Commit(r, s, route_after_gate(s))
        /\ UNCHANGED <<flags, phase, minted, chat, world>>
    BY <1>3 DEF GateEnds, At, InGate
  <2>2. /\ s \in AgentState
        /\ s.approval_decisions = run[r].state.approval_decisions
        /\ s.mutation_operations = run[r].meta
        /\ s.verification_required = run[r].required
    BY <1>1 DEF AgentState
  <2> HIDE DEF s
  <2> QED  BY <2>1, <2>2, GateLeaves
<1> QED  BY <1>2, <1>3

-----------------------------------------------------------------------------
(* The verification node *)

\* SetToSeq lists the elements of a finite set, and nothing else.
LEMMA SetToSeqLists ==
    ASSUME NEW S, IsFiniteSet(S)
    PROVE  SetToSeq(S) \in Seq(S) /\ Range(SetToSeq(S)) = S
<1> DEFINE n == Cardinality(S)
<1>1. n \in Nat /\ ExistsBijection(1..n, S)
  BY FS_CardinalityType
<1>2. \E f \in [1..n -> S] : IsInjective(f)
  BY <1>1 DEF ExistsBijection, Bijection, Injection, Surjection, IsInjective
<1>3. SetToSeq(S) \in [1..n -> S] /\ IsInjective(SetToSeq(S))
  BY <1>2 DEF SetToSeq
<1>4. SetToSeq(S) \in Injection(1..n, S)
  BY <1>3 DEF Injection, IsInjective
<1>5. IsFiniteSet(1..n) /\ Cardinality(1..n) = n
  BY <1>1, FS_Interval
<1>6. SetToSeq(S) \in Surjection(1..n, S)
  BY <1>4, <1>5, FS_Injection
<1>7. \A c \in S : \E i \in 1..n : SetToSeq(S)[i] = c
  BY <1>6 DEF Surjection
<1> QED  BY <1>1, <1>3, <1>7 DEF Range

\* The verification goes through the operations the state holds as required, all of
\* which are in its queue.
LEMMA StartVerificationHolds ==
    ASSUME GraphInv, NEW r \in Runs, StartVerification(r)
    PROVE  StepHolds(r)
<1> DEFINE s == run[r].state
           S == {c \in Controlled : s.mutation_operations[c] = "required"}
           x == [run[r] EXCEPT !.phase = "verifying", !.meta = s.mutation_operations,
                               !.queue = SetToSeq(S)]
           t == [s EXCEPT !.verification_required = FALSE, !.verification_blocked = FALSE]
<1>1. run[r].steps < StepLimit
  BY DEF StartVerification, AtNode
<1>2. s \in AgentState /\ StateHolds(s, approved)
  BY ReadyRun DEF RecordHolds
<1>3. CASE StopRequested(r)
  BY <1>3, StopLeaves
<1>4. CASE /\ run' = [run EXCEPT ![r].phase = "verifying",
                                 ![r].meta = s.mutation_operations, ![r].queue = SetToSeq(S)]
           /\ UNCHANGED <<phase, chat, graph, world>>
  <2>1. run' = [run EXCEPT ![r] = x]
    BY <1>4
  <2>2. IsFiniteSet(S) /\ S \subseteq Calls
    BY <1>2, GraphConstants DEF StateHolds, Required
  <2> HIDE DEF S
  <2>3. SetToSeq(S) \in Seq(Calls \cup MetaCalls)
    BY <2>2, SetToSeqLists
  <2>4. s.mutation_operations \in [Controlled -> OperationMeta]
    BY <1>2 DEF AgentState
  <2>5. /\ x \in RunRecord
        /\ x.phase = "verifying" /\ x.state = s /\ x.steps = run[r].steps
        /\ x.meta = s.mutation_operations /\ x.queue = SetToSeq(S)
    BY <2>3, <2>4, ReadyRun DEF RunRecord, Active, InNode
  <2>6. IsFiniteSet(Required(x.meta))
    BY <1>2, <2>5 DEF StateHolds
  <2>7. \A c \in Controlled : x.meta[c] = "required" => c \in Range(x.queue)
    BY <2>2, <2>5, SetToSeqLists DEF S
  <2> HIDE DEF x
  <2>8. LocalsHold(x, approved, StepLimit) /\ x.phase \in InNode
    BY <1>1, <2>5, <2>6, <2>7 DEF LocalsHold, InNode, InGate
  <2>9. ChatTyped'
    BY <1>4, ChatStays DEF world
  <2> QED  BY <1>4, <2>1, <2>5, <2>8, <2>9, InnerStep
<1>5. CASE /\ ~VerificationRequired(s)
           /\ Commit(r, t, route_after_verification(t))
           /\ UNCHANGED <<flags, phase, minted, chat, world>>
  <2>1. /\ t \in AgentState
        /\ t.approval_decisions = s.approval_decisions
        /\ t.mutation_operations = s.mutation_operations
        /\ ~t.verification_required /\ ~t.verification_blocked
    BY <1>2 DEF AgentState
  <2> HIDE DEF t
  <2>2. StateHolds(t, approved) /\ ~VerificationRequired(t)
    BY <1>2, <1>5, <2>1 DEF StateHolds, VerificationRequired
  <2>3. route_after_verification(t) = "model"
    BY <2>1 DEF route_after_verification
  <2>4. NodeHolds("model", t) /\ "model" \in Nodes
    BY <2>2 DEF NodeHolds, Nodes
  <2> QED  BY <1>1, <1>5, <2>2, <2>3, <2>4, NodeEnds
<1> QED  BY <1>3, <1>4, <1>5 DEF StartVerification

\* The node has a verdict about the first operation of its list, or notes that it
\* has none.
LEMMA VerifyNextHolds ==
    ASSUME GraphInv, NEW r \in Runs, VerifyNext(r)
    PROVE  StepHolds(r)
<1>1. PICK c \in Controlled, result \in Verdicts \cup {"inconclusive"} :
        /\ AtCall(r, "verifying", c)
        /\ \/ UNCHANGED phase
           \/ phase[c] = "settled" /\ result \in Verdicts
              /\ phase' = [phase EXCEPT ![c] = result]
        /\ run' = [run EXCEPT ![r].queue = Tail(@),
                              ![r].meta[c] = IF result = "inconclusive" THEN @ ELSE "settled",
                              ![r].unverified = @ \/ result # "passed"]
        /\ \E ms : Save(r, ms)
        /\ UNCHANGED <<graph, world>>
  BY DEF VerifyNext, SetCard
<1>2. /\ run[r].phase = "verifying" /\ run[r].queue # <<>> /\ Head(run[r].queue) = c
      /\ run[r].meta \in [Controlled -> OperationMeta]
      /\ run[r].queue \in Seq(Calls \cup MetaCalls)
      /\ run[r].unverified \in BOOLEAN
      /\ run[r] \in RunRecord
      /\ run[r].steps < StepLimit
      /\ IsFiniteSet(Required(run[r].meta))
      /\ \A d \in Controlled : run[r].meta[d] = "required" =>
            run[r].unverified \/ d \in Range(run[r].queue)
  BY <1>1, ReadyRun DEF AtCall, At, RunRecord, RecordHolds, LocalsHold, InNode
<1> DEFINE told == IF result = "inconclusive" THEN run[r].meta[c] ELSE "settled"
           meta == [run[r].meta EXCEPT ![c] = told]
           y == [run[r] EXCEPT !.queue = Tail(@)]
           z == [y EXCEPT !.meta = meta]
           x == [run[r] EXCEPT !.queue = Tail(@), !.meta = meta,
                               !.unverified = @ \/ result # "passed"]
<1>3. run' = [run EXCEPT ![r] = x]
  <2>1. run \in [Runs -> RunRecord]
    BY DEF GraphInv, RunsHold
  <2>2. [run EXCEPT ![r].queue = Tail(@)] = [run EXCEPT ![r] = y]
    BY <2>1
  <2>3. /\ y.meta = run[r].meta /\ y.unverified = run[r].unverified
        /\ z.unverified = run[r].unverified
    BY <1>2 DEF RunRecord
  <2>4. x = [z EXCEPT !.unverified = run[r].unverified \/ result # "passed"]
    BY <1>2 DEF RunRecord
  <2> HIDE DEF y, told
  <2>5. [run EXCEPT ![r] = y, ![r].meta[c] = told] = [run EXCEPT ![r] = z]
    BY <2>1, <2>3
  <2> HIDE DEF z
  <2>6. [run EXCEPT ![r] = z, ![r].unverified = run[r].unverified \/ result # "passed"]
           = [run EXCEPT ![r] = x]
    BY <2>1, <2>4
  <2> QED  BY <1>1, <2>2, <2>5, <2>6 DEF told
<1>4. meta \in [Controlled -> OperationMeta] /\ Required(meta) \subseteq Required(run[r].meta)
  BY <1>2 DEF OperationMeta, Required
<1>5. \A d \in Controlled : meta[d] = "required" =>
         run[r].unverified \/ result # "passed" \/ d \in Range(Tail(run[r].queue))
  <2> SUFFICES ASSUME NEW d \in Controlled, meta[d] = "required", ~run[r].unverified,
                      result = "passed"
               PROVE  d \in Range(Tail(run[r].queue))
    OBVIOUS
  <2>1. d # c /\ run[r].meta[d] = "required"
    BY <1>2
  <2>2. PICK i \in DOMAIN run[r].queue : run[r].queue[i] = d
    BY <1>2, <2>1 DEF Range
  <2>3. i # 1
    BY <1>2, <2>1, <2>2
  <2>4. i - 1 \in DOMAIN Tail(run[r].queue) /\ Tail(run[r].queue)[i - 1] = d
    BY <1>2, <2>2, <2>3
  <2> QED  BY <2>4 DEF Range
<1>6. Tail(run[r].queue) \in Seq(Calls \cup MetaCalls)
  BY <1>2
<1> HIDE DEF meta, told
<1>7. /\ x \in RunRecord
      /\ x.phase = "verifying" /\ x.state = run[r].state /\ x.steps = run[r].steps
      /\ x.meta = meta /\ x.queue = Tail(run[r].queue)
      /\ x.unverified = (run[r].unverified \/ result # "passed")
  BY <1>2, <1>4, <1>6 DEF RunRecord
<1>8. IsFiniteSet(Required(meta))
  BY <1>2, <1>4, FS_Subset
<1> HIDE DEF x, y, z
<1>9. LocalsHold(x, approved, StepLimit) /\ x.phase \in InNode
  BY <1>2, <1>5, <1>7, <1>8 DEF LocalsHold, InNode, InGate
<1>10. Moved(r)
  BY <1>3, <1>7, <1>9, InnerMoves
<1>11. CASE UNCHANGED phase
  BY <1>1, <1>10, <1>11, GateStep
<1>12. CASE phase[c] = "settled" /\ result \in Verdicts
               /\ phase' = [phase EXCEPT ![c] = result]
  <2>1. ChatTyped'
    BY <1>1, RunSaves DEF world
  <2>2. c \in approved
    BY <1>12 DEF GraphInv, OnlyApproved
  <2> QED  BY <1>1, <1>10, <1>12, <2>1, <2>2, PhaseStep
<1> QED  BY <1>1, <1>11, <1>12

\* Without an inconclusive verdict nothing is left to verify; with one the run ends
\* as an error.
LEMMA VerificationEndsHolds ==
    ASSUME GraphInv, NEW r \in Runs, VerificationEnds(r)
    PROVE  StepHolds(r)
<1> DEFINE verified == [run[r].state EXCEPT !.mutation_operations = run[r].meta]
           blocked == [verified EXCEPT !.verification_required = VerificationRequired(verified),
                                       !.verification_blocked = TRUE, !.error = TRUE]
           clear == [verified EXCEPT !.verification_required = FALSE,
                                     !.verification_blocked = FALSE, !.error = FALSE]
           s == IF run[r].unverified THEN blocked ELSE clear
<1>1. /\ run[r].phase = "verifying" /\ run[r].queue = <<>>
      /\ Commit(r, s, route_after_verification(s))
      /\ UNCHANGED <<flags, phase, minted, chat, world>>
  BY DEF VerificationEnds, At
<1>2. /\ run[r].steps < StepLimit
      /\ IsFiniteSet(Required(run[r].meta))
      /\ \A c \in Controlled : run[r].meta[c] = "required" => run[r].unverified
      /\ run[r].meta \in [Controlled -> OperationMeta]
      /\ StateHolds(run[r].state, approved)
  BY <1>1, ReadyRun DEF RecordHolds, LocalsHold, RunRecord, InNode, Range
<1>3. /\ verified \in AgentState
      /\ verified.mutation_operations = run[r].meta
      /\ verified.approval_decisions = run[r].state.approval_decisions
  BY <1>2 DEF StateHolds, AgentState
<1> HIDE DEF verified
<1>4. VerificationRequired(verified) \in BOOLEAN
  BY DEF VerificationRequired
<1>5. CASE run[r].unverified
  <2>1. /\ blocked \in AgentState
        /\ blocked.mutation_operations = verified.mutation_operations
        /\ blocked.approval_decisions = verified.approval_decisions
        /\ blocked.verification_required = VerificationRequired(verified)
        /\ blocked.verification_blocked = TRUE
        /\ blocked.error = TRUE
    BY <1>3, <1>4 DEF AgentState
  <2>2. s = blocked
    BY <1>5
  <2> HIDE DEF blocked, s
  <2>3. StateHolds(blocked, approved)
    BY <1>2, <1>3, <2>1 DEF StateHolds, VerificationRequired
  <2>4. route_after_verification(blocked) = "final"
    BY <2>1 DEF route_after_verification
  <2>5. NodeHolds("final", blocked) /\ "final" \in Nodes
    BY <2>1 DEF NodeHolds, Nodes
  <2> QED  BY <1>1, <1>2, <2>2, <2>3, <2>4, <2>5, NodeEnds
<1>6. CASE ~run[r].unverified
  <2>1. /\ clear \in AgentState
        /\ clear.mutation_operations = verified.mutation_operations
        /\ clear.approval_decisions = verified.approval_decisions
        /\ clear.verification_required = FALSE
        /\ clear.verification_blocked = FALSE
    BY <1>3 DEF AgentState
  <2>2. s = clear
    BY <1>6
  <2> HIDE DEF clear, s
  <2>3. ~VerificationRequired(clear)
    BY <1>2, <1>3, <1>6, <2>1 DEF VerificationRequired
  <2>4. StateHolds(clear, approved)
    BY <1>2, <1>3, <2>1, <2>3 DEF StateHolds
  <2>5. route_after_verification(clear) = "model"
    BY <2>1 DEF route_after_verification
  <2>6. NodeHolds("model", clear) /\ "model" \in Nodes
    BY <2>3 DEF NodeHolds, Nodes
  <2> QED  BY <1>1, <1>2, <2>2, <2>4, <2>5, <2>6, NodeEnds
<1> QED  BY <1>2, <1>5, <1>6 DEF RunRecord

-----------------------------------------------------------------------------
(* The end of a run *)

\* A run that ends leaves its state as it is.
LEMMA FinalHolds ==
    ASSUME GraphInv, NEW r \in Runs, Final(r) \/ RecursionLimit(r)
    PROVE  StepHolds(r)
<1>1. End(r) /\ UNCHANGED <<checkpoint, phase, minted, chat, world>>
  BY DEF Final, RecursionLimit
<1>2. Moved(r) /\ flags' \subseteq Runs
  BY <1>1, EndMoves DEF End, GraphInv, SharedTyped
<1>3. ChatTyped'
  BY <1>1, ChatStays DEF world
<1>4. StateHolds(checkpoint', approved) /\ minted' \subseteq Calls
  BY <1>1 DEF GraphInv, SharedTyped
<1> QED  BY <1>1, <1>2, <1>3, <1>4, QuietStep

\* A node that raises ends the run; the checkpoint is that of the node before.
LEMMA NodeFailsHolds ==
    ASSUME GraphInv, NEW r \in Runs, NodeFails(r)
    PROVE  StepHolds(r)
<1>1. /\ End(r) /\ faults < bounds.faults /\ faults' = faults + 1
      /\ UNCHANGED <<checkpoint, phase, owner, chat, stop, minted, approved, bounds>>
  BY DEF NodeFails
<1>2. Moved(r) /\ flags' \subseteq Runs
  BY <1>1, EndMoves DEF End, GraphInv, SharedTyped
<1>3. ChatTyped'
  BY <1>1, ChatStays
<1>4. faults' \in 0..bounds.faults
  BY <1>1, BoundsAreNumbers DEF GraphInv, SharedTyped
<1>5. StateHolds(checkpoint', approved) /\ SharedTyped'
  BY <1>1, <1>2, <1>4 DEF GraphInv, SharedTyped
<1>6. PhaseTyped' /\ OnlyApproved'
  BY <1>1 DEF GraphInv, PhaseTyped, OnlyApproved
<1> QED  BY <1>1, <1>2, <1>3, <1>5, <1>6 DEF StepHolds

\* The operation whose call was in flight is in the journal, and so is approved.
LEMMA CancelledHolds ==
    ASSUME GraphInv, NEW r \in Runs, Cancelled(r)
    PROVE  StepHolds(r)
<1>1. /\ End(r)
      /\ late' = IF late.by = r THEN NoSave ELSE late
      /\ \/ UNCHANGED phase
         \/ \E c \in Controlled : phase[c] = "launched" /\ phase' = [phase EXCEPT ![c] = "settled"]
      /\ UNCHANGED <<checkpoint, minted, messages, lateSaves, world>>
  BY DEF Cancelled
<1>2. Moved(r) /\ flags' \subseteq Runs
  BY <1>1, EndMoves DEF End, GraphInv, SharedTyped
<1>3. UNCHANGED <<owner, stop, approved, faults, bounds>>
  BY <1>1 DEF world
<1>4. ChatTyped'
  BY <1>1, <1>3 DEF GraphInv, ChatTyped
<1>5. StateHolds(checkpoint', approved) /\ SharedTyped'
  BY <1>1, <1>2, <1>3 DEF GraphInv, SharedTyped
<1>6. PhaseTyped' /\ \A c \in Controlled : phase'[c] # "none" => phase[c] # "none"
  <2>1. CASE UNCHANGED phase
    BY <2>1 DEF GraphInv, PhaseTyped
  <2>2. ASSUME NEW c \in Controlled, phase[c] = "launched",
               phase' = [phase EXCEPT ![c] = "settled"]
        PROVE  PhaseTyped' /\ \A d \in Controlled : phase'[d] # "none" => phase[d] # "none"
    BY <2>2 DEF GraphInv, PhaseTyped
  <2> QED  BY <1>1, <2>1, <2>2
<1>7. OnlyApproved'
  BY <1>3, <1>6 DEF GraphInv, OnlyApproved
<1> QED  BY <1>2, <1>3, <1>4, <1>5, <1>6, <1>7 DEF StepHolds

\* Whatever step a run takes.
LEMMA RunStepHolds ==
    ASSUME GraphInv, NEW r \in Runs, RunStep(r) \/ NodeFails(r)
    PROVE  StepHolds(r) /\ IsActive(r)
<1>1. CASE Start(r) \/ Entry(r) \/ MemoryPrepare(r) \/ ModelNode(r)
  BY <1>1, StartHolds, EntryHolds, MemoryPrepareHolds, ModelNodeHolds
  DEF Start, Entry, MemoryPrepare, ModelNode, AtNode, At, Ready
<1>2. CASE ModelTurn(r) \/ ModelFails(r) \/ Gate(r)
  BY <1>2, ModelTurnHolds, ModelFailsHolds, GateHolds
  DEF ModelTurn, ModelFails, Gate, AtNode, At, Ready
<1>3. CASE LoadsToolset(r) \/ Refuse(r) \/ ExecuteRead(r) \/ ReadReturns(r)
  BY <1>3, LoadsToolsetHolds, RefuseHolds, ReadHolds
  DEF LoadsToolset, Refuse, ExecuteRead, ReadReturns, AtCall, At, Ready
<1>4. CASE AskApproval(r) \/ PauseForApproval(r) \/ Deny(r) \/ Approved(r)
  BY <1>4, AskApprovalHolds, GateEndsHolds, DenyHolds, ApprovedHolds
  DEF AskApproval, PauseForApproval, Deny, Approved, AtCall, At, Ready
<1>5. CASE Prepare(r) \/ MarkExecuting(r) \/ MutationReturns(r) \/ GateEnds(r)
  BY <1>5, PrepareHolds, MarkExecutingHolds, MutationReturnsHolds, GateEndsHolds
  DEF Prepare, MarkExecuting, MutationReturns, GateEnds, AtCall, At, Ready
<1>6. CASE StartVerification(r) \/ VerifyNext(r) \/ VerificationEnds(r)
  BY <1>6, StartVerificationHolds, VerifyNextHolds, VerificationEndsHolds
  DEF StartVerification, VerifyNext, VerificationEnds, AtCall, AtNode, At, Ready
<1>7. CASE Final(r) \/ RecursionLimit(r)
  BY <1>7, FinalHolds DEF Final, RecursionLimit, AtNode, At, Ready
<1>8. CASE Cancelled(r) \/ NodeFails(r)
  BY <1>8, CancelledHolds, NodeFailsHolds DEF Cancelled, NodeFails, Ready
<1> QED  BY <1>1, <1>2, <1>3, <1>4, <1>5, <1>6, <1>7, <1>8 DEF RunStep

-----------------------------------------------------------------------------
(* The steps of requests, of Stop and of the surroundings *)

\* An accepted run starts from an input that holds; what the user approves with it
\* is approved.
LEMMA AcceptHolds ==
    ASSUME GraphInv, NEW r \in Runs, NEW s, Accept(r, s), StateHolds(s, approved'),
           approved \subseteq approved', approved' \subseteq Controlled, ChatTyped'
    PROVE  GraphInv'
<1> DEFINE x == [IdleRun EXCEPT !.phase = "starting", !.state = s]
<1>1. /\ run[r].phase = "idle"
      /\ run' = [run EXCEPT ![r] = x]
      /\ UNCHANGED <<checkpoint, flags, phase, owner, stop, minted, faults, bounds>>
  BY DEF Accept, IsNext
<1>2. /\ IdleRun \in RunRecord
      /\ bounds \in Scenarios
  <2>1. bounds \in Scenarios /\ StepLimit \in Nat
    BY ReadyRun
  <2> QED  BY <2>1, FreshHolds DEF IdleRun, RunRecord, StateHolds
<1>3. x \in RunRecord /\ x.phase = "starting" /\ x.state = s
  BY <1>2 DEF RunRecord, StateHolds, Active, Nodes
<1> HIDE DEF x
<1>4. RecordHolds(x, approved', StepLimit)
  BY <1>3 DEF RecordHolds, NodeHolds, LocalsHold, InNode, InGate
<1>5. run \in [Runs -> RunRecord] /\ \A t \in Runs : RecordHolds(run[t], approved', StepLimit)
  BY ApprovalsOnlyHelp DEF GraphInv, RunsHold
<1>6. RunRecord' = RunRecord /\ StepLimit' = StepLimit
  BY <1>1 DEF RunRecord, StepLimit
<1>7. RunsHold'
  <2>1. run' \in [Runs -> RunRecord]
    BY <1>1, <1>3, <1>5
  <2>2. \A t \in Runs : RecordHolds(run'[t], approved', StepLimit)
    BY <1>1, <1>4, <1>5
  <2> QED  BY <1>6, <2>1, <2>2 DEF RunsHold
<1>8. StopsHold'
  <2>1. StopsHold
    BY DEF GraphInv
  <2>2. stop[r].stage = "none"
    BY <1>1, <2>1 DEF StopsHold
  <2>3. \A t \in Runs \ {r} : run'[t] = run[t]
    BY <1>1, <1>5
  <2>4. run'[r].phase # "idle"
    BY <1>1, <1>3, <1>5
  <2>5. \A t \in Runs : stop'[t].stage # "none" => run'[t].phase # "idle"
    BY <1>1, <2>1, <2>2, <2>3, <2>4 DEF StopsHold
  <2>6. \A t \in Runs : stop'[t].stage \in {"cards", "journal", "done"} /\ ~stop'[t].partial =>
                           run'[t].phase \notin Active
    BY <1>1, <2>1, <2>2, <2>3 DEF StopsHold, IsActive
  <2> QED  BY <1>1, <2>1, <2>5, <2>6 DEF StopsHold, IsActive
<1>9. StateHolds(checkpoint', approved')
  BY <1>1, ApprovalsOnlyHelp DEF GraphInv
<1>10. PhaseTyped' /\ OnlyApproved' /\ SharedTyped'
  BY <1>1 DEF GraphInv, PhaseTyped, OnlyApproved, SharedTyped
<1> QED  BY <1>7, <1>8, <1>9, <1>10 DEF GraphInv

\* A message of the user begins a run with a state without decisions.
LEMMA ChatHolds ==
    ASSUME GraphInv, NEW r \in Runs, Chat(r)
    PROVE  GraphInv'
<1>1. Accept(r, FreshState) /\ approved' = approved /\ \E ms : Save(r, ms)
  BY DEF Chat
<1>2. ChatTyped'
  BY <1>1, RunSaves DEF Accept
<1>3. StateHolds(FreshState, approved') /\ approved' \subseteq Controlled
  BY <1>1, FreshHolds, ReadyRun DEF GraphInv, SharedTyped
<1> QED  BY <1>1, <1>2, <1>3, AcceptHolds

\* A decision about one call approves that call, and no other.
LEMMA DecideApprovalHolds ==
    ASSUME GraphInv, NEW r \in Runs, DecideApproval(r)
    PROVE  GraphInv'
<1>1. PICK c \in Controlled, d \in {"yes", "no"} :
        /\ Accept(r, [FreshState EXCEPT !.suppress_pending_event = TRUE,
                                        !.approval_decisions[c] = d])
        /\ IF d = "yes"
           THEN approved' = approved \cup {c} /\ UNCHANGED chat
           ELSE Save(r, UpdateToolSegmentStatus(messages, c, "denied", FALSE)) /\ UNCHANGED approved
  BY DEF DecideApproval
<1> DEFINE decisions == [FreshState.approval_decisions EXCEPT ![c] = d]
           s == [FreshState EXCEPT !.suppress_pending_event = TRUE,
                                   !.approval_decisions[c] = d]
<1>2. StateHolds(FreshState, approved') /\ ~VerificationRequired(FreshState)
  BY FreshHolds, ReadyRun
<1>3. c \in Calls /\ FreshState.approval_decisions = [e \in Calls |-> "none"]
  BY GraphConstants DEF FreshState, NoDecisions
<1>4. /\ decisions \in [Calls -> {"none", "yes", "no"}]
      /\ \A e \in Calls : decisions[e] = "yes" => e = c /\ d = "yes"
  BY <1>3
<1> HIDE DEF decisions
<1>5. /\ s \in AgentState
      /\ s.approval_decisions = decisions
      /\ s.mutation_operations = FreshState.mutation_operations
  BY <1>2, <1>4 DEF StateHolds, AgentState, decisions
<1>6. Accept(r, s)
  BY <1>1
<1> HIDE DEF s
<1>7. approved \subseteq approved' /\ approved' \subseteq Controlled
          /\ (d = "yes" => c \in approved')
  BY <1>1 DEF GraphInv, SharedTyped
<1>8. StateHolds(s, approved')
  BY <1>2, <1>4, <1>5, <1>7, GraphConstants DEF StateHolds, VerificationRequired
<1>9. ChatTyped'
  <2>1. UNCHANGED bounds /\ (UNCHANGED chat \/ \E ms : Save(r, ms))
    BY <1>1 DEF Accept
  <2> QED  BY <2>1, RunSaves
<1> QED  BY <1>6, <1>7, <1>8, <1>9, AcceptHolds

\* A step that leaves the runs, their checkpoint, what is approved and the bounds.
LEMMA AroundTheRuns ==
    ASSUME GraphInv, UNCHANGED <<checkpoint, run, approved, bounds>>,
           ChatTyped', PhaseTyped', SharedTyped', StopsHold',
           \A c \in Controlled : phase'[c] # "none" => phase[c] # "none"
    PROVE  GraphInv'
<1>1. StateHolds(checkpoint', approved')
  BY DEF GraphInv
<1>2. RunRecord' = RunRecord /\ StepLimit' = StepLimit
  BY DEF RunRecord, StepLimit
<1>3. RunsHold'
  BY <1>2 DEF GraphInv, RunsHold
<1>4. OnlyApproved'
  BY DEF GraphInv, OnlyApproved
<1> QED  BY <1>1, <1>3, <1>4 DEF GraphInv

\* One stop gets on: it gets past the task only when the task has ended, or when it
\* reports itself as partial.
LEMMA StopMoves ==
    ASSUME StopsHold, NEW r \in Runs, run[r].phase # "idle", UNCHANGED run,
           NEW x \in [stage : StopStages, partial : BOOLEAN],
           stop' = [stop EXCEPT ![r] = x],
           x.stage \in {"cards", "journal", "done"} /\ ~x.partial => ~IsActive(r)
    PROVE  StopsHold'
<1>1. stop' \in [Runs -> [stage : StopStages, partial : BOOLEAN]]
  BY DEF StopsHold
<1>2. stop'[r] = x /\ \A t \in Runs \ {r} : stop'[t] = stop[t]
  BY DEF StopsHold
<1>3. \A t \in Runs : stop'[t].stage # "none" => run'[t].phase # "idle"
  BY <1>2 DEF StopsHold
<1>4. \A t \in Runs : stop'[t].stage \in {"cards", "journal", "done"} /\ ~stop'[t].partial =>
                         run'[t].phase \notin Active
  BY <1>2 DEF StopsHold, IsActive
<1> QED  BY <1>1, <1>3, <1>4 DEF StopsHold, IsActive

\* The stages of one stop as records.
LEMMA StopRecords ==
    ASSUME StopsHold, NEW r \in Runs, NEW stage \in StopStages
    PROVE  /\ StopTo(r, stage) =>
                 \E x \in [stage : StopStages, partial : BOOLEAN] :
                    /\ x.stage = stage /\ x.partial = stop[r].partial
                    /\ stop' = [stop EXCEPT ![r] = x]
           /\ StopPartialTo(r, stage) =>
                 \E x \in [stage : StopStages, partial : BOOLEAN] :
                    /\ x.stage = stage /\ x.partial
                    /\ stop' = [stop EXCEPT ![r] = x]
<1>1. stop \in [Runs -> [stage : StopStages, partial : BOOLEAN]]
  BY DEF StopsHold
<1>2. ASSUME StopTo(r, stage)
      PROVE  \E x \in [stage : StopStages, partial : BOOLEAN] :
                /\ x.stage = stage /\ x.partial = stop[r].partial
                /\ stop' = [stop EXCEPT ![r] = x]
  <2> DEFINE x == [stop[r] EXCEPT !.stage = stage]
  <2>1. /\ x \in [stage : StopStages, partial : BOOLEAN]
        /\ x.stage = stage /\ x.partial = stop[r].partial
    BY <1>1
  <2>2. stop' = [stop EXCEPT ![r] = x]
    BY <1>2 DEF StopTo
  <2> HIDE DEF x
  <2> QED  BY <2>1, <2>2
<1>3. ASSUME StopPartialTo(r, stage)
      PROVE  \E x \in [stage : StopStages, partial : BOOLEAN] :
                /\ x.stage = stage /\ x.partial
                /\ stop' = [stop EXCEPT ![r] = x]
  <2> DEFINE x == [stop[r] EXCEPT !.stage = stage, !.partial = TRUE]
  <2>1. /\ x \in [stage : StopStages, partial : BOOLEAN]
        /\ x.stage = stage /\ x.partial
    BY <1>1
  <2>2. stop' = [stop EXCEPT ![r] = x]
    BY <1>1, <1>3 DEF StopPartialTo
  <2> HIDE DEF x
  <2> QED  BY <2>1, <2>2
<1> QED  BY <1>2, <1>3

\* A stop begins for a run that began; it marks the run and goes on, even when the mark
\* cannot be written.
LEMMA RequestStopHolds ==
    ASSUME GraphInv, NEW r \in Runs, RequestStop(r)
    PROVE  GraphInv'
<1>1. /\ run[r].phase # "idle"
      /\ StopTo(r, "cancelling") \/ StopPartialTo(r, "cancelling")
      /\ flags' \subseteq flags \cup {r}
      /\ UNCHANGED faults \/ (faults < bounds.faults /\ faults' = faults + 1)
      /\ UNCHANGED <<checkpoint, run, phase, owner, chat, minted, approved, bounds>>
  BY DEF RequestStop
<1>2. "cancelling" \in StopStages
  BY DEF StopStages
<1>3. PICK x \in [stage : StopStages, partial : BOOLEAN] :
         x.stage = "cancelling" /\ stop' = [stop EXCEPT ![r] = x]
  BY <1>1, <1>2, StopRecords DEF GraphInv
<1>4. StopsHold'
  BY <1>1, <1>3, StopMoves DEF GraphInv
<1>5. faults' \in 0..bounds.faults
  BY <1>1, BoundsAreNumbers DEF GraphInv, SharedTyped
<1>6. ChatTyped' /\ PhaseTyped' /\ SharedTyped'
  BY <1>1, <1>5, ChatStays DEF GraphInv, SharedTyped, PhaseTyped
<1> QED  BY <1>1, <1>4, <1>6, AroundTheRuns

\* The task of the run is told to stop: that moves the run, and nothing it relies on.
LEMMA CancelWorkflowTaskHolds ==
    ASSUME GraphInv, NEW r \in Runs, CancelWorkflowTask(r)
    PROVE  GraphInv'
<1>1. /\ stop[r].stage = "cancelling"
      /\ UNCHANGED <<checkpoint, flags, phase, owner, chat, minted, approved, faults, bounds>>
  BY DEF CancelWorkflowTask
<1>2. run[r].phase # "idle" /\ StopsHold
  BY <1>1 DEF GraphInv, StopsHold
<1>3. ChatTyped' /\ PhaseTyped' /\ SharedTyped' /\ OnlyApproved'
  BY <1>1, ChatStays DEF GraphInv, SharedTyped, PhaseTyped, OnlyApproved
<1>4. {"waiting", "cards"} \subseteq StopStages
  BY DEF StopStages
<1>5. CASE ~IsActive(r) /\ UNCHANGED run /\ StopTo(r, "cards")
  <2>1. PICK x \in [stage : StopStages, partial : BOOLEAN] :
           x.stage = "cards" /\ stop' = [stop EXCEPT ![r] = x]
    BY <1>2, <1>4, <1>5, StopRecords
  <2>2. StopsHold'
    BY <1>2, <1>5, <2>1, StopMoves
  <2> QED  BY <1>1, <1>3, <1>5, <2>2, AroundTheRuns
<1>6. CASE IsActive(r) /\ run' = [run EXCEPT ![r].doomed = TRUE] /\ StopTo(r, "waiting")
  <2> DEFINE y == [run[r] EXCEPT !.doomed = TRUE]
  <2>1. run' = [run EXCEPT ![r] = y]
    BY <1>6
  <2>2. /\ y \in RunRecord /\ y.phase = run[r].phase /\ y.state = run[r].state
        /\ y.steps = run[r].steps /\ y.meta = run[r].meta /\ y.queue = run[r].queue
        /\ y.required = run[r].required /\ y.unverified = run[r].unverified
    BY ReadyRun DEF RunRecord
  <2> HIDE DEF y
  <2>3. RecordHolds(y, approved, StepLimit)
    BY <2>2, ReadyRun DEF RecordHolds, NodeHolds, LocalsHold
  <2>4. run \in [Runs -> RunRecord] /\ RunRecord' = RunRecord /\ StepLimit' = StepLimit
    BY <1>1 DEF GraphInv, RunsHold, RunRecord, StepLimit
  <2>5. RunsHold'
    <3>1. run' \in [Runs -> RunRecord] /\ \A t \in Runs : run'[t] = IF t = r THEN y ELSE run[t]
      BY <2>1, <2>2, <2>4
    <3>2. \A t \in Runs : RecordHolds(run'[t], approved', StepLimit')
      BY <1>1, <2>3, <2>4, <3>1 DEF GraphInv, RunsHold
    <3> QED  BY <2>4, <3>1, <3>2 DEF RunsHold
  <2>6. PICK x \in [stage : StopStages, partial : BOOLEAN] :
           x.stage = "waiting" /\ stop' = [stop EXCEPT ![r] = x]
    BY <1>2, <1>4, <1>6, StopRecords
  <2>7. StopsHold'
    <3>1. \A t \in Runs : run'[t].phase = run[t].phase
      BY <2>1, <2>2, <2>4
    <3>2. stop' \in [Runs -> [stage : StopStages, partial : BOOLEAN]]
      BY <1>2, <2>6 DEF StopsHold
    <3>3. stop'[r] = x /\ \A t \in Runs \ {r} : stop'[t] = stop[t]
      BY <1>2, <2>6 DEF StopsHold
    <3>4. \A t \in Runs : stop'[t].stage # "none" => run'[t].phase # "idle"
      BY <1>2, <3>1, <3>3 DEF StopsHold
    <3>5. \A t \in Runs : stop'[t].stage \in {"cards", "journal", "done"} /\ ~stop'[t].partial
                             => run'[t].phase \notin Active
      BY <1>2, <2>6, <3>1, <3>3 DEF StopsHold, IsActive
    <3> QED  BY <3>2, <3>4, <3>5 DEF StopsHold, IsActive
  <2>8. StateHolds(checkpoint', approved')
    BY <1>1 DEF GraphInv
  <2> QED  BY <1>3, <2>5, <2>7, <2>8 DEF GraphInv
<1> QED  BY <1>5, <1>6 DEF CancelWorkflowTask, Registered

\* The stop gets past the task when the task is done, or else notes it is partial.
LEMMA TaskCancelledHolds ==
    ASSUME GraphInv, NEW r \in Runs, TaskCancelled(r)
    PROVE  GraphInv'
<1>1. /\ stop[r].stage = "waiting"
      /\ \/ ~IsActive(r) /\ StopTo(r, "cards") /\ UNCHANGED faults
         \/ faults < bounds.faults /\ faults' = faults + 1 /\ StopPartialTo(r, "cards")
      /\ UNCHANGED <<checkpoint, run, flags, phase, owner, chat, minted, approved, bounds>>
  BY DEF TaskCancelled
<1>2. run[r].phase # "idle" /\ StopsHold /\ "cards" \in StopStages
  BY <1>1 DEF GraphInv, StopsHold, StopStages
<1>3. PICK x \in [stage : StopStages, partial : BOOLEAN] :
         x.stage = "cards" /\ (~IsActive(r) \/ x.partial) /\ stop' = [stop EXCEPT ![r] = x]
  BY <1>1, <1>2, StopRecords
<1>4. StopsHold'
  BY <1>1, <1>2, <1>3, StopMoves
<1>5. faults' \in 0..bounds.faults
  BY <1>1, BoundsAreNumbers DEF GraphInv, SharedTyped
<1>6. ChatTyped' /\ PhaseTyped' /\ SharedTyped'
  BY <1>1, <1>5, ChatStays DEF GraphInv, SharedTyped, PhaseTyped
<1> QED  BY <1>1, <1>4, <1>6, AroundTheRuns

\* The cards of a stopped run are cancelled in the messages; the run stays ended.
LEMMA CancelActiveToolsHolds ==
    ASSUME GraphInv, NEW r \in Runs, CancelActiveTools(r)
    PROVE  GraphInv'
<1>1. /\ stop[r].stage = "cards"
      /\ Save(StopOf(r), CancelActiveToolSegments(messages, r))
      /\ StopTo(r, "journal")
      /\ UNCHANGED <<checkpoint, run, flags, phase, owner, minted, approved, faults, bounds>>
  BY DEF CancelActiveTools
<1>2. run[r].phase # "idle" /\ StopsHold /\ "journal" \in StopStages
  BY <1>1 DEF GraphInv, StopsHold, StopStages
<1>3. stop[r].partial \/ ~IsActive(r)
  BY <1>1, <1>2 DEF StopsHold
<1>4. PICK x \in [stage : StopStages, partial : BOOLEAN] :
         x.partial = stop[r].partial /\ stop' = [stop EXCEPT ![r] = x]
  BY <1>1, <1>2, StopRecords
<1>5. StopsHold'
  BY <1>1, <1>2, <1>3, <1>4, StopMoves
<1>6. ChatTyped'
  BY <1>1, SaveTyped DEF Writers
<1>7. PhaseTyped' /\ SharedTyped'
  BY <1>1 DEF GraphInv, SharedTyped, PhaseTyped
<1> QED  BY <1>1, <1>5, <1>6, <1>7, AroundTheRuns

\* Stop withdraws or settles operations, and admits none.
LEMMA ConvergeStoppedRunHolds ==
    ASSUME GraphInv, NEW r \in Runs, ConvergeStoppedRun(r)
    PROVE  GraphInv'
<1>1. /\ stop[r].stage = "journal"
      /\ phase' = [c \in Controlled |->
                      IF owner[c] # r THEN phase[c]
                      ELSE IF phase[c] = "admitted" THEN "withdrawn"
                      ELSE IF phase[c] = "launched" THEN "settled" ELSE phase[c]]
      /\ StopTo(r, "done")
      /\ UNCHANGED <<checkpoint, run, flags, owner, chat, minted, approved, faults, bounds>>
  BY DEF ConvergeStoppedRun
<1>2. run[r].phase # "idle" /\ StopsHold /\ "done" \in StopStages
  BY <1>1 DEF GraphInv, StopsHold, StopStages
<1>3. stop[r].partial \/ ~IsActive(r)
  BY <1>1, <1>2 DEF StopsHold
<1>4. PICK x \in [stage : StopStages, partial : BOOLEAN] :
         x.partial = stop[r].partial /\ stop' = [stop EXCEPT ![r] = x]
  BY <1>1, <1>2, StopRecords
<1>5. StopsHold'
  BY <1>1, <1>2, <1>3, <1>4, StopMoves
<1>6. PhaseTyped' /\ \A c \in Controlled : phase'[c] # "none" => phase[c] # "none"
  BY <1>1 DEF GraphInv, PhaseTyped
<1>7. ChatTyped' /\ SharedTyped'
  BY <1>1, ChatStays DEF GraphInv, SharedTyped
<1> QED  BY <1>1, <1>5, <1>6, <1>7, AroundTheRuns

\* Saves that land late and the recovery worker do not touch the runs.
LEMMA SurroundingsHold ==
    ASSUME GraphInv, LateSave \/ ReadForTitle \/ WorkerStep
    PROVE  GraphInv'
<1>1. UNCHANGED <<checkpoint, run, flags, owner, stop, minted, approved, bounds>>
  BY DEF LateSave, ReadForTitle, WorkerStep, RecoverStaleExecution, SelectBatch,
         VerifySelected, PublishRecovered, world
<1>2. StopsHold'
  BY <1>1 DEF GraphInv, StopsHold, IsActive
<1>3. SharedTyped'
  <2>1. UNCHANGED faults \/ (faults < bounds.faults /\ faults' = faults + 1)
    BY DEF LateSave, ReadForTitle, WorkerStep, RecoverStaleExecution, SelectBatch,
           VerifySelected, PublishRecovered, world
  <2>2. faults' \in 0..bounds.faults
    BY <2>1, BoundsAreNumbers DEF GraphInv, SharedTyped
  <2> QED  BY <1>1, <2>2 DEF GraphInv, SharedTyped
<1>4. ChatTyped'
  <2>1. CASE LateSave
    BY <2>1 DEF LateSave, GraphInv, ChatTyped
  <2>2. CASE ReadForTitle
    <3>1. lateSaves < bounds.lateSaves /\ lateSaves' = lateSaves + 1 /\ late'.by = Title
      BY <2>2 DEF ReadForTitle
    <3> QED  BY <1>1, <3>1, BoundsAreNumbers DEF GraphInv, ChatTyped, Writers, SharedTyped
  <2>3. CASE RecoverStaleExecution \/ SelectBatch \/ VerifySelected
    BY <2>3, ChatStays DEF RecoverStaleExecution, SelectBatch, VerifySelected, world
  <2>4. CASE PublishRecovered
    <3>1. Worker \in Writers
      BY DEF Writers
    <3>2. CASE UNCHANGED chat
      BY <1>1, <3>2, ChatStays
    <3>3. ASSUME NEW ms, Save(Worker, ms) PROVE ChatTyped'
      BY <1>1, <3>1, <3>3, SaveTyped
    <3> QED  BY <2>4, <3>2, <3>3 DEF PublishRecovered
  <2> QED  BY <2>1, <2>2, <2>3, <2>4 DEF WorkerStep
<1>5. PhaseTyped' /\ \A c \in Controlled : phase'[c] # "none" => phase[c] # "none"
  <2>1. CASE UNCHANGED phase
    BY <2>1 DEF GraphInv, PhaseTyped
  <2>2. ASSUME NEW c \in Controlled, phase[c] # "none", NEW p \in {"settled"} \cup Verdicts,
               phase' = [phase EXCEPT ![c] = p]
        PROVE  PhaseTyped' /\ \A d \in Controlled : phase'[d] # "none" => phase[d] # "none"
    BY <2>2 DEF GraphInv, PhaseTyped
  <2>3. CASE LateSave \/ ReadForTitle \/ SelectBatch \/ PublishRecovered
    BY <2>1, <2>3 DEF LateSave, ReadForTitle, SelectBatch, PublishRecovered
  <2>4. CASE RecoverStaleExecution
    BY <2>2, <2>4 DEF RecoverStaleExecution
  <2>5. CASE VerifySelected
    BY <2>1, <2>2, <2>5 DEF VerifySelected
  <2> QED  BY <2>3, <2>4, <2>5 DEF WorkerStep
<1> QED  BY <1>1, <1>2, <1>3, <1>4, <1>5, AroundTheRuns

\* A crash ends the runs that were active and leaves the checkpoint and the journal.
LEMMA CrashHolds ==
    ASSUME GraphInv, Crash
    PROVE  GraphInv'
<1>1. /\ faults < bounds.faults /\ faults' = faults + 1
      /\ run' = [r \in Runs |-> IF IsActive(r) THEN Ended ELSE run[r]]
      /\ stop' = [r \in Runs |->
                    IF stop[r].stage \in {"none", "done"} THEN stop[r]
                    ELSE [stage |-> "done", partial |-> TRUE]]
      /\ flags' = {} /\ late' = NoSave
      /\ UNCHANGED <<checkpoint, phase, owner, minted, approved, lateSaves, bounds>>
  BY DEF Crash
<1>2. bounds \in Scenarios /\ StepLimit \in Nat
  BY ReadyRun, BoundsAreNumbers DEF GraphInv, SharedTyped
<1>3. IdleRun \in RunRecord /\ IdleRun.state = FreshState
  BY <1>2, FreshHolds DEF IdleRun, RunRecord, StateHolds
<1>4. Ended \in RunRecord /\ Ended.phase = "done" /\ Ended.state = FreshState
  BY <1>3 DEF Ended, RunRecord
<1>5. RecordHolds(Ended, approved, StepLimit)
  BY <1>2, <1>4, FreshHolds DEF RecordHolds, NodeHolds, LocalsHold, InNode, InGate
<1>6. RunRecord' = RunRecord /\ StepLimit' = StepLimit
  BY <1>1 DEF RunRecord, StepLimit
<1>7. RunsHold'
  <2>1. run' \in [Runs -> RunRecord]
    BY <1>1, <1>4 DEF GraphInv, RunsHold
  <2>2. \A r \in Runs : RecordHolds(run'[r], approved', StepLimit')
    BY <1>1, <1>5, <1>6 DEF GraphInv, RunsHold
  <2> QED  BY <1>6, <2>1, <2>2 DEF RunsHold
<1>8. \A r \in Runs : run'[r].phase \notin Active /\ (run[r].phase # "idle" => run'[r].phase # "idle")
  <2>1. "done" \notin Active
    BY DEF Active, Nodes, InNode
  <2> QED  BY <1>1, <1>4, <2>1 DEF IsActive
<1>9. StopsHold'
  <2>1. stop' \in [Runs -> [stage : StopStages, partial : BOOLEAN]]
    BY <1>1 DEF GraphInv, StopsHold, StopStages
  <2>2. \A r \in Runs : stop'[r].stage # "none" => run'[r].phase # "idle"
    BY <1>1, <1>8 DEF GraphInv, StopsHold
  <2> QED  BY <1>8, <2>1, <2>2 DEF StopsHold, IsActive
<1>10. ChatTyped' /\ PhaseTyped' /\ OnlyApproved'
  BY <1>1 DEF GraphInv, ChatTyped, PhaseTyped, OnlyApproved
<1>11. SharedTyped'
  <2>1. faults' \in 0..bounds.faults
    BY <1>1, <1>2, BoundsAreNumbers DEF GraphInv, SharedTyped
  <2> QED  BY <1>1, <2>1 DEF GraphInv, SharedTyped
<1>12. StateHolds(checkpoint', approved')
  BY <1>1 DEF GraphInv
<1> QED  BY <1>7, <1>9, <1>10, <1>11, <1>12 DEF GraphInv

-----------------------------------------------------------------------------
(* The theorems *)

\* The conversation starts with nothing to verify, nothing approved and no run.
LEMMA InitHolds ==
    ASSUME Init
    PROVE  GraphInv
<1>1. bounds \in Scenarios /\ StepLimit \in Nat /\ bounds.lateSaves \in Nat /\ bounds.faults \in Nat
  BY BoundsAreNumbers DEF Init
<1>2. IdleRun \in RunRecord /\ IdleRun.state = FreshState /\ IdleRun.phase = "idle"
  BY <1>1, FreshHolds DEF IdleRun, RunRecord, StateHolds
<1>3. RecordHolds(IdleRun, approved, StepLimit)
  BY <1>1, <1>2, FreshHolds DEF RecordHolds, NodeHolds, LocalsHold, InNode, InGate
<1>4. RunsHold
  BY <1>2, <1>3 DEF Init, RunsHold
<1>5. StopsHold
  BY <1>2 DEF Init, StopsHold, StopStages
<1>6. ChatTyped /\ PhaseTyped /\ OnlyApproved /\ SharedTyped
  BY <1>1 DEF Init, ChatTyped, PhaseTyped, OnlyApproved, SharedTyped, NoSave
<1>7. StateHolds(checkpoint, approved)
  BY <1>1, FreshHolds DEF Init
<1> QED  BY <1>4, <1>5, <1>6, <1>7 DEF GraphInv

\* Every step of the agent, of its users and of its stops.
LEMMA NextHolds ==
    ASSUME GraphInv, [Next]_vars
    PROVE  GraphInv'
<1>1. ASSUME NEW r \in Runs, RunStep(r) \/ NodeFails(r)
      PROVE  GraphInv'
  <2>1. StepHolds(r) /\ IsActive(r)
    BY <1>1, RunStepHolds
  <2>2. RunsHold' /\ StopsHold'
    BY <2>1, MovedHolds DEF StepHolds
  <2> QED  BY <2>1, <2>2 DEF StepHolds, GraphInv
<1>2. ASSUME NEW r \in Runs, Chat(r) \/ DecideApproval(r) \/ RequestStop(r)
      PROVE  GraphInv'
  BY <1>2, ChatHolds, DecideApprovalHolds, RequestStopHolds
<1>3. ASSUME NEW r \in Runs, StopStep(r)
      PROVE  GraphInv'
  BY <1>3, CancelWorkflowTaskHolds, TaskCancelledHolds, CancelActiveToolsHolds,
     ConvergeStoppedRunHolds DEF StopStep
<1>4. CASE LateSave \/ ReadForTitle \/ WorkerStep \/ Crash
  BY <1>4, SurroundingsHold, CrashHolds
<1>5. CASE UNCHANGED vars
  <2>1. UNCHANGED <<checkpoint, run, flags, phase, owner, messages, late, stop, minted,
                    approved, lateSaves, faults, bounds>>
    BY <1>5 DEF vars
  <2>2. ChatTyped' /\ PhaseTyped' /\ SharedTyped' /\ StopsHold'
    BY <2>1 DEF GraphInv, ChatTyped, PhaseTyped, SharedTyped, StopsHold, IsActive
  <2> QED  BY <2>1, <2>2, AroundTheRuns
<1> QED  BY <1>1, <1>2, <1>3, <1>4, <1>5 DEF Next

\* GraphInv holds of every behaviour of the agent: chats, approval pauses and
\* decisions, stops, crashes, failed nodes and saves that overtake each other.
THEOREM GraphInvariant == Spec => []GraphInv
<1>1. Init => GraphInv
  BY InitHolds
<1>2. GraphInv /\ [Next]_vars => GraphInv'
  BY NextHolds
<1> QED  BY <1>1, <1>2, PTL DEF Spec

\* However many calls, runs, pauses and crashes there are, the journal only has
\* operations of calls the user approved (execute, decide_approval).
THEOREM ApprovedOnly == Spec => []OnlyApproved
<1>1. GraphInv => OnlyApproved
  BY DEF GraphInv
<1> QED  BY <1>1, GraphInvariant, PTL

\* A run never asks the model to go on while it knows of an executed mutation that
\* nobody has verified (_gate_node, _verification_node and the routes between them).
THEOREM NoTurnBeforeVerification == Spec => []VerifiedBeforeModel
<1>1. GraphInv => VerifiedBeforeModel
  BY DEF GraphInv, RunsHold, RecordHolds, NodeHolds, VerifiedBeforeModel
<1> QED  BY <1>1, GraphInvariant, PTL

\* A run that is reported as completed leaves no call and no operation behind
\* (run_agent_workflow).
THEOREM CompletedLeavesNothing == Spec => []CompletedIsSettled
<1>1. GraphInv => CompletedIsSettled
  BY DEF GraphInv, RunsHold, RecordHolds, NodeHolds, CompletedIsSettled, StatusOf
<1> QED  BY <1>1, GraphInvariant, PTL

\* When Stop has answered without reporting itself as partial, the run is over
\* (stop_run, cancel_workflow_task).
THEOREM StoppedRunsAreOver == Spec => []StopEndsRun
<1>1. GraphInv => StopEndsRun
  BY DEF GraphInv, StopsHold, StopEndsRun
<1> QED  BY <1>1, GraphInvariant, PTL

-----------------------------------------------------------------------------
(* What the user is shown, while saves of the messages overtake and overwrite *)
(* each other.  p gives each operation its phase.                             *)

\* Messages are of their type and show no operation as completed of its own accord
\* that is not verified.
MessagesHold(ms, p) ==
    /\ ms \in Seq(Message)
    /\ \A i \in DOMAIN ms : \A c \in Controlled :
          ms[i].cards[c].status = "completed" => p[c] = "passed"

\* So it is with the stored messages and with those on their way.
ChatInv ==
    /\ MessagesHold(messages, phase)
    /\ MessagesHold(late.messages, phase)

-----------------------------------------------------------------------------
(* The edits of the messages *)

\* A sequence is held when each of its messages is.
MessageHolds(m, p) ==
    /\ m \in Message
    /\ \A c \in Controlled : m.cards[c].status = "completed" => p[c] = "passed"

\* A list of messages, each of which holds.
LEMMA EachHolds ==
    ASSUME NEW p, NEW n \in Nat, NEW ms, DOMAIN ms = 1..n, ms = [i \in 1..n |-> ms[i]],
           \A i \in 1..n : MessageHolds(ms[i], p)
    PROVE  MessagesHold(ms, p)
<1>1. ms \in [1..n -> Message]
  BY DEF MessageHolds
<1>2. ms \in Seq(Message)
  BY <1>1
<1> QED  BY <1>2 DEF MessageHolds, MessagesHold

\* What a list of messages that holds is made of.
LEMMA HeldMessages ==
    ASSUME NEW p, NEW ms, MessagesHold(ms, p)
    PROVE  /\ Len(ms) \in Nat /\ DOMAIN ms = 1..Len(ms)
           /\ ms = [i \in 1..Len(ms) |-> ms[i]]
           /\ \A i \in 1..Len(ms) : MessageHolds(ms[i], p)
BY DEF MessagesHold, MessageHolds

\* A new message has no card.
LEMMA EmptyHolds ==
    ASSUME NEW p, NEW type \in {"user", "assistant"}
    PROVE  MessageHolds(Empty(type), p)
<1>1. NoCard \in Card /\ NoCard.status # "completed"
  BY DEF NoCard, Card
<1>2. Empty(type) \in Message
  BY <1>1 DEF Empty, Message
<1>3. \A c \in Controlled : Empty(type).cards[c] = NoCard
  BY GraphConstants DEF Empty
<1> QED  BY <1>1, <1>2, <1>3 DEF MessageHolds

\* A message at the end.
LEMMA AppendHolds ==
    ASSUME NEW p, NEW ms, MessagesHold(ms, p), NEW m, MessageHolds(m, p)
    PROVE  MessagesHold(Append(ms, m), p)
<1>1. ms \in Seq(Message) /\ m \in Message
  BY DEF MessagesHold, MessageHolds
<1>2. /\ Append(ms, m) \in Seq(Message)
      /\ \A i \in DOMAIN Append(ms, m) : Append(ms, m)[i] = m \/
            (i \in DOMAIN ms /\ Append(ms, m)[i] = ms[i])
  BY <1>1
<1> QED  BY <1>2 DEF MessagesHold, MessageHolds

\* One message replaced.
LEMMA ReplaceHolds ==
    ASSUME NEW p, NEW ms, MessagesHold(ms, p), NEW k, NEW m, MessageHolds(m, p)
    PROVE  MessagesHold([ms EXCEPT ![k] = m], p)
<1>1. ms \in Seq(Message) /\ m \in Message
  BY DEF MessagesHold, MessageHolds
<1> DEFINE new == [ms EXCEPT ![k] = m]
<1>2. DOMAIN new = DOMAIN ms /\ \A i \in DOMAIN ms : new[i] = IF i = k THEN m ELSE ms[i]
  OBVIOUS
<1>3. DOMAIN new = 1..Len(ms) /\ Len(ms) \in Nat
  BY <1>1, <1>2
<1>4. new = [i \in 1..Len(ms) |-> new[i]]
  BY <1>3
<1>5. \A i \in 1..Len(ms) : MessageHolds(new[i], p)
  BY <1>1, <1>2, <1>3 DEF MessagesHold, MessageHolds
<1> HIDE DEF new
<1>6. MessagesHold(new, p)
  BY <1>3, <1>4, <1>5, EachHolds
<1> QED  BY <1>6 DEF new

\* A message of the user, or an empty one of the assistant, at the end.
LEMMA AppendsHold ==
    ASSUME NEW p, NEW ms, MessagesHold(ms, p)
    PROVE  /\ MessagesHold(WithAssistant(ms), p)
           /\ MessagesHold(WithGeneration(ms), p)
           /\ \A new \in AppendUserMessage(ms) : MessagesHold(new, p)
<1>1. \A old : MessagesHold(old, p) => MessagesHold(WithAssistant(old), p)
  BY EmptyHolds, AppendHolds DEF WithAssistant
<1>2. \A new \in AppendUserMessage(ms) : MessagesHold(new, p)
  BY EmptyHolds, AppendHolds DEF AppendUserMessage
<1> QED  BY <1>1, <1>2 DEF WithGeneration, AppendTextSegment, AppendThinkingSegment

\* The last message is an assistant's once one is open.
LEMMA OpenHasLast ==
    ASSUME NEW p, NEW ms, MessagesHold(ms, p)
    PROVE  LET open == WithAssistant(ms)
           IN  /\ Len(open) \in DOMAIN open
               /\ Last(open) = open[Len(open)]
               /\ MessageHolds(Last(open), p)
<1> DEFINE open == WithAssistant(ms)
<1>1. MessagesHold(open, p)
  BY AppendsHold
<1>2. open # <<>>
  <2>1. ms \in Seq(Message)
    BY DEF MessagesHold
  <2> QED  BY <2>1 DEF WithAssistant, IsLast
<1> HIDE DEF open
<1>3. open \in Seq(Message)
  BY <1>1 DEF MessagesHold
<1>4. Len(open) \in DOMAIN open /\ Last(open) = open[Len(open)]
  BY <1>2, <1>3 DEF Last
<1>5. MessageHolds(open[Len(open)], p)
  BY <1>1, <1>4 DEF MessagesHold, MessageHolds
<1> QED  BY <1>4, <1>5 DEF open

\* A card that is not "completed".
LEMMA CardHolds ==
    ASSUME NEW p, NEW m, MessageHolds(m, p), NEW new \in [Calls -> Card],
           \A c \in Controlled : new[c].status = "completed" => m.cards[c].status = "completed"
                                                                   \/ p[c] = "passed"
    PROVE  MessageHolds([m EXCEPT !.cards = new], p)
<1>1. /\ [m EXCEPT !.cards = new] \in Message
      /\ [m EXCEPT !.cards = new].cards = new
  BY DEF MessageHolds, Message
<1> QED  BY <1>1 DEF MessageHolds

\* A new card, of any status but completed, in the last message of the assistant.
LEMMA AppendToolSegmentHolds ==
    ASSUME NEW p, NEW ms, MessagesHold(ms, p), NEW c \in Calls, NEW r \in Runs,
           NEW status \in ToolStatus, status # "completed"
    PROVE  MessagesHold(AppendToolSegment(ms, c, r, status), p)
<1> DEFINE open == WithAssistant(ms)
           card == [status |-> status, run_id |-> r]
           last == open[Len(open)]
           cards == [last.cards EXCEPT ![c] = card]
           m == [last EXCEPT !.cards = cards]
<1>1. MessagesHold(open, p) /\ MessageHolds(last, p)
  BY AppendsHold, OpenHasLast
<1>2. CASE AppendToolSegment(ms, c, r, status) = ms
  BY <1>2
<1>3. CASE AppendToolSegment(ms, c, r, status) = [open EXCEPT ![Len(open)].cards[c] = card]
  <2>1. [open EXCEPT ![Len(open)].cards[c] = card] = [open EXCEPT ![Len(open)] = m]
    OBVIOUS
  <2> HIDE DEF open
  <2>2. card \in Card /\ card.status # "completed"
    BY DEF Card
  <2> HIDE DEF card, last
  <2>3. last.cards \in [Calls -> Card]
    BY <1>1 DEF MessageHolds, Message
  <2>4. /\ cards \in [Calls -> Card]
        /\ \A d \in Controlled : cards[d].status = "completed" => last.cards[d].status = "completed"
    BY <2>2, <2>3, GraphConstants
  <2> HIDE DEF cards
  <2>5. MessageHolds(m, p)
    BY <1>1, <2>4, CardHolds
  <2> HIDE DEF m
  <2>6. MessagesHold([open EXCEPT ![Len(open)] = m], p)
    BY <1>1, <2>5, ReplaceHolds
  <2> QED  BY <1>3, <2>1, <2>6
<1> QED  BY <1>2, <1>3 DEF AppendToolSegment

\* update_tool_segment_status shows as completed only what is verified.
LEMMA UpdateHolds ==
    ASSUME NEW p, NEW ms, MessagesHold(ms, p), NEW c \in Calls, NEW status \in ToolStatus,
           NEW allow \in BOOLEAN, c \in Controlled /\ status = "completed" => p[c] = "passed"
    PROVE  MessagesHold(UpdateToolSegmentStatus(ms, c, status, allow), p)
<1> DEFINE new == UpdateToolSegmentStatus(ms, c, status, allow)
           edited(i) == [ms[i] EXCEPT !.cards[c].status = status]
<1>1. Len(ms) \in Nat /\ DOMAIN ms = 1..Len(ms) /\ \A i \in 1..Len(ms) : MessageHolds(ms[i], p)
  BY HeldMessages
<1>2. /\ DOMAIN new = 1..Len(ms) /\ new = [i \in 1..Len(ms) |-> new[i]]
      /\ \A i \in 1..Len(ms) : new[i] = ms[i] \/ (ms[i].cards[c] # NoCard /\ new[i] = edited(i))
  BY <1>1 DEF UpdateToolSegmentStatus, IsNewestWith
<1>3. ASSUME NEW i \in 1..Len(ms), ms[i].cards[c] # NoCard
      PROVE  MessageHolds(edited(i), p)
  <2> DEFINE m == ms[i]
             card == [m.cards[c] EXCEPT !.status = status]
             cards == [m.cards EXCEPT ![c] = card]
  <2>1. MessageHolds(m, p) /\ m \in Message
    BY <1>1 DEF MessageHolds
  <2>2. edited(i) = [m EXCEPT !.cards = cards]
    BY <2>1 DEF Message
  <2>3. m.cards \in [Calls -> Card] /\ m.cards[c] # NoCard
    BY <1>3, <2>1 DEF Message
  <2> HIDE DEF m
  <2>4. card \in Card /\ card.status = status
    BY <2>3 DEF Card, NoCard
  <2> HIDE DEF card
  <2>5. /\ cards \in [Calls -> Card]
        /\ \A d \in Calls : cards[d] = IF d = c THEN card ELSE m.cards[d]
    BY <2>3, <2>4
  <2> HIDE DEF cards
  <2>6. \A d \in Controlled : cards[d].status = "completed" => m.cards[d].status = "completed"
                                                                   \/ p[d] = "passed"
    BY <2>4, <2>5, GraphConstants
  <2>7. MessageHolds([m EXCEPT !.cards = cards], p)
    BY <2>1, <2>5, <2>6, CardHolds
  <2> QED  BY <2>2, <2>7
<1>4. \A i \in 1..Len(ms) : MessageHolds(new[i], p)
  BY <1>1, <1>2, <1>3
<1> HIDE DEF new
<1>5. MessagesHold(new, p)
  BY <1>1, <1>2, <1>4, EachHolds
<1> QED  BY <1>5 DEF new

\* A card that is updated where it is, or added.
LEMMA UpsertHolds ==
    ASSUME NEW p, NEW ms, MessagesHold(ms, p), NEW c \in Calls, NEW r \in Runs,
           NEW status \in ToolStatus, status # "completed"
    PROVE  MessagesHold(UpsertToolSegment(ms, c, r, status), p)
BY UpdateHolds, AppendToolSegmentHolds DEF UpsertToolSegment

\* Cards that wait for the approval of the user.
LEMMA PendingCardsHold ==
    ASSUME NEW p, NEW ms, MessagesHold(ms, p), NEW r \in Runs, NEW q
    PROVE  MessagesHold(WithPendingCards(ms, r, q), p)
<1> DEFINE open == WithAssistant(ms)
           new == {c \in Calls : c \in Range(q) /\ Last(open).cards[c] = NoCard}
           last == open[Len(open)]
           card == [status |-> "pending", run_id |-> r]
           cards == [c \in Calls |-> IF c \in new THEN card ELSE last.cards[c]]
           m == [last EXCEPT !.cards = cards]
<1>1. MessagesHold(open, p) /\ MessageHolds(last, p)
  BY AppendsHold, OpenHasLast
<1>2. WithPendingCards(ms, r, q) = IF new = {} THEN ms ELSE [open EXCEPT ![Len(open)] = m]
  BY DEF WithPendingCards
<1>3. card \in Card /\ card.status # "completed"
  BY DEF Card, ToolStatus
<1> HIDE DEF open, new, card, last
<1>4. last.cards \in [Calls -> Card]
  BY <1>1 DEF MessageHolds, Message
<1>5. /\ cards \in [Calls -> Card]
      /\ \A c \in Controlled : cards[c].status = "completed" => last.cards[c].status = "completed"
  BY <1>3, <1>4, GraphConstants
<1> HIDE DEF cards
<1>6. MessageHolds(m, p)
  BY <1>1, <1>5, CardHolds
<1> HIDE DEF m
<1> QED  BY <1>1, <1>2, <1>6, ReplaceHolds

\* Cards that a stop cancels.
LEMMA CancelCardsHolds ==
    ASSUME NEW p, NEW ms, MessagesHold(ms, p), NEW r \in Runs
    PROVE  MessagesHold(CancelActiveToolSegments(ms, r), p)
<1> DEFINE k == LatestAssistant(ms)
           S == CancelledToolSegments(ms, r)
           cards == [c \in Calls |-> IF c \in S THEN [ms[k].cards[c] EXCEPT !.status = "cancelled"]
                                     ELSE ms[k].cards[c]]
           m == [ms[k] EXCEPT !.cards = cards]
<1>1. CASE S = {} \/ k \notin DOMAIN ms
  <2>1. CancelActiveToolSegments(ms, r) = IF S = {} THEN ms ELSE [ms EXCEPT ![k] = m]
    BY DEF CancelActiveToolSegments
  <2>2. k \notin DOMAIN ms => [ms EXCEPT ![k] = m] = ms
    BY HeldMessages
  <2> QED  BY <1>1, <2>1, <2>2
<1>2. CASE S # {} /\ k \in DOMAIN ms
  <2>1. CancelActiveToolSegments(ms, r) = [ms EXCEPT ![k] = m]
    BY <1>2 DEF CancelActiveToolSegments
  <2>2. MessageHolds(ms[k], p)
    BY <1>2, HeldMessages
  <2>3. ms[k].cards \in [Calls -> Card]
    BY <2>2 DEF MessageHolds, Message
  <2>4. \A c \in S : ms[k].cards[c].status \in ActiveToolStatus
    BY DEF CancelledToolSegments
  <2> HIDE DEF k, S
  <2>5. \A c \in Calls : c \in S => [ms[k].cards[c] EXCEPT !.status = "cancelled"] \in Card
    BY <2>3, <2>4 DEF Card, ActiveToolStatus, ToolStatus
  <2>6. \A c \in Calls : ms[k].cards[c] \in Card
    BY <2>3
  <2>7. cards \in [Calls -> Card]
    BY <2>5, <2>6
  <2>8. \A c \in Controlled : cards[c].status = "completed" => ms[k].cards[c].status = "completed"
    <3> SUFFICES ASSUME NEW c \in Controlled, cards[c].status = "completed"
                 PROVE  ms[k].cards[c].status = "completed"
      OBVIOUS
    <3>1. CASE c \in S
      <4>1. cards[c] = [ms[k].cards[c] EXCEPT !.status = "cancelled"] /\ c \in Calls
        BY <3>1, GraphConstants
      <4>2. cards[c].status = "cancelled"
        BY <2>3, <2>4, <3>1, <4>1 DEF Card, ActiveToolStatus
      <4> QED  BY <4>2
    <3>2. CASE c \notin S
      BY <3>2, GraphConstants
    <3> QED  BY <3>1, <3>2
  <2> HIDE DEF cards
  <2>9. MessageHolds(m, p)
    BY <2>2, <2>7, <2>8, CardHolds
  <2> HIDE DEF m
  <2>10. MessagesHold([ms EXCEPT ![k] = m], p)
    BY <2>9, ReplaceHolds
  <2> QED  BY <2>1, <2>10
<1> QED  BY <1>1, <1>2

-----------------------------------------------------------------------------
(* The steps *)

\* A verdict stays what it is.
VerdictsStay == \A c \in Controlled : phase[c] \in Verdicts => phase'[c] = phase[c]

\* One operation moves on that had no verdict.
LEMMA OnePhaseMoves ==
    ASSUME PhaseTyped, NEW c \in Controlled, phase[c] \notin Verdicts, NEW p,
           phase' = [phase EXCEPT ![c] = p]
    PROVE  VerdictsStay
BY DEF PhaseTyped, VerdictsStay

\* A step of a run leaves the verdicts.
LEMMA RunStepVerdicts ==
    ASSUME PhaseTyped, NEW r \in Runs, RunStep(r) \/ NodeFails(r)
    PROVE  VerdictsStay
<1>1. CASE UNCHANGED phase
  BY <1>1 DEF VerdictsStay
<1>2. CASE Start(r) \/ Entry(r) \/ MemoryPrepare(r) \/ ModelNode(r) \/ ModelTurn(r)
             \/ ModelFails(r) \/ Gate(r)
  BY <1>1, <1>2 DEF Start, Entry, MemoryPrepare, ModelNode, ModelTurn, ModelFails, Gate,
                    StopRequested
<1>3. CASE LoadsToolset(r) \/ Refuse(r) \/ ExecuteRead(r) \/ ReadReturns(r) \/ AskApproval(r)
             \/ PauseForApproval(r) \/ Deny(r) \/ Approved(r) \/ GateEnds(r)
  BY <1>1, <1>3 DEF LoadsToolset, Refuse, ExecuteRead, ReadReturns, AskApproval,
                    PauseForApproval, Deny, Approved, GateEnds
<1>4. CASE StartVerification(r) \/ VerificationEnds(r) \/ Final(r) \/ RecursionLimit(r)
             \/ NodeFails(r)
  BY <1>1, <1>4 DEF StartVerification, VerificationEnds, Final, RecursionLimit, NodeFails,
                    StopRequested
<1>5. CASE Prepare(r) \/ MarkExecuting(r) \/ MutationReturns(r)
  BY <1>1, <1>5, OnePhaseMoves DEF Verdicts, Prepare, MarkExecuting, MutationReturns
<1>6. CASE VerifyNext(r) \/ Cancelled(r)
  BY <1>1, <1>6, OnePhaseMoves DEF Verdicts, VerifyNext, Cancelled
<1> QED  BY <1>2, <1>3, <1>4, <1>5, <1>6 DEF RunStep

\* What is held stays held while operations are only moved on.
LEMMA HeldStays ==
    ASSUME VerdictsStay, NEW ms, MessagesHold(ms, phase)
    PROVE  MessagesHold(ms, phase')
BY DEF Verdicts, VerdictsStay, MessagesHold

\* Messages that hold, saved now or left on their way.
LEMMA SaveHolds ==
    ASSUME ChatInv, VerdictsStay, NEW w, NEW ms, Save(w, ms), MessagesHold(ms, phase')
    PROVE  ChatInv'
<1>1. MessagesHold(messages, phase') /\ MessagesHold(late.messages, phase')
  BY HeldStays DEF ChatInv
<1>2. CASE messages' = ms /\ UNCHANGED late
  BY <1>1, <1>2 DEF ChatInv
<1>3. CASE late' = [by |-> w, messages |-> ms] /\ UNCHANGED messages
  <2>1. late'.messages = ms
    BY <1>3
  <2> QED  BY <1>1, <1>3, <2>1 DEF ChatInv
<1> QED  BY <1>2, <1>3 DEF Save

\* Nothing is saved, or what was on its way is lost.
LEMMA NoSaveHolds ==
    ASSUME ChatInv, VerdictsStay, UNCHANGED messages, UNCHANGED late \/ late' = NoSave
    PROVE  ChatInv'
<1>1. MessagesHold(messages, phase') /\ MessagesHold(late.messages, phase')
  BY HeldStays DEF ChatInv
<1>2. MessagesHold(<<>>, phase')
  BY DEF MessagesHold
<1>3. CASE UNCHANGED late
  BY <1>1, <1>3 DEF ChatInv
<1>4. CASE late' = NoSave
  <2>1. late'.messages = <<>>
    BY <1>4 DEF NoSave
  <2> QED  BY <1>1, <1>2, <2>1 DEF ChatInv
<1> QED  BY <1>3, <1>4

\* The edits of one card are held after the step that saves them.
LEMMA UpdateSaved ==
    ASSUME ChatInv, VerdictsStay, NEW w, NEW c \in Calls, NEW status \in ToolStatus,
           NEW allow \in BOOLEAN,
           c \in Controlled /\ status = "completed" => phase'[c] = "passed",
           Save(w, UpdateToolSegmentStatus(messages, c, status, allow))
    PROVE  ChatInv'
<1>1. MessagesHold(messages, phase')
  BY HeldStays DEF ChatInv
<1> QED  BY <1>1, SaveHolds, UpdateHolds

\* A card of any status but completed, saved.
LEMMA UpsertSaved ==
    ASSUME ChatInv, VerdictsStay, NEW r \in Runs, NEW c \in Calls,
           NEW status \in ToolStatus, status # "completed",
           Save(r, UpsertToolSegment(messages, c, r, status))
    PROVE  ChatInv'
<1>1. MessagesHold(messages, phase')
  BY HeldStays DEF ChatInv
<1> QED  BY <1>1, SaveHolds, UpsertHolds

\* The nodes and their routes, with the saves they make.
LEMMA NodesKeepChat ==
    ASSUME ChatInv, VerdictsStay, NEW r \in Runs,
           \/ Start(r) \/ Entry(r) \/ MemoryPrepare(r) \/ ModelNode(r) \/ ModelTurn(r)
           \/ ModelFails(r) \/ Gate(r) \/ StartVerification(r) \/ VerificationEnds(r)
           \/ Final(r) \/ RecursionLimit(r) \/ NodeFails(r)
    PROVE  ChatInv'
<1>1. MessagesHold(messages, phase')
  BY HeldStays DEF ChatInv
<1>2. CASE UNCHANGED chat
  BY <1>2, NoSaveHolds DEF chat
<1>3. CASE Save(r, WithGeneration(messages))
  BY <1>1, <1>3, AppendsHold, SaveHolds
<1>4. CASE Save(r, WithPendingCards(messages, r, run[r].state.pending_tools))
  BY <1>1, <1>4, PendingCardsHold, SaveHolds
<1>5. CASE Start(r) \/ Entry(r) \/ MemoryPrepare(r) \/ ModelNode(r) \/ ModelTurn(r)
  BY <1>2, <1>3, <1>5 DEF Start, Entry, MemoryPrepare, ModelNode, ModelTurn, StopRequested
<1>6. CASE ModelFails(r) \/ Gate(r) \/ StartVerification(r)
  BY <1>2, <1>4, <1>6 DEF ModelFails, Gate, StartVerification, StopRequested
<1>7. CASE VerificationEnds(r) \/ Final(r) \/ RecursionLimit(r) \/ NodeFails(r)
  BY <1>2, <1>7 DEF VerificationEnds, Final, RecursionLimit, NodeFails
<1> QED  BY <1>5, <1>6, <1>7

\* The gate and the verification node show a mutation as completed only with the
\* verdict that it passed.
LEMMA CallsKeepChat ==
    ASSUME GraphInv, ChatInv, VerdictsStay, NEW r \in Runs,
           \/ LoadsToolset(r) \/ Refuse(r) \/ ExecuteRead(r) \/ ReadReturns(r)
           \/ AskApproval(r) \/ PauseForApproval(r) \/ Deny(r) \/ Approved(r) \/ Prepare(r)
           \/ MarkExecuting(r) \/ MutationReturns(r) \/ GateEnds(r) \/ VerifyNext(r)
    PROVE  ChatInv'
<1> USE DEF SetCard
<1>1. CASE UNCHANGED chat
  BY <1>1, NoSaveHolds DEF chat
<1>2. Controlled \subseteq Calls
  BY GraphConstants
<1>3. {"error", "denied", "approved", "executing", "awaiting_approval", "completed"}
         \subseteq ToolStatus
  BY DEF ToolStatus
<1>4. CASE LoadsToolset(r) \/ PauseForApproval(r) \/ Prepare(r) \/ GateEnds(r)
  BY <1>1, <1>4 DEF LoadsToolset, PauseForApproval, Prepare, GateEnds
<1>5. CASE Refuse(r)
  BY <1>1, <1>3, <1>5, UpdateSaved DEF Refuse
<1>6. CASE ExecuteRead(r)
  BY <1>3, <1>6, UpsertSaved DEF ExecuteRead
<1>7. CASE ReadReturns(r)
  BY <1>3, <1>7, UpdateSaved DEF ReadReturns
<1>8. CASE AskApproval(r)
  BY <1>2, <1>3, <1>8, UpsertSaved DEF AskApproval
<1>9. CASE Deny(r)
  BY <1>2, <1>3, <1>9, UpdateSaved DEF Deny
<1>10. CASE Approved(r)
  BY <1>2, <1>3, <1>10, UpdateSaved DEF Approved
<1>11. CASE MarkExecuting(r)
  BY <1>2, <1>3, <1>11, UpdateSaved, UpsertSaved DEF MarkExecuting
<1>12. CASE MutationReturns(r)
  BY <1>1, <1>2, <1>3, <1>12, UpdateSaved DEF MutationReturns
<1>13. CASE VerifyNext(r)
  <2>1. PICK c \in Controlled, result \in Verdicts \cup {"inconclusive"} :
          /\ \/ phase[c] = result /\ UNCHANGED phase
             \/ phase' = [phase EXCEPT ![c] = result]
             \/ result = "inconclusive"
          /\ Save(r, UpdateToolSegmentStatus(messages, c,
                        IF result = "passed" THEN "completed" ELSE "error", FALSE))
    BY <1>13 DEF VerifyNext
  <2>2. result = "passed" => phase'[c] = "passed"
    BY <2>1 DEF GraphInv, PhaseTyped
  <2> QED  BY <1>2, <1>3, <2>1, <2>2, UpdateSaved
<1> QED  BY <1>4, <1>5, <1>6, <1>7, <1>8, <1>9, <1>10, <1>11, <1>12, <1>13

\* Every step of a run.
LEMMA RunStepKeepsChat ==
    ASSUME GraphInv, ChatInv, NEW r \in Runs, RunStep(r) \/ NodeFails(r)
    PROVE  ChatInv'
<1>1. VerdictsStay
  BY RunStepVerdicts DEF GraphInv
<1>2. CASE Cancelled(r)
  BY <1>1, <1>2, NoSaveHolds DEF Cancelled
<1> QED  BY <1>1, <1>2, NodesKeepChat, CallsKeepChat DEF RunStep

\* The recovery worker has something to publish only with the verdict of the row.
WorkerInv ==
    /\ worker \in [batch : SUBSET Controlled, found : SUBSET (Controlled \X Verdicts)]
    /\ \A f \in worker.found : phase[f[1]] = f[2]

\* Everything but the worker and a crash leaves what it holds, and the verdicts.
LEMMA VerdictsAreLeft ==
    ASSUME GraphInv, [Next]_vars
    PROVE  VerdictsStay
<1>1. UNCHANGED phase => VerdictsStay
  BY DEF VerdictsStay
<1>2. ASSUME NEW r \in Runs, RunStep(r) \/ NodeFails(r)
      PROVE  VerdictsStay
  BY <1>2, RunStepVerdicts DEF GraphInv
<1>3. ASSUME NEW r \in Runs, Chat(r) \/ DecideApproval(r) \/ RequestStop(r)
      PROVE  VerdictsStay
  BY <1>1, <1>3 DEF Chat, DecideApproval, RequestStop, Accept
<1>4. ASSUME NEW r \in Runs, StopStep(r)
      PROVE  VerdictsStay
  BY <1>1, <1>4 DEF StopStep, CancelWorkflowTask, TaskCancelled, CancelActiveTools,
                    ConvergeStoppedRun, VerdictsStay, Verdicts
<1>5. CASE LateSave \/ ReadForTitle \/ Crash \/ UNCHANGED vars
  BY <1>1, <1>5 DEF LateSave, ReadForTitle, Crash, vars
<1>6. CASE WorkerStep
  <2>1. CASE SelectBatch \/ PublishRecovered
    BY <1>1, <2>1 DEF SelectBatch, PublishRecovered
  <2>2. CASE RecoverStaleExecution
    BY <2>2, OnePhaseMoves DEF RecoverStaleExecution, GraphInv, Verdicts
  <2>3. CASE VerifySelected
    BY <1>1, <2>3, OnePhaseMoves DEF VerifySelected, GraphInv, Verdicts
  <2> QED  BY <1>6, <2>1, <2>2, <2>3 DEF WorkerStep
<1> QED  BY <1>2, <1>3, <1>4, <1>5, <1>6 DEF Next

\* The steps of runs leave the worker.
LEMMA RunStepLeavesWorker ==
    ASSUME NEW r \in Runs, RunStep(r) \/ NodeFails(r)
    PROVE  UNCHANGED worker
<1> USE DEF world
<1>1. CASE Start(r) \/ Entry(r) \/ MemoryPrepare(r) \/ ModelNode(r) \/ ModelTurn(r)
             \/ ModelFails(r) \/ Gate(r)
  BY <1>1 DEF Start, Entry, MemoryPrepare, ModelNode, ModelTurn, ModelFails, Gate,
              StopRequested
<1>2. CASE LoadsToolset(r) \/ Refuse(r) \/ ExecuteRead(r) \/ ReadReturns(r) \/ AskApproval(r)
             \/ PauseForApproval(r) \/ Deny(r) \/ Approved(r) \/ GateEnds(r)
  BY <1>2 DEF LoadsToolset, Refuse, ExecuteRead, ReadReturns, AskApproval,
              PauseForApproval, Deny, Approved, GateEnds
<1>3. CASE StartVerification(r) \/ VerificationEnds(r) \/ Final(r) \/ RecursionLimit(r)
             \/ NodeFails(r) \/ Cancelled(r)
  BY <1>3 DEF StartVerification, VerificationEnds, Final, RecursionLimit, NodeFails,
              StopRequested, Cancelled
<1>4. CASE Prepare(r) \/ MarkExecuting(r) \/ MutationReturns(r) \/ VerifyNext(r)
  BY <1>4 DEF Prepare, MarkExecuting, MutationReturns, VerifyNext
<1> QED  BY <1>1, <1>2, <1>3, <1>4 DEF RunStep

\* The worker's verdicts stay those of the rows, whatever the runs do meanwhile.
LEMMA WorkerHolds ==
    ASSUME GraphInv, WorkerInv, [Next]_vars
    PROVE  WorkerInv'
<1>1. VerdictsStay
  BY VerdictsAreLeft
<1>2. CASE UNCHANGED worker
  <2>1. \A f \in worker.found : f[1] \in Controlled /\ f[2] \in Verdicts
    BY DEF WorkerInv
  <2> QED  BY <1>1, <1>2, <2>1 DEF WorkerInv, VerdictsStay
<1>3. ASSUME NEW r \in Runs, RunStep(r) \/ NodeFails(r)
      PROVE  WorkerInv'
  BY <1>2, <1>3, RunStepLeavesWorker
<1>4. ASSUME NEW r \in Runs, Chat(r) \/ DecideApproval(r) \/ RequestStop(r) \/ StopStep(r)
      PROVE  WorkerInv'
  BY <1>2, <1>4 DEF Chat, DecideApproval, RequestStop, Accept, StopStep,
        CancelWorkflowTask, TaskCancelled, CancelActiveTools, ConvergeStoppedRun
<1>5. CASE LateSave \/ ReadForTitle \/ RecoverStaleExecution \/ UNCHANGED vars
  BY <1>2, <1>5 DEF LateSave, ReadForTitle, RecoverStaleExecution, world, vars
<1>6. CASE SelectBatch
  BY <1>6 DEF SelectBatch, BetweenPasses, IdleWorker, WorkerInv
<1>7. CASE VerifySelected
  <2>1. PICK c \in Controlled, result \in Verdicts \cup {"inconclusive"} :
          /\ \/ phase[c] = result /\ UNCHANGED phase
             \/ phase' = [phase EXCEPT ![c] = result]
             \/ result = "inconclusive"
          /\ worker' = [batch |-> worker.batch \ {c},
                        found |-> IF result \in Verdicts THEN {<<c, result>>} ELSE {}]
    BY <1>7 DEF VerifySelected
  <2>2. result \in Verdicts => phase'[c] = result
    BY <2>1 DEF GraphInv, PhaseTyped, Verdicts
  <2>3. worker'.batch = worker.batch \ {c}
        /\ worker'.found = IF result \in Verdicts THEN {<<c, result>>} ELSE {}
    BY <2>1
  <2>4. worker' \in [batch : SUBSET Controlled, found : SUBSET (Controlled \X Verdicts)]
    BY <2>1 DEF WorkerInv
  <2> QED  BY <2>2, <2>3, <2>4 DEF WorkerInv
<1>8. CASE PublishRecovered
  BY <1>8 DEF PublishRecovered, WorkerInv
<1>9. CASE Crash
  BY <1>9 DEF Crash, IdleWorker, WorkerInv
<1> QED  BY <1>3, <1>4, <1>5, <1>6, <1>7, <1>8, <1>9 DEF Next, WorkerStep

\* Requests, and what goes on around the runs.
LEMMA AroundKeepsChat ==
    ASSUME GraphInv, WorkerInv, ChatInv,
           \/ \E r \in Runs : Chat(r) \/ DecideApproval(r) \/ RequestStop(r) \/ StopStep(r)
           \/ LateSave \/ ReadForTitle \/ WorkerStep \/ Crash
    PROVE  ChatInv'
<1>1. UNCHANGED phase => VerdictsStay
  BY DEF VerdictsStay
<1>2. ASSUME NEW r \in Runs, Chat(r)
      PROVE  ChatInv'
  <2>1. UNCHANGED phase /\ \E ms \in AppendUserMessage(messages) : Save(r, ms)
    BY <1>2 DEF Chat, Accept
  <2>2. \A ms \in AppendUserMessage(messages) : MessagesHold(ms, phase')
    BY <2>1, AppendsHold DEF ChatInv
  <2> QED  BY <1>1, <2>1, <2>2, SaveHolds
<1>3. ASSUME NEW r \in Runs, DecideApproval(r)
      PROVE  ChatInv'
  <2>1. PICK c \in Controlled :
          /\ UNCHANGED phase
          /\ \/ UNCHANGED chat
             \/ Save(r, UpdateToolSegmentStatus(messages, c, "denied", FALSE))
    BY <1>3 DEF DecideApproval, Accept
  <2>2. c \in Calls /\ "denied" \in ToolStatus
    BY GraphConstants DEF ToolStatus
  <2>3. CASE UNCHANGED chat
    BY <1>1, <2>1, <2>3, NoSaveHolds DEF chat
  <2>4. CASE Save(r, UpdateToolSegmentStatus(messages, c, "denied", FALSE))
    BY <1>1, <2>1, <2>2, <2>4, UpdateSaved
  <2> QED  BY <2>1, <2>3, <2>4
<1>4. ASSUME NEW r \in Runs, RequestStop(r) \/ CancelWorkflowTask(r) \/ TaskCancelled(r)
      PROVE  ChatInv'
  <2>1. UNCHANGED phase /\ UNCHANGED messages /\ UNCHANGED late
    BY <1>4 DEF RequestStop, CancelWorkflowTask, TaskCancelled, chat
  <2> QED  BY <1>1, <2>1, NoSaveHolds
<1>5. ASSUME NEW r \in Runs, CancelActiveTools(r)
      PROVE  ChatInv'
  <2>1. UNCHANGED phase /\ Save(StopOf(r), CancelActiveToolSegments(messages, r))
    BY <1>5 DEF CancelActiveTools
  <2>2. MessagesHold(CancelActiveToolSegments(messages, r), phase')
    BY <2>1, CancelCardsHolds DEF ChatInv
  <2> QED  BY <1>1, <2>1, <2>2, SaveHolds
<1>6. ASSUME NEW r \in Runs, ConvergeStoppedRun(r)
      PROVE  ChatInv'
  <2>1. VerdictsStay
    BY <1>6 DEF ConvergeStoppedRun, VerdictsStay, Verdicts
  <2>2. UNCHANGED messages /\ UNCHANGED late
    BY <1>6 DEF ConvergeStoppedRun, chat
  <2> QED  BY <2>1, <2>2, NoSaveHolds
<1>7. CASE LateSave
  <2>1. messages' = late.messages /\ late' = NoSave /\ UNCHANGED phase
    BY <1>7 DEF LateSave
  <2>2. late'.messages = <<>> /\ MessagesHold(<<>>, phase')
    BY <2>1 DEF NoSave, MessagesHold
  <2> QED  BY <2>1, <2>2 DEF ChatInv
<1>8. CASE ReadForTitle
  <2>1. late'.messages = messages /\ UNCHANGED messages /\ UNCHANGED phase
    BY <1>8 DEF ReadForTitle
  <2> QED  BY <2>1 DEF ChatInv
<1>9. CASE WorkerStep
  <2>1. VerdictsStay
    BY <1>9, VerdictsAreLeft DEF Next
  <2>2. CASE UNCHANGED chat
    BY <2>1, <2>2, NoSaveHolds DEF chat
  <2>3. CASE RecoverStaleExecution \/ SelectBatch \/ VerifySelected
    BY <2>2, <2>3 DEF RecoverStaleExecution, SelectBatch, VerifySelected
  <2>4. CASE PublishRecovered
    <3>1. PICK f \in worker.found :
            \/ UNCHANGED chat
            \/ Save(Worker, UpdateToolSegmentStatus(messages, f[1], RecoveredStatus(f[2]), TRUE))
      BY <2>4 DEF PublishRecovered
    <3>2. f[1] \in Controlled /\ f[2] \in Verdicts /\ phase[f[1]] = f[2] /\ UNCHANGED phase
      BY <2>4 DEF WorkerInv, PublishRecovered
    <3>3. f[1] \in Calls /\ RecoveredStatus(f[2]) \in ToolStatus
      BY <3>2, GraphConstants DEF RecoveredStatus, ToolStatus
    <3>4. RecoveredStatus(f[2]) = "completed" => phase'[f[1]] = "passed"
      BY <3>2 DEF RecoveredStatus
    <3> QED  BY <2>1, <2>2, <3>1, <3>3, <3>4, UpdateSaved
  <2> QED  BY <1>9, <2>3, <2>4 DEF WorkerStep
<1>10. CASE Crash
  BY <1>1, <1>10, NoSaveHolds DEF Crash
<1> QED  BY <1>2, <1>3, <1>4, <1>5, <1>6, <1>7, <1>8, <1>9, <1>10 DEF StopStep

-----------------------------------------------------------------------------
(* The theorems *)

\* A verdict the recovery worker brings to the cards is the one of the row when it
\* gets there.
THEOREM WorkerInvariant == Spec => []WorkerInv
<1>1. Init => WorkerInv
  BY DEF Init, IdleWorker, WorkerInv
<1>2. GraphInv /\ WorkerInv /\ [Next]_vars => WorkerInv'
  BY WorkerHolds
<1> QED  BY <1>1, <1>2, GraphInvariant, PTL DEF Spec

\* Wherever a save of the messages stands, it is of messages that hold.
THEOREM ChatInvariant == Spec => []ChatInv
<1>1. Init => ChatInv
  BY DEF Init, NoSave, ChatInv, MessagesHold
<1>2. GraphInv /\ WorkerInv /\ ChatInv /\ [Next]_vars => ChatInv'
  <2> SUFFICES ASSUME GraphInv, WorkerInv, ChatInv, [Next]_vars
               PROVE  ChatInv'
    OBVIOUS
  <2>1. CASE UNCHANGED vars
    BY <2>1 DEF vars, ChatInv
  <2>2. CASE Next
    BY <2>2, RunStepKeepsChat, AroundKeepsChat DEF Next
  <2> QED  BY <2>1, <2>2
<1> QED  BY <1>1, <1>2, GraphInvariant, WorkerInvariant, PTL DEF Spec

\* The state of the agent is of its type, the messages and the saves on their way
\* included.
THEOREM GraphTypeCorrect == Spec => []GraphTypeOK
<1>1. GraphInv /\ WorkerInv /\ ChatInv => GraphTypeOK
  BY DEF GraphInv, WorkerInv, ChatInv, MessagesHold, StateHolds, RunsHold, ChatTyped, PhaseTyped,
         SharedTyped, StopsHold, GraphTypeOK
<1> QED  BY <1>1, GraphInvariant, WorkerInvariant, ChatInvariant, PTL

\* What a user is shown of a card, given the rows of the operations: the status of
\* the card without a row, else what the row makes of it, or nothing without a card.
LEMMA ShownStatus ==
    ASSUME NEW ms \in Seq(Message), NEW c \in Controlled, NEW rows, NEW i \in DOMAIN ms
    PROVE  LET status == ProjectMutationOperations(ms, rows)[i].cards[c].status
               own == ms[i].cards[c].status
           IN  /\ c \notin DOMAIN rows => status = own
               /\ c \in DOMAIN rows =>
                     status = "none" \/ status = ProjectedStatus(own, rows[c])
<1>1. ms[i] \in Message
  OBVIOUS
<1>2. ms[i].cards \in [Calls -> Card] /\ c \in Calls
  BY <1>1, GraphConstants DEF Message
<1>3. ms[i].cards[c] # NoCard => ms[i].cards[c] \in [status : ToolStatus, run_id : Runs]
  BY <1>2 DEF Card, NoCard
<1>4. ProjectMutationOperations(ms, rows)[i].cards[c] = ProjectedCard(ms[i].cards[c], c, rows)
  <2> DEFINE shown == [d \in Calls |-> ProjectedCard(ms[i].cards[d], d, rows)]
  <2>1. ProjectMutationOperations(ms, rows)[i] = [ms[i] EXCEPT !.cards = shown]
    BY DEF ProjectMutationOperations
  <2>2. shown[c] = ProjectedCard(ms[i].cards[c], c, rows)
    BY <1>2
  <2> HIDE DEF shown
  <2>3. [ms[i] EXCEPT !.cards = shown].cards = shown
    BY <1>1 DEF Message
  <2> QED  BY <2>1, <2>2, <2>3
<1> DEFINE card == ms[i].cards[c]
<1>5. c \notin DOMAIN rows => ProjectedCard(card, c, rows) = card
  BY DEF ProjectedCard
<1>6. card = NoCard => ProjectedCard(card, c, rows).status = "none"
  BY DEF ProjectedCard, NoCard
<1>7. card # NoCard /\ c \in DOMAIN rows =>
         ProjectedCard(card, c, rows).status = ProjectedStatus(card.status, rows[c])
  BY <1>3 DEF ProjectedCard
<1> HIDE DEF card
<1>8. card = ms[i].cards[c]
  BY DEF card
<1> QED  BY <1>4, <1>5, <1>6, <1>7, <1>8

\* Whatever saves overwrote, a mutation is only called completed when it is verified,
\* in the stored messages and with the rows of the journal laid over them
\* (update_tool_segment_status, project_mutation_operations).
THEOREM UserIsShownTheTruth == Spec => []ShownIsTrue
<1>1. GraphInv /\ ChatInv => ShownIsTrue
  <2> SUFFICES ASSUME GraphInv, ChatInv, NEW c \in Controlled, NEW row \in RowsOf(c),
                      NEW rows, rows = IF phase[c] = "none" THEN <<>> ELSE [d \in {c} |-> row],
                      NEW i \in DOMAIN messages,
                      NEW status,
                      status = ProjectMutationOperations(messages, rows)[i].cards[c].status
               PROVE  "completed" \in {messages[i].cards[c].status, status} =>
                         phase[c] = "passed"
    BY DEF ShownIsTrue
  <2> DEFINE own == messages[i].cards[c].status
  <2>1. messages \in Seq(Message) /\ (own = "completed" => phase[c] = "passed")
    BY DEF ChatInv, MessagesHold
  <2>2. phase[c] \in {"none", "admitted", "launched", "settled", "withdrawn", "passed", "failed"}
    BY DEF GraphInv, PhaseTyped, Verdicts
  <2>3. CASE phase[c] = "none"
    BY <2>1, <2>3, ShownStatus
  <2>4. CASE phase[c] # "none"
    <3>1. /\ phase[c] # "passed" => row.verification_status # "passed"
          /\ phase[c] = "admitted" => row.execution_status = "prepared"
      BY <2>2 DEF RowsOf, Verdicts
    <3>2. ProjectedStatus(own, row) = "completed" => phase[c] = "passed"
      BY <2>1, <3>1 DEF ProjectedStatus
    <3>3. c \in DOMAIN rows /\ rows[c] = row
      BY <2>4
    <3>4. status = "none" \/ status = ProjectedStatus(own, row)
      BY <2>1, <3>3, ShownStatus
    <3> QED  BY <2>1, <3>2, <3>4
  <2> QED  BY <2>3, <2>4
<1> QED  BY <1>1, GraphInvariant, ChatInvariant, PTL
=============================================================================

---------------------------- MODULE ModelStream -----------------------------
(***************************************************************************)
(* The model turns of one run (run_model_turn): a request to the provider  *)
(* with retries, the stream of deltas, the assembly of tool calls from     *)
(* their fragments, and what becomes of a stream that breaks off.          *)
(*                                                                         *)
(* Providers differ in how they label the fragments of a call:             *)
(*   "indexed"    an index per call, id and name in the first fragment     *)
(*   "responses"  index 0 for all, id and name in an opening and again in  *)
(*                a closing fragment, one call after the other             *)
(*   "anonymous"  an index per call and no ids                             *)
(***************************************************************************)
EXTENDS Naturals, Sequences, SequencesExt, FiniteSets, Functions

CONSTANTS
    Parts,          \* fragments the arguments of a call are cut into
    MaxCalls,       \* bound on the calls of one response
    MaxTurns,       \* bound on the turns of the run
    MaxRetries      \* max_retries

ASSUME StreamConstants == {Parts, MaxCalls, MaxTurns, MaxRetries} \subseteq Nat

VARIABLES
    streamAt,       \* "request", "streaming", "backoff", "answered" or "failed"
    style,          \* how the provider labels fragments
    retry_count,
    turnsTaken,
    wire,           \* wire[k]: the fragments of call k still to come
    content_buffer, \* whether text or thinking has arrived
    tool_calls_buffer,
    tool_call_id_to_index,
    next_internal_index,
    last_seen_id_for_reported_index,
    tool_calls      \* the calls of the last turn, as they go to the gate

buffers == <<content_buffer, tool_calls_buffer, tool_call_id_to_index,
             next_internal_index, last_seen_id_for_reported_index>>
streamVars == <<streamAt, style, retry_count, turnsTaken, wire, buffers, tool_calls>>

-----------------------------------------------------------------------------
(* Fragments, tagged with the call they belong to.  0: field not set. *)

Fragment(index, id, name, part) == [index |-> index, id |-> id, name |-> name, part |-> part]

ArgumentFragments(k, index) == [p \in 1..Parts |-> Fragment(index, 0, 0, <<k, p>>)]

Label(k) ==
    Fragment(IF style = "responses" THEN 0 ELSE k - 1,
             IF style = "anonymous" THEN 0 ELSE k, k, <<>>)

FragmentsOf(k) ==
    <<Label(k)>> \o ArgumentFragments(k, Label(k).index)
                 \o (IF style = "responses" THEN <<Label(k)>> ELSE <<>>)

Started(k) == Len(wire[k]) < Len(FragmentsOf(k))

\* Calls start in order; only "responses" sends one call after the other.
MayCome(k) ==
    /\ wire[k] # <<>>
    /\ \A j \in 1..k - 1 : IF style = "responses" THEN wire[j] = <<>> ELSE Started(j)

-----------------------------------------------------------------------------
(* Assembly of the tool calls *)

NoBuffer == [id |-> 0, name |-> 0, arguments |-> <<>>]

\* Mutant: the reported index is the slot.
SlotByReportedIndex(f) == f.index

\* Fragments with an id get a slot per id, the others follow the id last seen
\* with their reported index.
SlotOf(f) ==
    LET ids == tool_call_id_to_index
        seen == last_seen_id_for_reported_index
    IN  IF f.id # 0
          THEN IF f.id \in DOMAIN ids THEN ids[f.id] ELSE next_internal_index
          ELSE IF f.index \in DOMAIN seen THEN ids[seen[f.index]] ELSE f.index

Put(f, key, value) == [x \in DOMAIN f \cup {key} |-> IF x = key THEN value ELSE f[x]]

Merged(slot, f) ==
    [id |-> IF slot.id = 0 THEN f.id ELSE slot.id,
     name |-> IF slot.name = 0 THEN f.name ELSE slot.name,
     arguments |-> IF f.part = <<>> THEN slot.arguments ELSE Append(slot.arguments, f.part)]

Collect(f) ==
    LET i == SlotOf(f)
        old == IF i \in DOMAIN tool_calls_buffer THEN tool_calls_buffer[i] ELSE NoBuffer
    IN  /\ tool_calls_buffer' = Put(tool_calls_buffer, i, Merged(old, f))
        /\ IF f.id = 0
             THEN UNCHANGED <<tool_call_id_to_index, next_internal_index,
                              last_seen_id_for_reported_index>>
             ELSE /\ tool_call_id_to_index' = Put(tool_call_id_to_index, f.id, i)
                  /\ next_internal_index' = next_internal_index +
                        (IF f.id \in DOMAIN tool_call_id_to_index THEN 0 ELSE 1)
                  /\ last_seen_id_for_reported_index' =
                        Put(last_seen_id_for_reported_index, f.index, f.id)

Complete(slot) == Len(slot.arguments) = Parts

\* Calls without a name are skipped; arguments that are cut off do not parse
\* and are replaced by an empty object.
ParsedCalls(slots) ==
    LET named == SelectSeq([i \in 1..Cardinality(DOMAIN slots) |-> slots[i - 1]],
                           LAMBDA slot : slot.name # 0)
    IN  [i \in DOMAIN named |->
            [name |-> named[i].name,
             args |-> IF Complete(named[i]) THEN named[i].arguments ELSE <<>>]]

-----------------------------------------------------------------------------
(* The turn *)

NoCalls == [k \in {} |-> 0]

EmptyBuffers ==
    /\ content_buffer' = FALSE
    /\ tool_calls_buffer' = NoCalls
    /\ tool_call_id_to_index' = NoCalls
    /\ next_internal_index' = 0
    /\ last_seen_id_for_reported_index' = NoCalls

StreamInit ==
    /\ streamAt = "request"
    /\ style \in {"indexed", "responses", "anonymous"}
    /\ retry_count = 0
    /\ turnsTaken = 0
    /\ wire = NoCalls
    /\ content_buffer = FALSE
    /\ tool_calls_buffer = NoCalls
    /\ tool_call_id_to_index = NoCalls
    /\ next_internal_index = 0
    /\ last_seen_id_for_reported_index = NoCalls
    /\ tool_calls = <<>>

RequestAccepted ==
    /\ streamAt = "request"
    /\ streamAt' = "streaming"
    /\ \E n \in 0..MaxCalls : wire' = [k \in 1..n |-> FragmentsOf(k)]
    /\ EmptyBuffers
    /\ UNCHANGED <<style, retry_count, turnsTaken, tool_calls>>

\* A rate limit or a transient error is retried, with a pause, up to max_retries.
Raise(transient) ==
    /\ retry_count' = retry_count + 1
    /\ streamAt' = IF transient /\ retry_count' <= MaxRetries THEN "backoff" ELSE "failed"
    /\ UNCHANGED <<style, turnsTaken, wire, buffers, tool_calls>>

RequestFails ==
    /\ streamAt = "request"
    /\ \E transient \in BOOLEAN : Raise(transient)

BackoffEnds ==
    /\ streamAt = "backoff"
    /\ streamAt' = "request"
    /\ UNCHANGED <<style, retry_count, turnsTaken, wire, buffers, tool_calls>>

TextArrives ==
    /\ streamAt = "streaming"
    /\ content_buffer' = TRUE
    /\ UNCHANGED <<streamAt, style, retry_count, turnsTaken, wire, tool_calls,
                   tool_calls_buffer, tool_call_id_to_index, next_internal_index,
                   last_seen_id_for_reported_index>>

ToolDeltaArrives ==
    /\ streamAt = "streaming"
    /\ \E k \in DOMAIN wire :
          /\ MayCome(k)
          /\ Collect(Head(wire[k]))
          /\ wire' = [wire EXCEPT ![k] = Tail(@)]
    /\ UNCHANGED <<streamAt, style, retry_count, turnsTaken, content_buffer, tool_calls>>

\* The calls go to the gate.
TurnReturns ==
    /\ streamAt' = "answered"
    /\ tool_calls' = ParsedCalls(tool_calls_buffer)
    /\ turnsTaken' = turnsTaken + 1
    /\ UNCHANGED <<style, retry_count, wire, buffers>>

AllArrived == \A k \in DOMAIN wire : wire[k] = <<>>

StreamEnds ==
    /\ streamAt = "streaming"
    /\ AllArrived
    /\ TurnReturns

Buffered == content_buffer \/ tool_calls_buffer # NoCalls

\* An error or a Stop inside the stream is swallowed when anything has arrived:
\* the turn returns what there is.
StreamBreaks ==
    /\ streamAt = "streaming"
    /\ IF Buffered THEN TurnReturns ELSE \E transient \in BOOLEAN : Raise(transient)

NextTurn ==
    /\ streamAt = "answered"
    /\ tool_calls # <<>>
    /\ turnsTaken < MaxTurns
    /\ streamAt' = "request"
    /\ retry_count' = 0
    /\ UNCHANGED <<style, turnsTaken, wire, buffers, tool_calls>>

StreamNext ==
    \/ RequestAccepted
    \/ RequestFails
    \/ BackoffEnds
    \/ TextArrives
    \/ ToolDeltaArrives
    \/ StreamEnds
    \/ StreamBreaks
    \/ NextTurn

StreamSpec == StreamInit /\ [][StreamNext]_streamVars

-----------------------------------------------------------------------------
(* Properties *)

\* Whatever the labels and the interleaving of the fragments, each slot of the
\* buffer holds the name and the argument fragments of one call, in order, no
\* call has two slots, and once all has arrived every call has its own, complete
\* (model_node.py, the comment on index=0 and duplicated names).
AssembledFromOwnFragments ==
    LET slots == DOMAIN tool_calls_buffer
        IsSlotOf(i, k) == /\ tool_calls_buffer[i].name = k
                          /\ tool_calls_buffer[i].id \in {0, k}
                          /\ \A p \in DOMAIN tool_calls_buffer[i].arguments :
                                tool_calls_buffer[i].arguments[p] = <<k, p>>
    IN  streamAt = "streaming" =>
          /\ \A i \in slots : \E k \in DOMAIN wire : IsSlotOf(i, k)
          /\ \A i, j \in slots :
                tool_calls_buffer[i].name = tool_calls_buffer[j].name => i = j
          /\ AllArrived => \A k \in DOMAIN wire :
                \E i \in slots : IsSlotOf(i, k) /\ Complete(tool_calls_buffer[i])
=============================================================================

---------------------------- MODULE Conversation ----------------------------
(***************************************************************************)
(* The chat projection of a conversation (ConversationPersistenceService): *)
(* the messages_json column, a list of user and assistant messages whose   *)
(* tool segments ("cards") carry the status the user sees.  Every operation *)
(* of the service reads the whole column, edits it and saves the whole row; *)
(* this module holds the edits, as functions from messages to messages, and *)
(* the module that composes them decides when a save lands.                *)
(*                                                                         *)
(* Text, thinking blocks, timestamps, results and the Message rows that    *)
(* copy the segments are left out: what they decide here is only whether a *)
(* new assistant message is opened.                                        *)
(***************************************************************************)
EXTENDS Integers, SequencesExt

CONSTANTS
    Calls,      \* ids of the tool calls the model emits, one card each
    Runs        \* workflow runs of the conversation

NoRun == 0

ASSUME ConversationConstants == NoRun \notin Runs

-----------------------------------------------------------------------------

ToolStatus ==
    {"pending", "executing", "approved", "awaiting_approval", "denied", "error",
     "completed", "cancelled"}

ActiveToolStatus == {"pending", "executing", "approved", "awaiting_approval"}

Card == [status : ToolStatus, run_id : Runs] \cup {[status |-> "none", run_id |-> NoRun]}

NoCard == [status |-> "none", run_id |-> NoRun]

Message == [type : {"user", "assistant"}, cards : [Calls -> Card]]

Empty(type) == [type |-> type, cards |-> [c \in Calls |-> NoCard]]

IsLast(ms, type) == ms # <<>> /\ Last(ms).type = type

\* The append operations open an assistant message when the last one is the user's.
WithAssistant(ms) ==
    IF IsLast(ms, "assistant") THEN ms ELSE Append(ms, Empty("assistant"))

\* append_user_message: the same text sent again right away is not repeated.
AppendUserMessage(ms) ==
    {Append(ms, Empty("user"))} \cup (IF IsLast(ms, "user") THEN {ms} ELSE {})

\* append_text_segment, append_thinking_segment
AppendTextSegment(ms) == WithAssistant(ms)

AppendThinkingSegment(ms) == WithAssistant(ms)

\* append_tool_segment: a card the last message already has is left as it is, and
\* an older message is not looked at.
AppendToolSegment(ms, c, r, status) ==
    LET open == WithAssistant(ms)
    IN  IF Last(open).cards[c] # NoCard
        THEN ms
        ELSE [open EXCEPT ![Len(open)].cards[c] = [status |-> status, run_id |-> r]]

\* Message i is the newest with a card of the call.
IsNewestWith(ms, c, i) ==
    /\ ms[i].cards[c] # NoCard
    /\ \A j \in i + 1..Len(ms) : ms[j].cards[c] = NoCard

\* update_tool_segment_status: "cancelled" is only left where the caller allows it
\* (allow_cancelled_transition).
UpdateToolSegmentStatus(ms, c, status, allowCancelled) ==
    [i \in DOMAIN ms |->
        IF /\ IsNewestWith(ms, c, i)
           /\ ms[i].cards[c].status = "cancelled" => status = "cancelled" \/ allowCancelled
        THEN [ms[i] EXCEPT !.cards[c].status = status]
        ELSE ms[i]]

\* tool.executing and tool.awaiting_approval update the card and, when the last
\* message does not have one, append it.
UpsertToolSegment(ms, c, r, status) ==
    AppendToolSegment(UpdateToolSegmentStatus(ms, c, status, FALSE), c, r, status)

\* mark_active_tool_segments_cancelled: only the latest assistant message, only
\* cards that name the run.
LatestAssistant(ms) == Max({0} \cup {i \in DOMAIN ms : ms[i].type = "assistant"})

CancelledToolSegments(ms, r) ==
    LET i == LatestAssistant(ms)
    IN  {c \in Calls : /\ i # 0
                       /\ ms[i].cards[c].status \in ActiveToolStatus
                       /\ ms[i].cards[c].run_id = r}

CancelActiveToolSegments(ms, r) ==
    LET i == LatestAssistant(ms)
        S == CancelledToolSegments(ms, r)
    IN  IF S = {} THEN ms
        ELSE [ms EXCEPT ![i].cards =
                [c \in Calls |-> IF c \in S THEN [@[c] EXCEPT !.status = "cancelled"]
                                 ELSE @[c]]]

-----------------------------------------------------------------------------
(* project_mutation_operations: what the user is shown, the journal laid over *)
(* the cards.  A row is the pair of statuses of the operation of a call.       *)

ProjectedStatus(own, row) ==
    IF row.verification_status = "passed" THEN "completed"
    ELSE IF row.verification_status \in {"needs_review", "failed"} THEN "error"
    ELSE CASE row.execution_status = "cancelled" -> "cancelled"
           [] row.execution_status = "failed" -> "error"
           [] row.execution_status \in {"executing", "reported_success", "unknown"} -> "executing"
           [] OTHER -> own

ProjectedCard(card, c, rows) ==
    IF card = NoCard \/ c \notin DOMAIN rows THEN card
    ELSE [card EXCEPT !.status = ProjectedStatus(@, rows[c])]

ProjectMutationOperations(ms, rows) ==
    [i \in DOMAIN ms |->
        [ms[i] EXCEPT !.cards = [c \in Calls |-> ProjectedCard(@[c], c, rows)]]]
=============================================================================

----------------------------- MODULE LlmContext -----------------------------
(***************************************************************************)
(* What the model is shown: how the messages of a conversation grow in the *)
(* checkpoint (user messages, assistant messages with tool calls, answers, *)
(* the notes of the verification node), with pauses for approval, failed   *)
(* and interrupted nodes, and how the model node makes a request of them:  *)
(* memory context, window, system prompt, repair of unanswered calls,      *)
(* reasoning fields.                                                       *)
(*                                                                         *)
(* Module AgentGraph models the same nodes with their tools, journal and   *)
(* approvals and leaves the messages out; here it is the other way round.  *)
(***************************************************************************)
EXTENDS Naturals, Sequences, SequencesExt, FiniteSets

CONSTANTS
    Window,         \* LLM_CONTEXT_WINDOW_MESSAGES
    Batch,          \* bound on the tool calls of one model turn
    MaxHistory      \* bound on the messages of the conversation

ASSUME ContextConstants == /\ Window \in Nat \ {0}
                           /\ Batch \in Nat
                           /\ MaxHistory \in Nat

VARIABLES
    history,        \* messages of the checkpoint
    pendingCalls,   \* pending_tools, as the ids of the calls
    unverified,     \* verification_required
    recalled,       \* memory_context_msg is set
    node,           \* the node of the active run that is next, or "idle"
    provider,       \* how the configured model treats reasoning_content
    request         \* the messages last sent to the model

contextVars == <<history, pendingCalls, unverified, recalled, node, provider, request>>

-----------------------------------------------------------------------------
(* Messages: "at" is the place in the history, 0 for a message made for    *)
(* the request.  Call ids are numbers, 0 is no id.                         *)

Make(role, calls, answers, reasoning, at) ==
    [role |-> role, tool_calls |-> calls, tool_call_id |-> answers,
     reasoning_content |-> reasoning, at |-> at]

Plain(role, at) == Make(role, <<>>, 0, FALSE, at)
Answer(id, at) == Make("tool", <<>>, id, FALSE, at)

MemoryMessage == Plain("system", 0)

CallIds(m) == ToSet(m.tool_calls)
IsTool(m) == m.role = "tool"
IsUser(m) == m.role = "user"
IsSystem(m) == m.role = "system"

-----------------------------------------------------------------------------
(* From the history to the request *)

\* The elements of s at the positions in I, in their order.
Rank(I, i) == Cardinality({j \in I : j <= i})
Picked(s, I) == [n \in 1..Cardinality(I) |-> s[CHOOSE i \in I : Rank(I, i) = n]]

LastUser(msgs) == SelectLastInSeq(msgs, IsUser)

\* The memory context stands before the last user message.
InjectMemory(msgs) ==
    IF recalled /\ msgs # <<>>
      THEN InsertAt(msgs, IF LastUser(msgs) = 0 THEN 1 ELSE LastUser(msgs), MemoryMessage)
      ELSE msgs

LastN(s, n) == IF n >= Len(s) THEN s ELSE SubSeq(s, Len(s) - n + 1, Len(s))

DropLeadingOrphanTools(msgs) ==
    LET other == SelectInSeq(msgs, LAMBDA m : ~IsTool(m))
    IN  IF other = 0 THEN <<>> ELSE SubSeq(msgs, other, Len(msgs))

\* Mutant: a history that fills the window is cut.
FitsBelow(msgs) == Len(msgs) < Window

Fits(msgs) == Len(msgs) <= Window

\* The slice tail[: tail_budget - 1] makes room for the first user message,
\* which was already subtracted from the budget, by dropping the newest one.
WindowMessages(msgs) ==
    LET systemAt == {i \in DOMAIN msgs : IsSystem(msgs[i])}
        system == Picked(msgs, systemAt)
        rest == Picked(msgs, DOMAIN msgs \ systemAt)
        first == SelectInSeq(rest, IsUser)
        reserved == Len(system) + (IF first = 0 THEN 0 ELSE 1)
        budget == Window - reserved
        tail == LastN(rest, budget)
        cut == Len(rest) - Len(tail)
        kept == IF first # 0 /\ first <= cut
                  THEN <<rest[first]>> \o DropLeadingOrphanTools(SubSeq(tail, 1, budget - 1))
                  ELSE DropLeadingOrphanTools(tail)
    IN  IF Fits(msgs) THEN msgs
        ELSE LastN(system \o (IF reserved >= Window THEN rest ELSE kept), Window)

\* No system prompt goes out when the list has any message of that role.
PrepareMessagesWithSystemPrompt(msgs) ==
    IF \E i \in DOMAIN msgs : IsSystem(msgs[i]) THEN msgs
    ELSE <<Plain("system", 0)>> \o msgs

\* The tool messages that follow message i without a gap.
AnswersAfter(msgs, i) ==
    {msgs[j].tool_call_id :
        j \in {k \in i + 1..Len(msgs) : \A n \in i + 1..k : IsTool(msgs[n])}}

\* Mutant: an answer counts wherever it stands.
AnsweredAnywhere(msgs) ==
    {msgs[i].tool_call_id : i \in {j \in DOMAIN msgs : IsTool(msgs[j])}}

ValidToolCallIds(msgs) ==
    UNION {CallIds(msgs[i]) \cap AnswersAfter(msgs, i) : i \in DOMAIN msgs}

SanitizeMessages(msgs) ==
    LET valid == ValidToolCallIds(msgs)
        seen(i) == valid \cap UNION {CallIds(msgs[j]) : j \in 1..i - 1}
        ValidCalls(calls) == Picked(calls, {n \in DOMAIN calls : calls[n] \in valid})
        kept == {i \in DOMAIN msgs :
                    IsTool(msgs[i]) => msgs[i].tool_call_id \in seen(i)}
    IN  Picked([i \in DOMAIN msgs |->
                   [msgs[i] EXCEPT !.tool_calls = ValidCalls(@)]], kept)

SetReasoning(msgs, value) ==
    [i \in DOMAIN msgs |->
        IF msgs[i].role = "assistant"
          THEN [msgs[i] EXCEPT !.reasoning_content = value] ELSE msgs[i]]

HasReasoning(msgs) ==
    \E i \in DOMAIN msgs : msgs[i].role = "assistant" /\ msgs[i].reasoning_content

Reasoned(msgs) ==
    IF provider = "rejects" THEN SetReasoning(msgs, FALSE)
    ELSE IF provider = "thinks" \/ HasReasoning(msgs) THEN SetReasoning(msgs, TRUE)
    ELSE msgs

Prepared ==
    Reasoned(SanitizeMessages(PrepareMessagesWithSystemPrompt(WindowMessages(
        InjectMemory(history)))))

-----------------------------------------------------------------------------
(* The nodes *)

Room(n) == Len(history) + n <= MaxHistory

\* The reducer of the messages is operator.add.
AppendMessage(m) == history' = Append(history, [m EXCEPT !.at = Len(history) + 1])

RouteFromEntry ==
    IF pendingCalls # <<>> THEN "gate"
    ELSE IF unverified THEN "verification" ELSE "memory_prepare"

AfterModel(calls) ==
    IF calls # <<>> THEN "gate" ELSE IF unverified THEN "verification" ELSE "idle"

ContextInit ==
    /\ history = <<>>
    /\ pendingCalls = <<>>
    /\ unverified = FALSE
    /\ recalled = FALSE
    /\ node = "idle"
    /\ provider \in {"rejects", "thinks", "unknown"}
    /\ request = <<>>

\* A chat adds the user's message whatever the last run left open.
ChatAdds ==
    /\ node = "idle"
    /\ Room(1)
    /\ AppendMessage(Plain("user", 0))
    /\ recalled' = FALSE
    /\ node' = RouteFromEntry
    /\ UNCHANGED <<pendingCalls, unverified, provider, request>>

\* A decision about a call, which need not be pending any more, resumes the checkpoint
\* without a message.
ApprovalResumes ==
    /\ node = "idle"
    /\ \E i \in DOMAIN history : CallIds(history[i]) # {}
    /\ recalled' = FALSE
    /\ node' = RouteFromEntry
    /\ UNCHANGED <<history, pendingCalls, unverified, provider, request>>

PrepareMemory ==
    /\ node = "memory_prepare"
    /\ \E hits \in BOOLEAN : recalled' = (hits /\ LastUser(history) # 0)
    /\ node' = "model"
    /\ UNCHANGED <<history, pendingCalls, unverified, provider, request>>

\* The ids come from the provider.  That it gives no id twice in a conversation is an
\* assumption.
NextId == 1 + Cardinality(UNION {CallIds(history[i]) : i \in DOMAIN history})

\* Calls of tools that are not available stay in the message and are not run.
ModelAnswers ==
    /\ node = "model"
    /\ Room(1)
    /\ request' = Prepared
    /\ \E n \in 0..Batch, reasoning \in BOOLEAN :
          LET calls == [i \in 1..n |-> NextId + i - 1]
          IN  /\ reasoning => provider # "rejects"
              /\ AppendMessage(Make("assistant", calls, 0, reasoning, 0))
              /\ \E known \in SUBSET DOMAIN calls : pendingCalls' = Picked(calls, known)
    /\ node' = AfterModel(pendingCalls')
    /\ UNCHANGED <<unverified, recalled, provider>>

\* A turn that fails leaves an error message, one that yields nothing no message.
ModelLeavesNoCalls ==
    /\ node = "model"
    /\ request' = Prepared
    /\ \/ Room(1) /\ AppendMessage(Plain("assistant", 0))
       \/ UNCHANGED history
    /\ pendingCalls' = <<>>
    /\ node' = AfterModel(<<>>)
    /\ UNCHANGED <<unverified, recalled, provider>>

\* The gate answers its calls in order and may pause before one of them.
GateAnswers ==
    /\ node = "gate"
    /\ \E n \in 0..Len(pendingCalls), mutated \in BOOLEAN :
          /\ Room(n)
          /\ mutated => n > 0
          /\ history' = history \o [i \in 1..n |-> Answer(pendingCalls[i], Len(history) + i)]
          /\ pendingCalls' = SubSeq(pendingCalls, n + 1, Len(pendingCalls))
          /\ unverified' = (unverified \/ mutated)
          /\ node' = IF n < Len(pendingCalls) THEN "idle"
                     ELSE IF unverified' THEN "verification" ELSE "model"
    /\ UNCHANGED <<recalled, provider, request>>

\* A gate that fails as a whole drops its calls without an answer.
GateGivesUp ==
    /\ node = "gate"
    /\ Room(1)
    /\ AppendMessage(Plain("assistant", 0))
    /\ pendingCalls' = <<>>
    /\ node' = "idle"
    /\ UNCHANGED <<unverified, recalled, provider, request>>

VerificationPasses ==
    /\ node = "verification"
    /\ Room(1)
    /\ AppendMessage(Plain("system", 0))
    /\ unverified' = FALSE
    /\ node' = "model"
    /\ UNCHANGED <<pendingCalls, recalled, provider, request>>

VerificationBlocks ==
    /\ node = "verification"
    /\ Room(1)
    /\ AppendMessage(Plain("assistant", 0))
    /\ unverified' \in BOOLEAN
    /\ node' = "idle"
    /\ UNCHANGED <<pendingCalls, recalled, provider, request>>

\* A Stop, a crash or the recursion limit: the checkpoint keeps the finished nodes.
Interrupt ==
    /\ node # "idle"
    /\ node' = "idle"
    /\ UNCHANGED <<history, pendingCalls, unverified, recalled, provider, request>>

ContextNext ==
    \/ ChatAdds
    \/ ApprovalResumes
    \/ PrepareMemory
    \/ ModelAnswers
    \/ ModelLeavesNoCalls
    \/ GateAnswers
    \/ GateGivesUp
    \/ VerificationPasses
    \/ VerificationBlocks
    \/ Interrupt

ContextSpec == ContextInit /\ [][ContextNext]_contextVars

-----------------------------------------------------------------------------
(* Properties *)

\* Whatever pauses, new messages, failures and the window did to the history,
\* a request is one the providers accept: every call an assistant message still
\* carries is answered right after it, every tool message answers a call of the
\* assistant message before it, and reasoning_content is on all assistant
\* messages or on none (sanitize_messages_for_openai, _ensure_reasoning_content).
RequestWellFormed ==
    /\ \A i \in DOMAIN request : CallIds(request[i]) \subseteq AnswersAfter(request, i)
    /\ \A i \in DOMAIN request : IsTool(request[i]) =>
          \E j \in 1..i - 1 :
              /\ request[i].tool_call_id \in CallIds(request[j])
              /\ \A k \in j + 1..i : IsTool(request[k])
    /\ HasReasoning(request) =>
          \A i \in DOMAIN request :
              request[i].role = "assistant" => request[i].reasoning_content

\* As long as the conversation fits the window, a turn shows the model all that
\* belongs to the current request: the user's last message, right behind the
\* memory context when there is one, and each answered call made since then
\* (model_node.py, "Inject memory context just before the last user message").
CurrentTurnInView ==
    [][request' # request =>
        LET last == LastUser(history)
            sent(i) == {k \in DOMAIN request' : request'[k].at = i}
        IN  Len(InjectMemory(history)) <= Window =>
              /\ \A k \in sent(last) : recalled => request'[k - 1] = MemoryMessage
              /\ last # 0 => sent(last) # {}
              /\ \A i \in last + 1..Len(history) :
                    IsTool(history[i])
                    /\ (\E j \in last + 1..i : history[i].tool_call_id \in CallIds(history[j]))
                    => sent(i) # {}
      ]_contextVars
=============================================================================

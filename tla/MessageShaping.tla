---------------------------- MODULE MessageShaping ----------------------------
(* From the rows of a session to the request a model is sent: get_history and build_messages,  *)
(* the messages a turn adds, the runner's repairs and cuts before each call, and what the      *)
(* chat, Anthropic and Responses clients make of the list.  A model refuses a list whose       *)
(* roles do not alternate or whose tool calls and results do not belong together.              *)
EXTENDS Naturals, Sequences, SequencesExt, FiniteSets

CONSTANTS
    MaxMessages,    \* bound: messages ever made
    Sizes,          \* sizes of a message, in tokens
    Budget,         \* the prompt budget of _snip_history, in tokens
    KeepRecent      \* _MICROCOMPACT_KEEP_RECENT

ASSUME ShapeAssumption == MaxMessages \in Nat /\ Sizes \subseteq Nat \ {0} /\ Budget \in Nat /\ KeepRecent \in Nat \ {0}

VARIABLES
    rows,       \* Session.messages after last_consolidated
    messages,   \* the list of the running turn, <<>> between turns
    saved,      \* how many of them are rows already: the skip of _save_turn
    cause,      \* who began the turn: "user", "subagent"
    count       \* messages made so far

shapeVars == <<rows, messages, saved, cause, count>>

(* A message: its role, the ids of its tool calls and of the results it carries, the numbers   *)
(* of the messages whose text it holds, its size.                                               *)
Message(role, calls, results, says, size) ==
    [role |-> role, calls |-> calls, results |-> results, says |-> says, size |-> size]
System == Message("system", <<>>, <<>>, {}, 1)
Text(role, n, size) == Message(role, <<>>, <<>>, {n}, size)
BackfillResult(id) == Message("tool", <<>>, <<id>>, {}, 1)

LastRole(ms) == IF ms = <<>> THEN "none" ELSE ms[Len(ms)].role
IdsIn(q) == {q[i] : i \in DOMAIN q}
\* What is left of a list: the elements at the places I.
Picked(q, I) ==
    LET out[i \in 0..Len(q)] == IF i = 0 THEN <<>> ELSE IF i \in I THEN Append(out[i - 1], q[i]) ELSE out[i - 1]
    IN out[Len(q)]
WithoutSystem(ms) == Picked(ms, {i \in DOMAIN ms : ms[i].role # "system"})
WithText(a, b) == [a EXCEPT !.says = @ \cup b.says, !.size = @ + b.size]

\* find_legal_message_start: past the last result whose call is not behind that start.
LegalStart(ms) ==
    LET Scan(acc, i) ==
            IF ms[i].role = "assistant" THEN [acc EXCEPT !.declared = @ \cup IdsIn(ms[i].calls)]
            ELSE IF ms[i].role = "tool" /\ ~ IdsIn(ms[i].results) \subseteq acc.declared
            THEN [start |-> i, declared |-> {}] ELSE acc
        seen[i \in 0..Len(ms)] == IF i = 0 THEN [start |-> 0, declared |-> {}] ELSE Scan(seen[i - 1], i)
    IN seen[Len(ms)].start
From(ms, i) == SubSeq(ms, i, Len(ms))
AtLegalStart(ms) == From(ms, LegalStart(ms) + 1)
Users(ms) == {i \in DOMAIN ms : ms[i].role = "user"}
First(I) == CHOOSE i \in I : \A j \in I : i <= j
Last1(I) == CHOOSE i \in I : \A j \in I : j <= i

\* Session.get_history, with no window.
History(all) == AtLegalStart(IF Users(all) = {} THEN all ELSE From(all, First(Users(all))))

\* build_messages: the new message is merged into a last row of its role.
BuildMessages(history, new) ==
    LET ms == <<System>> \o history
    IN IF LastRole(ms) = new.role THEN [ms EXCEPT ![Len(ms)] = WithText(@, new)] ELSE Append(ms, new)

\* _drop_orphan_tool_results.
DropOrphans(ms) ==
    LET Declared(i) == UNION {IdsIn(ms[j].calls) : j \in 1..i}
    IN Picked(ms, {i \in DOMAIN ms : ms[i].role # "tool" \/ IdsIn(ms[i].results) \subseteq Declared(i)})

\* _backfill_missing_tool_results: after the results the assistant message has already.
Backfill(ms) ==
    LET fulfilled == UNION {IdsIn(ms[i].results) : i \in DOMAIN ms}
        Insert(out, m) ==
            LET missing == Picked(m.calls, {k \in DOMAIN m.calls : m.calls[k] \notin fulfilled})
            IN [held |-> IF m.role = "tool" THEN out.held ELSE [k \in DOMAIN missing |-> BackfillResult(missing[k])],
                list |-> Append(IF m.role = "tool" THEN out.list ELSE out.list \o out.held, m)]
        all[i \in 0..Len(ms)] == IF i = 0 THEN [held |-> <<>>, list |-> <<>>] ELSE Insert(all[i - 1], ms[i])
    IN all[Len(ms)].list \o all[Len(ms)].held

\* _microcompact: the text of old tool results is left out.
Microcompact(ms) ==
    LET tools == {i \in DOMAIN ms : ms[i].role = "tool"}
        Stale(i) == i \in tools /\ Cardinality({j \in tools : j > i}) >= KeepRecent
    IN [i \in DOMAIN ms |-> IF Stale(i) THEN [ms[i] EXCEPT !.says = {}, !.size = 1] ELSE ms[i]]

Total(ms) == FoldLeft(LAMBDA n, m : n + m.size, 0, ms)

\* A bug in _snip_history: the oldest messages are kept.
OldestFitting(ms, room) == SubSeq(ms, 1, Cardinality({i \in DOMAIN ms : i = 1 \/ Total(SubSeq(ms, 1, i)) <= room}))
\* The longest suffix of the rest within the budget, at least one message.
FittingSuffix(ms, room) ==
    From(ms, First({i \in DOMAIN ms : i = Len(ms) \/ Total(From(ms, i)) <= room}))
\* It begins with a user message: its own first, or the last one before it.
FromUser(kept, all) ==
    CASE Users(kept) # {} -> From(kept, First(Users(kept)))
      [] Users(kept) = {} /\ Users(all) # {} -> From(all, Last1(Users(all)))
      [] OTHER -> kept

\* _snip_history.
Snip(ms) ==
    LET rest == WithoutSystem(ms)
    IN IF Total(ms) <= Budget \/ rest = <<>> THEN ms
       ELSE <<System>> \o AtLegalStart(FromUser(FittingSuffix(rest, IF Budget > 1 THEN Budget - 1 ELSE 1), rest))

\* _prepare_messages_for_model.
Prepared(ms) == Backfill(DropOrphans(Snip(Microcompact(Backfill(DropOrphans(ms))))))

\* A bug in _enforce_role_alternation: neighbours are merged whether or not one has tool calls.
MergeBlind(out, m) ==
    IF out = <<>> \/ m.role \notin {"user", "assistant"} THEN Append(out, m)
    ELSE IF out[Len(out)].role # m.role THEN Append(out, m)
    ELSE [out EXCEPT ![Len(out)] = WithText(@, m)]
\* _enforce_role_alternation: the merge of two neighbours of one role ...
MergeInto(out, m) ==
    LET prev == out[Len(out)]
    IN IF out = <<>> \/ m.role \notin {"user", "assistant"} THEN Append(out, m)
       ELSE IF prev.role # m.role THEN Append(out, m)
       ELSE IF m.calls # <<>> THEN [out EXCEPT ![Len(out)] = m]
       ELSE IF prev.calls # <<>> THEN out
       ELSE [out EXCEPT ![Len(out)] = WithText(@, m)]
\* ... the assistant messages at the end ...
Trailing(ms) == {i \in DOMAIN ms : \A j \in i..Len(ms) : ms[j].role = "assistant"}
WithoutTrailing(ms) == IF Trailing(ms) = {} THEN ms ELSE SubSeq(ms, 1, First(Trailing(ms)) - 1)
\* ... the first of which, popped last, becomes the user's when no other is left ...
Recovered(ms) ==
    LET cut == WithoutTrailing(ms)
    IN IF Trailing(ms) # {} /\ cut # <<>> /\ \A i \in DOMAIN cut : cut[i].role \notin {"user", "tool"}
       THEN Append(cut, [ms[First(Trailing(ms))] EXCEPT !.role = "user"]) ELSE cut
\* ... and a synthetic user message before an assistant that would be first.
Opened(ms) ==
    LET i == First({j \in DOMAIN ms : ms[j].role # "system"})
    IN IF (\E j \in DOMAIN ms : ms[j].role # "system") /\ ms[i].role = "assistant" /\ ms[i].calls = <<>>
       THEN SubSeq(ms, 1, i - 1) \o <<Message("user", <<>>, <<>>, {}, 1)>> \o From(ms, i) ELSE ms
\* sanitize_openai_messages: a message with tool calls loses its text.
Sanitized(ms) == [i \in DOMAIN ms |-> IF ms[i].calls # <<>> THEN [ms[i] EXCEPT !.says = {}] ELSE ms[i]]
Merged(ms) ==
    LET out[i \in 0..Len(ms)] == IF i = 0 THEN <<>> ELSE MergeInto(out[i - 1], ms[i]) IN out[Len(ms)]
ChatRequest(ms) == Opened(Recovered(Merged(Sanitized(ms))))

\* _convert_messages of the Anthropic client: results are a user's, the system prompt is apart ...
AnthropicTurn(m) == IF m.role = "tool" THEN [m EXCEPT !.role = "user"] ELSE m
\* ... and _merge_consecutive joins neighbours, drops assistants at the end, opens with a user.
Both(a, b) == [WithText(a, b) EXCEPT !.calls = @ \o b.calls, !.results = @ \o b.results]
JoinTurn(out, m) ==
    IF out # <<>> /\ LastRole(out) = m.role THEN [out EXCEPT ![Len(out)] = Both(@, m)] ELSE Append(out, m)
Joined(ms) ==
    LET out[i \in 0..Len(ms)] == IF i = 0 THEN <<>> ELSE JoinTurn(out[i - 1], ms[i]) IN out[Len(ms)]
Reroute(ms) ==
    LET cut == WithoutTrailing(ms)
    IN IF cut = <<>> /\ ms # <<>> /\ ms[1].calls = <<>> THEN <<[ms[1] EXCEPT !.role = "user"]>> ELSE cut
AnthropicRequest(ms) ==
    LET rest == WithoutSystem(ms)
    IN Opened(Reroute(Joined([i \in DOMAIN rest |-> AnthropicTurn(rest[i])])))

\* convert_messages of the Responses client: items in the order of the messages.
ResponsesRequest(ms) == WithoutSystem(ms)

(* ------------------------------------- the turns ------------------------------------- *)
ShapeInit == rows = <<>> /\ messages = <<>> /\ saved = 0 /\ cause = "user" /\ count = 0

Made(n) == count + n <= MaxMessages /\ count' = count + n
\* A user's message begins a turn; its row is saved at once.
BeginTurn(size) ==
    /\ messages = <<>> /\ Made(1)
    /\ messages' = BuildMessages(History(rows), Text("user", count + 1, size))
    /\ rows' = Append(rows, Text("user", count + 1, size)) /\ saved' = Len(messages') /\ cause' = "user"

\* A subagent's result begins a turn: a row of the assistant, and a list that ends with it.
\* (Not in a session /new has emptied: README, observations.)
BeginFollowUp(size) ==
    /\ messages = <<>> /\ Made(1) /\ rows # <<>>
    /\ rows' = Append(rows, Text("assistant", count + 1, size)) /\ cause' = "subagent"
    /\ messages' = BuildMessages(History(rows'), Message("assistant", <<>>, <<>>, {}, 1)) /\ saved' = Len(messages')

\* The answer asks for k tools, which run; their results follow.
UseTools(k, size) ==
    /\ messages # <<>> /\ Made(k + 1)
    /\ LET ids == [i \in 1..k |-> count + 1 + i]
       IN messages' = messages \o <<Message("assistant", ids, <<>>, {count + 1}, 1)>>
                        \o [i \in 1..k |-> Message("tool", <<>>, <<ids[i]>>, {ids[i]}, size)]
    /\ UNCHANGED <<rows, saved, cause>>

\* _append_injected_messages: a message that came during the turn, merged into a user's.
Injected(ms, m) == IF LastRole(ms) = "user" THEN [ms EXCEPT ![Len(ms)] = WithText(@, m)] ELSE Append(ms, m)
Inject(size) ==
    /\ messages # <<>> /\ LastRole(messages) = "tool" /\ Made(1)
    /\ messages' = Injected(messages, Text("user", count + 1, size)) /\ UNCHANGED <<rows, saved, cause>>

\* A cut-off answer, a goal that goes on, a message that came during the answer.
GoOn(size) ==
    /\ messages # <<>> /\ Made(2)
    /\ messages' = Append(Append(messages, Text("assistant", count + 1, 1)), Text("user", count + 2, size))
    /\ UNCHANGED <<rows, saved, cause>>

Closed(new) ==
    /\ rows' = rows \o SubSeq(messages, saved + 1, Len(messages)) \o new
    /\ messages' = <<>> /\ saved' = 0 /\ cause' = "user"
\* The final answer; _save_turn.
Finish(size) == messages # <<>> /\ Made(1) /\ Closed(<<Text("assistant", count + 1, size)>>)
\* A stopped turn, restored from its checkpoint; a user's message with no answer gets a note.
StopTurn ==
    /\ messages # <<>> /\ Made(1)
    /\ Closed(IF LastRole(messages) = "user" THEN <<Text("assistant", count + 1, 1)>> ELSE <<>>)
\* Consolidation moves last_consolidated to the beginning of a turn.
Consolidate ==
    /\ messages = <<>> /\ \E i \in Users(rows) : i > 1 /\ rows' = From(rows, i)
    /\ UNCHANGED <<messages, saved, cause, count>>

ShapeNext ==
    \/ \E z \in Sizes : BeginTurn(z) \/ BeginFollowUp(z) \/ Inject(z) \/ GoOn(z) \/ Finish(z)
    \/ \E k \in 1..2, z \in Sizes : UseTools(k, z)
    \/ StopTurn \/ Consolidate
ShapeSpec == ShapeInit /\ [][ShapeNext]_shapeVars

(* -------------------------------------- properties -------------------------------------- *)
Apart(ms, i) == i < Len(ms) => ms[i].role # ms[i + 1].role \/ ms[i].role \in {"tool", "system"}
\* The results that follow message i at once are those of its calls, in any order.
Answered(ms, i) ==
    LET n == Len(ms[i].calls)
    IN /\ i + n <= Len(ms)
       /\ IdsIn(ms[i].calls) = UNION {IdsIn(ms[j].results) : j \in (i + 1)..(i + n)}
Asked(ms, i) == \E j \in 1..(i - 1) :
    /\ IdsIn(ms[i].results) \subseteq IdsIn(ms[j].calls) /\ \A k \in (j + 1)..i : ms[k].role = "tool"

ChatLegal(ms) ==
    /\ \A i \in DOMAIN ms : Apart(ms, i) /\ Answered(ms, i) /\ (ms[i].role = "tool" => Asked(ms, i))
    /\ LastRole(ms) \in {"user", "tool"}
    /\ \A i \in DOMAIN ms : ms[i].role = "assistant" => \E j \in 1..(i - 1) : ms[j].role # "system"
AnthropicLegal(ms) ==
    /\ ms # <<>> /\ ms[1].role = "user" /\ LastRole(ms) = "user"
    /\ \A i \in 1..(Len(ms) - 1) : ms[i].role # ms[i + 1].role /\ IdsIn(ms[i].calls) = IdsIn(ms[i + 1].results)
    /\ ms[1].results = <<>>

\* Whatever was said, cut and repaired before, each client sends a list its API accepts: roles
\* alternate, it begins and ends with the user or a tool, and every tool call is followed at once
\* by its results and no others (_prepare_messages_for_model, _enforce_role_alternation,
\* _merge_consecutive).
RequestLegal ==
    messages # <<>> =>
        LET ms == Prepared(messages)
        IN /\ ChatLegal(ChatRequest(ms)) /\ AnthropicLegal(AnthropicRequest(ms))
           /\ \A i \in DOMAIN ResponsesRequest(ms) : Answered(ResponsesRequest(ms), i)

Says(ms) == UNION {ms[i].says : i \in DOMAIN ms}
\* What a user or a tool said last is in the list each client sends (_snip_history keeps it).
NewestSent ==
    messages # <<>> /\ LastRole(messages) \in {"user", "tool"} =>
        LET ms == Prepared(messages)
            new == messages[Len(messages)].says
        IN \A q \in {ChatRequest(ms), AnthropicRequest(ms), ResponsesRequest(ms)} : new \subseteq Says(q)

\* loop.py on the result of a subagent: "still being visible to the LLM via the merged prompt".
FollowUpSent ==
    messages # <<>> /\ cause = "subagent" /\ saved = Len(messages) =>
        messages[saved].says \subseteq Says(ChatRequest(Prepared(messages)))

\* What a model is sent is legal, and holds what is new.
RequestSound == RequestLegal /\ NewestSent
================================================================================

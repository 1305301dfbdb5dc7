------------------------------ MODULE ToolStream ------------------------------
(* A streamed answer with tool calls: the pieces a provider sends, the response a client puts  *)
(* together from them, the live progress of file edits the WebUI shows as chips, and the run   *)
(* of the calls. A stream that stalls is tried again with the same progress tracker.           *)
EXTENDS Naturals, Sequences, FiniteSets, Functions

CONSTANTS
    StreamApis, \* "chat", "responses", "anthropic"
    StreamCalls,  \* the calls of an answer, 1..n: file edits
    Paths,      \* files
    LostPaths,  \* those whose path does not resolve: outside the workspace, say
    MaxTries    \* bound: attempts at the stream

ASSUME ToolStreamAssumption ==
    /\ StreamApis \subseteq {"chat", "responses", "anthropic"} /\ MaxTries \in Nat \ {0}
    /\ IsFiniteSet(StreamCalls) /\ StreamCalls = 1..Cardinality(StreamCalls) /\ LostPaths \subseteq Paths

\* What the server sends of a call: its name and id, its path, the rest of its arguments.
PiecesOf == <<"path", "rest">>
NoCallId == <<0, 0>>
\* The id of a call: of the attempt and the call, or made up by the client (_short_tool_id).
WireIds == (1..MaxTries) \X StreamCalls
FreshId(c) == <<0, c>>
ChipIds == WireIds \cup {FreshId(c) : c \in StreamCalls}

VARIABLES
    api, pathOf,    \* the provider's API; the file of each call
    reused,         \* the provider gives parallel calls one id, as some chat providers do
    stage,          \* "streaming", "ended", "ran"
    attempt,
    sent,           \* per call: the pieces sent of it in this attempt, its name included
    bufs,           \* per call: [id, args] as the client has put them together
    progress,       \* StreamingFileEditTracker._states, per call: [id, args, tracker]
    chips,          \* the WebUI's chips, by id: "none", "editing", "done", "error"
    final,          \* the calls of the response: [id, call, args]
    refused,        \* history: the calls the registry did not let run
    whole           \* history: the stream was complete

toolVars == <<api, pathOf, reused, stage, attempt, sent, bufs, progress, chips, final, refused, whole>>

ToolInit ==
    /\ api \in StreamApis /\ pathOf \in [StreamCalls -> Paths] /\ reused \in (IF api = "chat" THEN BOOLEAN ELSE {FALSE})
    /\ stage = "streaming" /\ attempt = 1 /\ sent = [c \in StreamCalls |-> 0]
    /\ bufs = [c \in StreamCalls |-> [id |-> NoCallId, args |-> <<>>]]
    /\ progress = [c \in StreamCalls |-> [id |-> NoCallId, args |-> <<>>, tracker |-> NoCallId]]
    /\ chips = [i \in ChipIds |-> "none"] /\ final = <<>> /\ refused = {} /\ whole = FALSE

WireId(c) == IF reused THEN <<attempt, 1>> ELSE <<attempt, c>>

\* The chip of a file_activity event: what has ended does not start again.
Shown(old, id, status) ==
    IF status = "editing" /\ old[id] \in {"done", "error"} THEN old ELSE [old EXCEPT ![id] = status]
ShownAll(old, ids, status) == [i \in ChipIds |-> IF i \in ids THEN Shown(old, i, status)[i] ELSE old[i]]

\* A bug in the client: a piece replaces what came before.
AccumulatedLast(buf, id, piece) == [id |-> id, args |-> IF piece = "name" THEN buf.args ELSE <<piece>>]
\* _accum_tc, consume_sse: a piece is added to the buffer of its call.
Accumulated(buf, id, piece) == [id |-> id, args |-> IF piece = "name" THEN buf.args ELSE Append(buf.args, piece)]

\* apply_delta and update: the path once it is complete makes the tracker, under the id of then,
\* when it resolves.
Path(state) == "path" \in {state.args[i] : i \in DOMAIN state.args}
Progressed(state, id, piece, file) ==
    LET args == IF piece = "name" THEN state.args ELSE Append(state.args, piece)
        made == state.tracker = NoCallId /\ Path([args |-> args]) /\ file \notin LostPaths
    IN [id |-> id, args |-> args, tracker |-> IF made THEN id ELSE state.tracker]
\* A live event carries the tracker's id, a pending one the id of the state.
LiveId(state) == IF state.tracker = NoCallId THEN state.id ELSE state.tracker
\* The event of an update: pending before the path is complete, live with a tracker, else none.
Streamed(old, state) ==
    IF Path(state) /\ state.tracker = NoCallId THEN old ELSE Shown(old, LiveId(state), "editing")

\* The next piece of a call arrives; calls are opened in the order of their index.
PieceArrives(c) ==
    /\ stage = "streaming" /\ sent[c] < Len(PiecesOf) + 1 /\ \A d \in StreamCalls : d < c => sent[d] > 0
    /\ LET piece == IF sent[c] = 0 THEN "name" ELSE PiecesOf[sent[c]]
           state == Progressed(progress[c], WireId(c), piece, pathOf[c])
       IN /\ sent' = [sent EXCEPT ![c] = @ + 1]
          /\ bufs' = [bufs EXCEPT ![c] = Accumulated(@, WireId(c), piece)]
          /\ progress' = [progress EXCEPT ![c] = state]
          /\ chips' = Streamed(chips, state)
    /\ UNCHANGED <<api, pathOf, reused, stage, attempt, final, refused, whole>>

Begun == {c \in StreamCalls : sent[c] > 0}
\* Calls in the order of their index.
Increasing(q) == \A k, l \in DOMAIN q : k < l => q[k] < q[l]
ByIndex(S) == CHOOSE q \in [1..Cardinality(S) -> S] : Increasing(q) /\ Range(q) = S
\* A bug in _parse_chunks: ids are taken as they come.
SameId(c) == bufs[c].id
\* _parse_chunks: an id that is seen again is replaced.
UniqueId(c) == IF \E d \in 1..(c - 1) : bufs[d].id = bufs[c].id THEN FreshId(c) ELSE bufs[c].id
(* The calls of the response: chat gives all it has heard of, Responses those whose item is    *)
(* done, Anthropic what the final message holds.                                                *)
Announced(c) == api # "responses" \/ sent[c] = Len(PiecesOf) + 1
Response ==
    LET calls == ByIndex({c \in Begun : Announced(c)})
    IN [k \in DOMAIN calls |-> [id |-> IF api = "chat" THEN UniqueId(calls[k]) ELSE bufs[calls[k]].id,
                                call |-> calls[k], args |-> bufs[calls[k]].args]]

\* resolve_file_edit_path: two calls name one file, however they spell it.
SameFile(c, d) == pathOf[c] = pathOf[d]

\* matches_final_tool_call: by id (a Responses id has the item's id behind it), else by file; a
\* call whose path has not come matches any.
Matches(c, f) ==
    \/ api # "responses" /\ progress[c].id = f.id
    \/ Path(f) /\ (Path(progress[c]) => SameFile(c, f.call))
\* canonical_call_id_for.
Canonical(f) ==
    LET hits == {c \in StreamCalls : progress[c].id # NoCallId /\ Matches(c, f)}
    IN IF hits = {} THEN NoCallId ELSE progress[CHOOSE c \in hits : \A d \in hits : c <= d].id
\* apply_final_call_ids: one id is given to one call.
Keyed(calls) ==
    LET Used(n) == {NoCallId} \cup {Canonical(calls[k]) : k \in 1..n - 1}
    IN IF api = "responses" THEN calls
       ELSE [n \in DOMAIN calls |-> IF Canonical(calls[n]) \in Used(n) THEN calls[n]
                                    ELSE [calls[n] EXCEPT !.id = Canonical(calls[n])]]

\* A bug in error_unmatched: only an answer without calls has dropped any.
DroppedLate(calls) == IF calls = <<>> THEN {c \in StreamCalls : progress[c].tracker # NoCallId} ELSE {}
\* error_unmatched: the streamed edits no call of the response stands for.
Dropped(calls) ==
    {c \in StreamCalls : progress[c].tracker # NoCallId /\ \A k \in DOMAIN calls : ~ Matches(c, calls[k])}

\* _request_model after the answer: flush, the ids, the chips of dropped calls.
Settled(calls) ==
    /\ final' = Keyed(calls) /\ stage' = "ended"
    /\ chips' = ShownAll(ShownAll(chips, {progress[c].tracker : c \in StreamCalls} \ {NoCallId}, "editing"),
                         {LiveId(progress[c]) : c \in Dropped(calls)}, "error")
    /\ UNCHANGED <<api, pathOf, reused, attempt, sent, bufs, progress, refused>>

\* The stream is complete.
StreamEnds ==
    /\ stage = "streaming" /\ Begun # {} /\ \A c \in StreamCalls : sent[c] \in {0, Len(PiecesOf) + 1}
    /\ Settled(Response) /\ whole' = TRUE
\* The connection closes early; what there is counts as a finished answer.
StreamCut ==
    /\ stage = "streaming" /\ \E c \in StreamCalls : sent[c] \in 1..Len(PiecesOf)
    /\ Settled(Response) /\ whole' = FALSE
\* A stall or an error: the next attempt sends everything again, the tracker keeps its states.
StreamStalls ==
    /\ stage = "streaming" /\ attempt < MaxTries
    /\ attempt' = attempt + 1 /\ sent' = [c \in StreamCalls |-> 0]
    /\ bufs' = [c \in StreamCalls |-> [id |-> NoCallId, args |-> <<>>]]
    /\ UNCHANGED <<api, pathOf, reused, stage, progress, chips, final, refused, whole>>
\* The last error, the runner's timeout: a response with finish_reason "error".
StreamFails == stage = "streaming" /\ Settled(<<>>) /\ whole' = FALSE

\* The end event of a call's edit, or its error event: for a call that runs, with a path that
\* resolves.
Ending(i, barred) ==
    {k \in DOMAIN final \ barred : final[k].id = i /\ pathOf[final[k].call] \notin LostPaths}
RunStatus(i, failed, barred) ==
    IF Ending(i, barred) = {} THEN chips[i]
    ELSE IF Ending(i, barred) \cap failed # {} THEN "error" ELSE "done"
\* _run_tool for every call: its chip starts unless it was streamed, and ends with the tool; a
\* call with bad parameters is refused before that.
RunCalls ==
    /\ stage = "ended" /\ stage' = "ran"
    /\ \E failed \in SUBSET DOMAIN final, barred \in SUBSET DOMAIN final :
           /\ chips' = [i \in ChipIds |-> RunStatus(i, failed, barred)]
           /\ refused' = {final[k].call : k \in barred}
    /\ UNCHANGED <<api, pathOf, reused, attempt, sent, bufs, progress, final, whole>>

ToolNext ==
    \/ \E c \in StreamCalls : PieceArrives(c)
    \/ StreamEnds \/ StreamCut \/ StreamStalls \/ StreamFails \/ RunCalls
ToolSpec == ToolInit /\ [][ToolNext]_toolVars

\* The response of a complete stream has the calls the provider sent, each with all its pieces in
\* order and an id of its own, however their pieces and the attempts before were interleaved.
CallsWhole ==
    stage # "streaming" /\ whole =>
        /\ Len(final) = Cardinality({c \in StreamCalls : sent[c] > 0})
        /\ \A k \in DOMAIN final :
               final[k].args = PiecesOf /\ \A l \in DOMAIN final : final[l].id = final[k].id => l = k

\* Every chip a streamed call has opened is closed once the answer's calls have run, also when the
\* response lost the call: after one attempt, with ids and files of their own, the paths received.
\* Left open are the chips of a path that does not resolve and of a call the registry refused.
ChipsClose ==
    stage = "ran" /\ attempt = 1 /\ ~reused /\ (\A c \in StreamCalls : sent[c] # 1) /\ IsInjective(pathOf) =>
        \A i \in ChipIds : chips[i] = "editing" =>
            \E c \in StreamCalls : i = WireId(c) /\ (pathOf[c] \in LostPaths \/ c \in refused)

\* runner.py: calls the final response dropped "get an explicit error chip so the WebUI doesn't
\* leave them in "editing"".
ChipsSettle == stage = "ran" => \A i \in ChipIds : chips[i] # "editing"

\* What a stream leaves: whole calls, and no chip of an edit left open.
CallsSound == CallsWhole /\ ChipsClose
================================================================================

---------------------------- MODULE TurnPersistence ----------------------------
(***************************************************************************)
(* What one turn leaves in its session: the user row written before the    *)
(* first model call, the runtime checkpoints written during the tool loop  *)
(* (agent/runner.py), the rows saved when the turn ends (turn_writer.py),  *)
(* and what a later turn makes of a session whose turn did not end         *)
(* (checkpoint.py), with /stop, /new, /regenerate and inline commands      *)
(* writing to the same session (loop.py, command/builtins/lifecycle.py).   *)
(*                                                                         *)
(* One session: its turns do not overlap (TurnDispatch!SessionSerial).     *)
(* Every change of the session is saved before the next suspension point   *)
(* and save() replaces the file atomically, so the session is its file.    *)
(* A row is its role and its origin: the user messages of a user row, the  *)
(* turn and iteration that made any other row.  A "notice" is an assistant *)
(* row whose text is the program's: an error, a limit, an interruption.    *)
(***************************************************************************)
EXTENDS Naturals, Sequences

CONSTANTS
    Msgs,           \* user messages of the session
    Subs,           \* subagent results that start a turn of their own (system messages)
    MaxIterations,  \* agents.defaults.max_tool_iterations
    MaxIter,        \* bound: model calls explored in one turn
    MaxInterrupts,  \* bound: crashes, failed turns and cancelled direct calls
    MaxCommands,    \* bound: slash commands
    Commands,       \* the commands sent, a subset of CommandNames
    Follow          \* the messages that may be injected into a running turn

CommandNames == {"stop", "inline", "new", "regenerate"}

ASSUME PersistenceAssumption ==
    /\ Msgs \cap Subs = {} /\ Follow \subseteq Msgs
    /\ Commands \subseteq CommandNames
    /\ MaxIterations \in Nat \ {0} /\ MaxIter \in Nat \ {0}
    /\ MaxInterrupts \in Nat /\ MaxCommands \in Nat

VARIABLES
    rows,     \* Session.messages, saved
    pending,  \* metadata "pending_user_turn", saved
    ckpt,     \* metadata "runtime_checkpoint", saved: the rows it stands for, or <<>>
    phase,    \* where the turn stands, see Phases
    cur,      \* the messages the turn answers
    msgs,     \* the runner's message list, without the system prompt
    skip,     \* how many of msgs the end of the turn does not save
    turn,     \* number of the turn
    iter,     \* model calls made by the turn
    taken,    \* messages a turn has started for or that were injected
    again,    \* what /regenerate has published again: the origins of user rows
    interrupts, commands

saved == <<rows, pending, ckpt>>
volatile == <<phase, cur, msgs, skip, turn, iter>>
vars == <<saved, volatile, taken, again, interrupts, commands>>

Phases == {"idle", "recovered", "model", "tools", "exhausted", "final"}

----------------------------------------------------------------------------
(* Rows. *)

UserRow(of) == [role |-> "user", of |-> of, turn |-> 0, n |-> 0]
Made(role) == [role |-> role, of |-> {}, turn |-> turn, n |-> iter]
Nudge == Made("user")
SubRow(s) == [role |-> "assistant", of |-> {s}, turn |-> 0, n |-> 0]
Closing == [role |-> "notice", of |-> {}, turn |-> turn, n |-> 0]
CommandRows ==
    <<[role |-> "cmdUser", of |-> {}, turn |-> 0, n |-> commands],
      [role |-> "cmdReply", of |-> {}, turn |-> 0, n |-> commands]>>

IsUser(r) == r.role \in {"user", "cmdUser"}
IsTool(r) == r.role \in {"tool", "interrupted"}
Answers(t, c) == IsTool(t) /\ c.role = "calls" /\ t.turn = c.turn /\ t.n = c.n
LastRow(s) == s[Len(s)]
EndsWith(s, role) == s # <<>> /\ LastRow(s).role = role
EndsWithText(s) == EndsWith(s, "assistant") \/ EndsWith(s, "notice")
Earliest(S) == CHOOSE i \in S : \A j \in S : i <= j
Latest(S) == CHOOSE i \in S : \A j \in S : j <= i

\* find_legal_message_start: the first index after which no tool result is an orphan.
LegalStart(s) ==
    Earliest({i \in 1..(Len(s) + 1) : \A t \in i..Len(s) :
                IsTool(s[t]) => \E c \in i..(t - 1) : Answers(s[t], s[c])})

\* The rows but those of slash commands, as the loop of get_history collects them.
Plain(r) == r.role \notin {"cmdUser", "cmdReply"}
PlainRows(s) ==
    LET out[i \in 0..Len(s)] ==
            IF i = 0 THEN <<>> ELSE IF Plain(s[i]) THEN Append(out[i - 1], s[i]) ELSE out[i - 1]
    IN  out[Len(s)]

\* Session.get_history: from the first user row on, from a legal start, without the
\* rows of slash commands.
History(s) ==
    LET users == {i \in 1..Len(s) : IsUser(s[i])}
        t == IF users = {} THEN s ELSE SubSeq(s, Earliest(users), Len(s))
    IN  PlainRows(SubSeq(t, LegalStart(t), Len(t)))

\* A user row that follows a user row is merged into it (build_messages for the message
\* of the turn, _append_injected_messages for injected ones).
AddUser(s, r) ==
    IF EndsWith(s, "user")
    THEN [s EXCEPT ![Len(s)].of = @ \cup r.of]
    ELSE Append(s, r)

\* _append_final_message: an assistant row at the end is replaced.
AddFinal(s, r) == IF EndsWithText(s) THEN [s EXCEPT ![Len(s)] = r] ELSE Append(s, r)

\* _append_model_error_placeholder: an assistant row at the end is left alone.
AddPlaceholder(s, r) == IF EndsWithText(s) THEN s ELSE Append(s, r)

\* restore_runtime_checkpoint: the checkpoint's rows, less those already at the end.
Restored(s, c) ==
    LET shorter == IF Len(s) < Len(c) THEN Len(s) ELSE Len(c)
        overlap == Latest({k \in 0..shorter :
                             SubSeq(s, Len(s) - k + 1, Len(s)) = SubSeq(c, 1, k)})
    IN  s \o SubSeq(c, overlap + 1, Len(c))

Init ==
    /\ rows = <<>> /\ pending = FALSE /\ ckpt = <<>>
    /\ phase = "idle" /\ cur = {} /\ msgs = <<>> /\ skip = 0 /\ turn = 0 /\ iter = 0
    /\ taken = {} /\ again = {}
    /\ interrupts = 0 /\ commands = 0

----------------------------------------------------------------------------
(* The start of a turn (_process_message). *)

\* Mutant: a checkpoint is folded in, a turn without one is not closed.
RecoveredUnclosed == IF ckpt # <<>> THEN Restored(rows, ckpt) ELSE rows

\* The rows after _restore_runtime_checkpoint and _restore_pending_user_turn.
Recovered ==
    CASE ckpt # <<>> -> Restored(rows, ckpt)
      [] ckpt = <<>> /\ pending /\ rows # <<>> /\ IsUser(LastRow(rows)) -> Append(rows, Closing)
      [] OTHER -> rows

\* Mutant: the checkpoint folded in is not cleared.
RecoverKeeps(of) ==
    /\ phase = "idle"
    /\ \/ of \in again /\ again' = again \ {of}
       \/ \E m \in (Msgs \cup Subs) \ taken : of = {m} /\ UNCHANGED again
    /\ rows' = Recovered /\ pending' = FALSE
    /\ phase' = "recovered" /\ cur' = of /\ taken' = taken \cup of
    /\ UNCHANGED <<ckpt, msgs, skip, turn, iter, interrupts, commands>>

Recover(of) ==
    /\ phase = "idle"
    /\ \/ of \in again /\ again' = again \ {of}
       \/ \E m \in (Msgs \cup Subs) \ taken : of = {m} /\ UNCHANGED again
    /\ rows' = Recovered /\ pending' = FALSE /\ ckpt' = <<>>
    /\ phase' = "recovered" /\ cur' = of /\ taken' = taken \cup of
    /\ UNCHANGED <<msgs, skip, turn, iter, interrupts, commands>>

\* Mutant: the user's message is counted twice among the rows already saved.
BeginUserTurnSkips ==
    /\ phase = "recovered" /\ cur \cap Subs = {}
    /\ msgs' = AddUser(History(rows), UserRow(cur))
    /\ skip' = Len(History(rows)) + 2
    /\ rows' = Append(rows, UserRow(cur)) /\ pending' = TRUE
    /\ phase' = "model" /\ turn' = turn + 1 /\ iter' = 1
    /\ UNCHANGED <<ckpt, cur, taken, again, interrupts, commands>>

\* After the consolidator's await: the prompt is built from the history, and the user's
\* message is saved with the pending flag before the first model call.
BeginUserTurn ==
    /\ phase = "recovered" /\ cur \cap Subs = {}
    /\ msgs' = AddUser(History(rows), UserRow(cur))
    /\ skip' = Len(History(rows)) + 1
    /\ rows' = Append(rows, UserRow(cur)) /\ pending' = TRUE
    /\ phase' = "model" /\ turn' = turn + 1 /\ iter' = 1
    /\ UNCHANGED <<ckpt, cur, taken, again, interrupts, commands>>

\* A subagent's result is saved as an assistant row and is part of the history.
BeginSubTurn ==
    \E s \in Subs :
        /\ phase = "recovered" /\ cur = {s}
        /\ rows' = Append(rows, SubRow(s))
        /\ msgs' = History(rows') /\ skip' = Len(History(rows'))
        /\ phase' = "model" /\ turn' = turn + 1 /\ iter' = 1
        /\ UNCHANGED <<pending, ckpt, cur, taken, again, interrupts, commands>>

----------------------------------------------------------------------------
(* The runner (AgentRunner.run).  An iteration is one model call; the turn goes on   *)
(* while there are iterations left, and follow-ups are drained where it could stop.  *)

Injectable == {{f} : f \in Follow \ taken}

\* The runner goes on with the next model call, the for loop permitting.
GoOn ==
    IF iter < MaxIterations
    THEN iter < MaxIter /\ iter' = iter + 1 /\ phase' = "model"
    ELSE UNCHANGED iter /\ phase' = "exhausted"

\* s becomes the message list; the turn goes on with or without follow-ups drained.
Continue(s) ==
    /\ \/ msgs' = s /\ UNCHANGED taken
       \/ \E f \in Injectable : msgs' = AddUser(s, UserRow(f)) /\ taken' = taken \cup f
    /\ GoOn

\* s becomes the message list; the turn is over unless a follow-up is drained.
FinishOr(s) ==
    \/ msgs' = s /\ phase' = "final" /\ UNCHANGED <<taken, iter>>
    \/ \E f \in Injectable : /\ msgs' = AddUser(s, UserRow(f)) /\ taken' = taken \cup f
                             /\ GoOn

\* Mutant: the checkpoint "awaiting_tools" has no pending calls.
CallToolsBare ==
    /\ phase = "model"
    /\ msgs' = Append(msgs, Made("calls"))
    /\ ckpt' = <<Made("calls")>>
    /\ phase' = "tools"
    /\ UNCHANGED <<rows, pending, cur, skip, turn, iter, taken, again, interrupts, commands>>

\* The model asks for tools: checkpoint "awaiting_tools", every call pending.
CallTools ==
    /\ phase = "model"
    /\ msgs' = Append(msgs, Made("calls"))
    /\ ckpt' = <<Made("calls"), Made("interrupted")>>
    /\ phase' = "tools"
    /\ UNCHANGED <<rows, pending, cur, skip, turn, iter, taken, again, interrupts, commands>>

\* The results are in: checkpoint "tools_completed", then a drain.
ToolsDone ==
    /\ phase = "tools"
    /\ ckpt' = <<Made("calls"), Made("tool")>>
    /\ Continue(Append(msgs, Made("tool")))
    /\ UNCHANGED <<rows, pending, cur, skip, turn, again, interrupts, commands>>

\* A fatal tool error ends the turn without a checkpoint of the results.
ToolsFatal ==
    /\ phase = "tools"
    /\ FinishOr(AddFinal(Append(msgs, Made("tool")), Made("notice")))
    /\ UNCHANGED <<saved, cur, skip, turn, again, interrupts, commands>>

\* A final reply: checkpoint "final_response"; a follow-up drained now keeps the turn going.
Reply ==
    /\ phase = "model"
    /\ ckpt' = <<Made("assistant")>>
    /\ FinishOr(Append(msgs, Made("assistant")))
    /\ UNCHANGED <<rows, pending, cur, skip, turn, again, interrupts, commands>>

\* A reply cut off by the output limit, and the request to continue it.
Truncated ==
    /\ phase = "model"
    /\ msgs' = msgs \o <<Made("assistant"), Nudge>>
    /\ GoOn
    /\ UNCHANGED <<saved, cur, skip, turn, taken, again, interrupts, commands>>

\* The model call fails, or its answer is blank after the retries: a drain comes first,
\* and only an empty one leads to the placeholder or the empty-response message.
Fails(s) ==
    \/ \E f \in Injectable : /\ msgs' = AddUser(msgs, UserRow(f)) /\ taken' = taken \cup f
                             /\ GoOn
    \/ FinishOr(s)

ModelError ==
    /\ phase = "model" /\ Fails(AddPlaceholder(msgs, Made("notice")))
    /\ UNCHANGED <<saved, cur, skip, turn, again, interrupts, commands>>

BlankAnswer ==
    /\ phase = "model" /\ Fails(AddFinal(msgs, Made("notice")))
    /\ UNCHANGED <<saved, cur, skip, turn, again, interrupts, commands>>

\* The for loop is exhausted: the max-iterations message, then a last drain.
Exhausted ==
    /\ phase = "exhausted"
    /\ LET s == AddFinal(msgs, Made("notice")) IN
       \/ msgs' = s /\ UNCHANGED taken
       \/ \E f \in Injectable : msgs' = AddUser(s, UserRow(f)) /\ taken' = taken \cup f
    /\ phase' = "final"
    /\ UNCHANGED <<saved, cur, skip, turn, iter, again, interrupts, commands>>

----------------------------------------------------------------------------
(* The end of a turn, and the ways it is cut short.                          *)

Idle == phase' = "idle" /\ msgs' = <<>> /\ cur' = {} /\ skip' = 0 /\ iter' = 0

\* Mutant: the end of the turn keeps the checkpoint.
EndTurnKeeps ==
    /\ phase = "final" /\ Idle
    /\ rows' = rows \o SubSeq(msgs, skip + 1, Len(msgs)) /\ pending' = FALSE
    /\ UNCHANGED <<ckpt, turn, taken, again, interrupts, commands>>

\* save_turn writes what the turn added to the prompt; the flags are cleared.
EndTurn ==
    /\ phase = "final" /\ Idle
    /\ rows' = rows \o SubSeq(msgs, skip + 1, Len(msgs)) /\ pending' = FALSE /\ ckpt' = <<>>
    /\ UNCHANGED <<turn, taken, again, interrupts, commands>>

\* The process dies, the turn fails, or a direct call is cancelled: what was saved stays.
Interrupt ==
    /\ phase # "idle" /\ interrupts < MaxInterrupts /\ interrupts' = interrupts + 1 /\ Idle
    /\ UNCHANGED <<saved, turn, taken, again, commands>>

Command(c) == c \in Commands /\ commands < MaxCommands /\ commands' = commands + 1

\* What _cancel_active_tasks leaves: a running turn folds its checkpoint in.
CancelRestores == phase # "idle" /\ ckpt # <<>>
AfterCancel == IF CancelRestores THEN Restored(rows, ckpt) ELSE rows
FlagsAfterCancel ==
    /\ ckpt' = IF CancelRestores THEN <<>> ELSE ckpt
    /\ pending' = (pending /\ ~CancelRestores)

Stop ==
    /\ Command("stop") /\ Idle /\ FlagsAfterCancel
    /\ rows' = AfterCancel \o CommandRows
    /\ UNCHANGED <<turn, taken, again, interrupts>>

\* A command answered from the run loop beside a running turn.
InlineCommand ==
    /\ Command("inline") /\ phase # "idle"
    /\ rows' = rows \o CommandRows
    /\ UNCHANGED <<pending, ckpt, volatile, taken, again, interrupts>>

\* A command that is a turn of its own: the session is recovered first.
CommandTurn ==
    /\ Command("inline") /\ phase = "idle"
    /\ rows' = Recovered \o CommandRows /\ pending' = FALSE /\ ckpt' = <<>>
    /\ UNCHANGED <<volatile, taken, again, interrupts>>

\* /new empties the session and leaves its metadata alone; the exchange is not saved.
New ==
    /\ Command("new") /\ Idle
    /\ rows' = <<>> /\ ckpt' = <<>>
    /\ pending' = (phase # "idle" /\ pending /\ ~CancelRestores)
    /\ UNCHANGED <<turn, taken, again, interrupts>>

\* Everything after the last user row is dropped, and that row's text published again.
Regenerate ==
    /\ Command("regenerate") /\ Idle /\ FlagsAfterCancel
    /\ LET users == {i \in DOMAIN AfterCancel : IsUser(AfterCancel[i])}
           last == Latest(users)
       IN  IF users = {}
           THEN rows' = AfterCancel /\ UNCHANGED again
           ELSE /\ rows' = SubSeq(AfterCancel, 1, last)
                /\ again' = IF AfterCancel[last].role = "user"
                            THEN again \cup {AfterCancel[last].of} ELSE again
    /\ UNCHANGED <<turn, taken, interrupts>>

Next ==
    \/ \E of \in SUBSET (Msgs \cup Subs) : Recover(of)
    \/ BeginUserTurn \/ BeginSubTurn
    \/ CallTools \/ ToolsDone \/ ToolsFatal \/ Reply \/ Truncated
    \/ ModelError \/ BlankAnswer \/ Exhausted
    \/ EndTurn \/ Interrupt
    \/ Stop \/ InlineCommand \/ CommandTurn \/ New \/ Regenerate

Spec == Init /\ [][Next]_vars

----------------------------------------------------------------------------
(* Properties. *)

RowsOf(s) == {s[i] : i \in DOMAIN s}
MadeBy(s, t) == {r \in RowsOf(s) : r.turn = t /\ r.role \in {"assistant", "calls", "tool"}}
Origins(s) == UNION {r.of : r \in {u \in RowsOf(s) : u.role = "user"}}

Roles == {"user", "assistant", "notice", "calls", "tool", "interrupted", "cmdUser", "cmdReply"}
Row == [role : Roles, of : SUBSET (Msgs \cup Subs), turn : 0..turn,
        n : 0..(IF MaxIter < MaxCommands THEN MaxCommands ELSE MaxIter)]

\* Every variable has its type; a checkpoint is that of a reply or of a tool call.
TypeOK ==
    /\ rows \in Seq(Row) /\ msgs \in Seq(Row) /\ ckpt \in Seq(Row) /\ Len(ckpt) <= 2
    /\ pending \in BOOLEAN /\ phase \in Phases
    /\ cur \subseteq Msgs \cup Subs /\ taken \subseteq Msgs \cup Subs
    /\ again \subseteq SUBSET Msgs
    /\ skip \in Nat /\ turn \in Nat /\ iter \in 0..MaxIter
    /\ interrupts \in 0..MaxInterrupts /\ commands \in 0..MaxCommands

\* In the session every tool result directly follows the request it answers, and every
\* request has its result: a session never holds half a tool exchange, whatever crash or
\* recovery wrote it (find_legal_message_start would drop all that precedes an orphan).
LegalHistory ==
    \A i \in DOMAIN rows :
        /\ IsTool(rows[i]) => i > 1 /\ Answers(rows[i], rows[i - 1])
        /\ rows[i].role = "calls" => i < Len(rows) /\ Answers(rows[i + 1], rows[i])

\* Once a session is recovered, or when its last turn ended, the history a prompt is built
\* from does not end with a user row: an unanswered message has been closed
\* (checkpoint.py), so the next message is not merged into it.
HistoryClosed ==
    phase \in {"idle", "recovered"} /\ ~pending /\ ckpt = <<>> => ~EndsWith(History(rows), "user")

\* No user message and no row of a turn is in the session twice, however turns were cut
\* short and their checkpoints folded in.
NoDuplicateRows ==
    \A i, j \in DOMAIN rows :
        i # j => rows[i] # rows[j] /\ rows[i].of \cap rows[j].of = {}

\* The rows turns have made stand in the order they were made: a checkpoint folded in late
\* never lands behind the rows of a later turn.
RowsInOrder ==
    \A i, j \in DOMAIN rows :
        i < j /\ rows[i].turn > 0 /\ rows[j].turn > 0 =>
            /\ rows[i].turn <= rows[j].turn
            /\ rows[i].turn = rows[j].turn => rows[i].n <= rows[j].n

\* A saved checkpoint belongs to the last turn started, and outside a turn that is a turn
\* cut short: nothing an earlier turn, or a session before /new, left is folded in later.
CheckpointCurrent == \A i \in DOMAIN ckpt : ckpt[i].turn = turn

\* When a turn ends, every reply, tool request and tool result it made is in the session.
TurnSaved == [][EndTurn => MadeBy(msgs, turn) \subseteq RowsOf(rows')]_vars

\* What no interruption, command or follow-up breaks in a session.
SessionSound == TypeOK /\ RowsInOrder /\ CheckpointCurrent
================================================================================

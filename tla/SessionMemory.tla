----------------------------- MODULE SessionMemory -----------------------------
(* One session in memory and on disk: the cache of SessionManager, the objects that  *)
(* turns and background tasks still hold, the token consolidation and the idle        *)
(* compaction that archive its old rows, and the commands that cut it.                *)
(* Everything between two awaits is one action.  Which rows a summary has room for    *)
(* (the token counts) is left open.                                                   *)
EXTENDS Naturals, Sequences, FiniteSets, SequencesExt

CONSTANTS
    MaxRow,      \* rows made in a behaviour
    MaxSuffix,   \* _RECENT_SUFFIX_MESSAGES
    MaxChunk,    \* _MAX_CHUNK_MESSAGES
    MaxRounds,   \* _MAX_CONSOLIDATION_ROUNDS
    MaxCut,      \* bound: commands that cut the history
    MaxUpset,    \* bound: evictions, deletions, crashes and interrupted turns
    DirectCalls  \* turns of process_direct, which register no pending queue

ASSUME SessionAssumption ==
    /\ MaxRow \in Nat /\ MaxSuffix \in Nat \ {0} /\ MaxChunk \in Nat \ {0}
    /\ MaxRounds \in Nat \ {0} /\ MaxCut \in Nat /\ MaxUpset \in Nat
    /\ DirectCalls \in BOOLEAN

Objects == 1..5
Nobody == 0
Workers == {"turn", "after", "idle"}    \* who archives: in the turn, after it, AutoCompact

Row == [n : 1..MaxRow, by : {"user", "reply", "note"}]
EmptySession == [rows |-> <<>>, lc |-> 0, pend |-> FALSE]

VARIABLES
    obj,       \* the Session objects: rows, last_consolidated, pending_user_turn
    cached,    \* SessionManager._cache of this key
    disk,      \* the session file
    turn,      \* where the turn at work is and the object it holds
    task,      \* the consolidation of each worker
    queue,     \* the consolidation lock: its holder and those that wait, in order
    leaving,   \* rows a /new handed to a background archive
    archived,  \* rows whose text is in history.jsonl
    dropped,   \* history: rows the user had removed, and those a crash took
    saved,     \* history: every row that was ever in the file
    skewed,    \* history: a command cut rows that last_consolidated counts
    made, cuts, upsets

sessionVars == <<obj, cached, disk, turn, task, queue, leaving, archived, dropped, saved,
                 skewed, made, cuts, upsets>>
storeVars == <<obj, cached, disk, saved>>
boundVars == <<cuts, upsets>>

Off == [pc |-> "off", obj |-> Nobody, upto |-> 0, chunk |-> {}, kept |-> <<>>, rounds |-> 0]
NoTurn == [pc |-> "off", kind |-> "bus", obj |-> Nobody]

SessionInit ==
    /\ obj = [o \in Objects |-> EmptySession] /\ cached = Nobody /\ disk = EmptySession
    /\ turn = NoTurn /\ task = [w \in Workers |-> Off] /\ queue = <<>>
    /\ leaving = {} /\ archived = {} /\ dropped = {} /\ saved = {}
    /\ skewed = FALSE /\ made = 0 /\ cuts = 0 /\ upsets = 0

RowsOf(s) == ToSet(s.rows)
Unconsolidated(s) == SubSeq(s.rows, s.lc + 1, Len(s.rows))

----------------------------------------------------------------------------
(* SessionManager *)

Unheld == CHOOSE o \in Objects :
    o \notin {cached, turn.obj} \cup {task[w].obj : w \in Workers}

\* get_or_create: the cached object, or a new one with what the file holds.
Handle == IF cached = Nobody THEN Unheld ELSE cached
Found == IF cached = Nobody THEN disk ELSE obj[cached]

Hold(o, s) == obj' = [obj EXCEPT ![o] = s] /\ cached' = o /\ UNCHANGED <<disk, saved>>

\* save: the whole object replaces the file, and becomes the cached one.
Save(o, s) ==
    /\ obj' = [obj EXCEPT ![o] = s]
    /\ cached' = o
    /\ disk' = s
    /\ saved' = saved \cup RowsOf(s)

NewRow(by) == [n |-> made + 1, by |-> by]
CanMake == made < MaxRow
WithRow(s, by) == [s EXCEPT !.rows = Append(@, NewRow(by))]

\* Another chat's session takes the place of this one.
Evict ==
    /\ cached # Nobody /\ upsets < MaxUpset
    /\ cached' = Nobody /\ upsets' = upsets + 1
    /\ UNCHANGED <<obj, disk, saved, turn, task, queue, leaving, archived, dropped, skewed, made, cuts>>

\* delete_session from the WebUI, beside whatever is at work.
Delete ==
    /\ disk # EmptySession /\ upsets < MaxUpset
    /\ cached' = Nobody /\ disk' = EmptySession
    /\ dropped' = dropped \cup RowsOf(disk)
    /\ upsets' = upsets + 1
    /\ UNCHANGED <<obj, saved, turn, task, queue, leaving, archived, skewed, made, cuts>>

----------------------------------------------------------------------------
(* Where a consolidation may end. *)

UserAt(s, i) == i \in 1..Len(s.rows) /\ s.rows[i].by = "user"

\* pick_consolidation_boundary: before a later user row; without one the relaxed picker
\* ends before the first answer after the start, or takes everything.
Boundaries(s) ==
    LET users == {i - 1 : i \in {j \in s.lc + 2..Len(s.rows) : UserAt(s, j)}}
        answers == {i - 1 : i \in {j \in s.lc + 2..Len(s.rows) : s.rows[j].by # "user"}}
    IN  CASE s.lc >= Len(s.rows) -> {}
          [] users # {} -> users
          [] answers # {} -> {CHOOSE i \in answers : \A j \in answers : i <= j}
          [] OTHER -> {Len(s.rows)}

\* _cap_consolidation_boundary: a long chunk ends before the last user row that fits.
Cap(s, end) ==
    LET fits == {i \in s.lc + 1..s.lc + MaxChunk : UserAt(s, i + 1)}
    IN  CASE end - s.lc <= MaxChunk -> {end}
          [] fits # {} -> {CHOOSE i \in fits : \A j \in fits : i >= j}
          [] OTHER -> {}

\* retain_recent_legal_suffix: the last rows, back to the user row that began them.
Suffix(rows) ==
    LET from == Len(rows) - MaxSuffix + 1
        users == {i \in 1..from : rows[i].by = "user"} \cup {1}
    IN  IF Len(rows) <= MaxSuffix THEN rows
        ELSE SubSeq(rows, CHOOSE i \in users : \A j \in users : i >= j, Len(rows))

----------------------------------------------------------------------------
(* A turn: recovery and maybe_consolidate_by_tokens before it, the user's row as soon as *)
(* that is done, its reply at the end, another consolidation after it.                   *)

TurnBegin(kind) ==
    /\ turn.pc = "off" /\ CanMake
    /\ kind = "direct" => DirectCalls
    /\ IF Found.pend
       THEN /\ Save(Handle, [WithRow(Found, "note") EXCEPT !.pend = FALSE])
            /\ made' = made + 1
       ELSE Hold(Handle, Found) /\ UNCHANGED made
    /\ turn' = [pc |-> "wait", kind |-> kind, obj |-> Handle]
    /\ task' = [task EXCEPT !["turn"] = [Off EXCEPT !.pc = "wait"]]
    /\ queue' = Append(queue, "turn")
    /\ UNCHANGED <<leaving, archived, dropped, skewed, boundVars>>

\* The lock is left; the turn goes on with the object it took at its start.
Release(w) ==
    /\ queue' = Tail(queue)
    /\ task' = [task EXCEPT ![w] = Off]

\* What a worker's end leaves in the store: its own last save, if a summary was made, and
\* for the turn the user's row.
Leave(w, store, o, s) ==
    /\ Release(w)
    /\ IF w = "turn"
       THEN LET mine == IF turn.obj = o THEN s ELSE obj[turn.obj]
            IN  /\ CanMake
                /\ obj' = [[obj EXCEPT ![o] = s] EXCEPT
                              ![turn.obj] = [WithRow(mine, "user") EXCEPT !.pend = TRUE]]
                /\ cached' = turn.obj
                /\ disk' = obj'[turn.obj]
                /\ saved' = saved \cup RowsOf(disk')
                /\ turn' = [turn EXCEPT !.pc = "run"]
                /\ made' = made + 1
       ELSE /\ IF store THEN Save(o, s) ELSE Hold(o, s)
            /\ UNCHANGED <<turn, made>>

\* "async with lock": the session is looked up again; an empty one has nothing to archive.
Enter(w) ==
    /\ w # "idle" /\ queue # <<>> /\ Head(queue) = w /\ task[w].pc = "wait"
    /\ IF Found.rows = <<>>
       THEN Leave(w, FALSE, Handle, Found)
       ELSE /\ Hold(Handle, Found)
            /\ task' = [task EXCEPT ![w] = [@ EXCEPT !.pc = "estimate", !.obj = Handle]]
            /\ UNCHANGED <<turn, queue, made>>
    /\ UNCHANGED <<leaving, archived, dropped, skewed, boundVars>>

\* The estimate is above the target and there is a boundary: the chunk goes to the model.
Pick(w) ==
    LET s == obj[task[w].obj] IN
    /\ w # "idle" /\ task[w].pc = "estimate" /\ task[w].rounds < MaxRounds
    /\ \E b \in Boundaries(s) : \E end \in Cap(s, b) :
          /\ end > s.lc
          /\ task' = [task EXCEPT ![w] = [task[w] EXCEPT !.pc = "archive", !.upto = end,
                                          !.chunk = ToSet(SubSeq(s.rows, s.lc + 1, end)),
                                          !.rounds = task[w].rounds + 1]]
    /\ UNCHANGED <<storeVars, turn, queue, leaving, archived, dropped, skewed, made, boundVars>>

\* Mutant: last_consolidated advances although the summary is not written.
ArchivedUnwritten(w) ==
    LET o == task[w].obj
        done == [obj[o] EXCEPT !.lc = task[w].upto]
    IN
    /\ w # "idle" /\ task[w].pc = "archive"
    /\ UNCHANGED archived
    /\ \/ /\ Save(o, done)
          /\ task' = [task EXCEPT ![w] = [@ EXCEPT !.pc = "estimate", !.chunk = {}]]
          /\ UNCHANGED <<turn, queue, made>>
       \/ Leave(w, task[w].rounds > 1, o, obj[o])
    /\ UNCHANGED <<leaving, dropped, skewed, boundVars>>

\* archive returns: a summary moves last_consolidated and is followed by another estimate;
\* a failure dumps the rows and ends the loop where it was.
Archived(w) ==
    LET o == task[w].obj
        done == [obj[o] EXCEPT !.lc = task[w].upto]
    IN
    /\ w # "idle" /\ task[w].pc = "archive"
    /\ archived' = archived \cup task[w].chunk
    /\ \/ /\ Save(o, done)
          /\ task' = [task EXCEPT ![w] = [@ EXCEPT !.pc = "estimate", !.chunk = {}]]
          /\ UNCHANGED <<turn, queue, made>>
       \/ Leave(w, task[w].rounds > 1, o, obj[o])
    /\ UNCHANGED <<leaving, dropped, skewed, boundVars>>

\* The prompt fits, or nothing can be cut: the last summary is saved with the session.
Fits(w) ==
    /\ w # "idle" /\ task[w].pc = "estimate"
    /\ Leave(w, task[w].rounds > 0, task[w].obj, obj[task[w].obj])
    /\ UNCHANGED <<leaving, archived, dropped, skewed, boundVars>>

\* The runner is done: the reply is saved, and a consolidation scheduled.
TurnEnd ==
    /\ turn.pc = "run" /\ CanMake /\ task["after"].pc = "off"
    /\ Save(turn.obj, [WithRow(obj[turn.obj], "reply") EXCEPT !.pend = FALSE])
    /\ made' = made + 1
    /\ turn' = NoTurn
    /\ task' = [task EXCEPT !["after"] = [Off EXCEPT !.pc = "wait"]]
    /\ queue' = Append(queue, "after")
    /\ UNCHANGED <<leaving, archived, dropped, skewed, boundVars>>

\* What is left of the workers and the lock when the turn is cancelled or raises.
WithoutTurn ==
    /\ turn' = NoTurn
    /\ task' = [task EXCEPT !["turn"] = Off]
    /\ \/ \E i \in DOMAIN queue : queue[i] = "turn" /\ queue' = RemoveAt(queue, i)
       \/ (\A i \in DOMAIN queue : queue[i] # "turn") /\ UNCHANGED queue

TurnFails ==
    /\ turn.pc # "off" /\ upsets < MaxUpset
    /\ WithoutTurn
    /\ upsets' = upsets + 1
    /\ UNCHANGED <<storeVars, leaving, archived, dropped, skewed, made, cuts>>

----------------------------------------------------------------------------
(* AutoCompact: idle sessions, unless a pending queue says that a turn is at work. *)

\* Mutant: sessions with a turn at work are not skipped.
IdleCheckAny ==
    /\ task["idle"].pc = "off" /\ disk # EmptySession
    /\ task' = [task EXCEPT !["idle"] = [Off EXCEPT !.pc = "wait"]]
    /\ queue' = Append(queue, "idle")
    /\ UNCHANGED <<storeVars, turn, leaving, archived, dropped, skewed, made, boundVars>>

IdleCheck ==
    /\ task["idle"].pc = "off" /\ disk # EmptySession
    /\ turn.pc = "off" \/ turn.kind = "direct"
    /\ task' = [task EXCEPT !["idle"] = [Off EXCEPT !.pc = "wait"]]
    /\ queue' = Append(queue, "idle")
    /\ UNCHANGED <<storeVars, turn, leaving, archived, dropped, skewed, made, boundVars>>

\* compact_idle_session: the file is read again, its unconsolidated tail split.
IdleEnter ==
    LET rest == Unconsolidated(disk)
        kept == Suffix(rest)
        o == CHOOSE x \in Objects : x \notin {turn.obj} \cup {task[w].obj : w \in Workers}
    IN
    /\ queue # <<>> /\ Head(queue) = "idle" /\ task["idle"].pc = "wait"
    /\ IF Len(kept) = Len(rest)
       THEN /\ Save(o, IF rest = <<>> THEN disk ELSE [disk EXCEPT !.rows = kept, !.lc = 0])
            /\ Release("idle")
       ELSE /\ Hold(o, disk)
            /\ task' = [task EXCEPT !["idle"] = [@ EXCEPT !.pc = "archive", !.obj = o, !.kept = kept,
                           !.chunk = ToSet(SubSeq(rest, 1, Len(rest) - Len(kept)))]]
            /\ UNCHANGED queue
    /\ UNCHANGED <<turn, leaving, archived, dropped, skewed, made, boundVars>>

\* archive has a summary or dumped the rows: what was kept at the start replaces the rows.
IdleArchived ==
    LET o == task["idle"].obj IN
    /\ task["idle"].pc = "archive"
    /\ archived' = archived \cup task["idle"].chunk
    /\ Save(o, [obj[o] EXCEPT !.rows = task["idle"].kept, !.lc = 0])
    /\ Release("idle")
    /\ UNCHANGED <<turn, leaving, dropped, skewed, made, boundVars>>

----------------------------------------------------------------------------
(* Commands.  Those that cut the history cancel a turn of the bus first. *)

Picked(end) == \E w \in Workers \ {"idle"} : task[w].pc = "archive" /\ task[w].upto > end

TurnCancelled == IF turn.pc # "off" /\ turn.kind = "bus" THEN WithoutTurn
             ELSE UNCHANGED <<turn, task, queue>>

\* An inline command's exchange is appended beside a running turn.
CommandRow ==
    /\ CanMake
    /\ Save(Handle, WithRow(Found, "note"))
    /\ made' = made + 1
    /\ UNCHANGED <<turn, task, queue, leaving, archived, dropped, skewed, boundVars>>

\* /new: what was not consolidated goes to a background archive, the session is emptied
\* in memory and on disk, and forgotten.
New ==
    /\ cuts < MaxCut
    /\ TurnCancelled
    /\ leaving' = leaving \cup ToSet(Unconsolidated(Found))
    /\ obj' = [obj EXCEPT ![Handle] = [Found EXCEPT !.rows = <<>>, !.lc = 0]]
    /\ disk' = obj'[Handle]
    /\ cached' = Nobody /\ UNCHANGED saved
    /\ skewed' = (skewed \/ Picked(0))
    /\ cuts' = cuts + 1
    /\ UNCHANGED <<archived, dropped, made, upsets>>

NewArchived ==
    /\ leaving # {}
    /\ archived' = archived \cup leaving /\ leaving' = {}
    /\ UNCHANGED <<storeVars, turn, task, queue, dropped, skewed, made, boundVars>>

\* /regenerate and /edit wait for the turn's lock and keep the rows up to a user row.
Cut ==
    LET s == Found IN
    /\ cuts < MaxCut
    /\ turn.pc = "off" \/ turn.kind = "bus"
    /\ TurnCancelled
    /\ \E i \in 1..Len(s.rows) :
          /\ UserAt(s, i)
          /\ Save(Handle, [s EXCEPT !.rows = SubSeq(@, 1, i)])
          /\ dropped' = dropped \cup ToSet(SubSeq(s.rows, i + 1, Len(s.rows)))
          /\ skewed' = (skewed \/ s.lc > i \/ Picked(i))
    /\ cuts' = cuts + 1
    /\ UNCHANGED <<leaving, archived, made, upsets>>

----------------------------------------------------------------------------
(* The end of the process: what only memory holds is gone; an orderly one waits for the  *)
(* background tasks and writes the cached object.                                        *)

Restart ==
    /\ upsets < MaxUpset
    /\ dropped' = dropped \cup leaving
    /\ leaving' = {}
    /\ turn' = NoTurn /\ task' = [w \in Workers |-> Off] /\ queue' = <<>>
    /\ obj' = [o \in Objects |-> EmptySession] /\ cached' = Nobody
    /\ upsets' = upsets + 1
    /\ UNCHANGED <<archived, skewed, made, cuts>>

Crash == Restart /\ UNCHANGED <<disk, saved>>

\* close_mcp and flush_all.
Shutdown ==
    /\ Restart
    /\ leaving = {} /\ \A w \in Workers : task[w].pc = "off"
    /\ disk' = IF cached = Nobody THEN disk ELSE obj[cached]
    /\ saved' = saved \cup RowsOf(disk')

SessionNext ==
    \/ \E kind \in {"bus", "direct"} : TurnBegin(kind)
    \/ \E w \in Workers : Enter(w) \/ Pick(w) \/ Archived(w) \/ Fits(w)
    \/ TurnEnd \/ TurnFails
    \/ IdleCheck \/ IdleEnter \/ IdleArchived
    \/ CommandRow \/ New \/ NewArchived \/ Cut
    \/ Evict \/ Delete \/ Crash \/ Shutdown

SessionSpec == SessionInit /\ [][SessionNext]_sessionVars

----------------------------------------------------------------------------
(* Properties. *)

SessionRec == [rows : Seq(Row), lc : Nat, pend : BOOLEAN]

SessionTypeOK ==
    /\ obj \in [Objects -> SessionRec] /\ disk \in SessionRec
    /\ cached \in Objects \cup {Nobody}
    /\ turn.pc \in {"off", "wait", "run"} /\ turn.kind \in {"bus", "direct"}
    /\ turn.obj \in Objects \cup {Nobody}
    /\ \A w \in Workers : task[w].pc \in {"off", "wait", "estimate", "archive"}
    /\ queue \in Seq(Workers) /\ IsInjective(queue)
    /\ \A w \in Workers : (task[w].pc # "off") = (w \in ToSet(queue))

Live == {disk} \cup {obj[o] : o \in {cached, turn.obj} \ {Nobody}}

\* last_consolidated is the "number of messages already consolidated to files": what it
\* hides from the prompt is in history.jsonl, for the file and every object in use.
Consolidated ==
    \A s \in Live : s.lc <= Len(s.rows) /\ ToSet(SubSeq(s.rows, 1, s.lc)) \subseteq archived

\* It is so until a command cuts rows that are counted, or about to be.
HiddenIsArchived == skewed \/ Consolidated

\* A user's or an agent's row that was ever saved is in the file, in history.jsonl, on its
\* way there, or in the object of the turn at work, unless the user removed it, a crash
\* took the archive of a /new, or last_consolidated was already wrong.
NoRowLost ==
    skewed \/ \A r \in saved :
        \/ r.by = "note"
        \/ r \in RowsOf(disk) \cup archived \cup leaving \cup dropped
        \/ turn.pc # "off" /\ r \in RowsOf(obj[turn.obj])

\* While a turn of the bus is at work, no summary, compaction or command takes what it
\* answers out of the file: a crash finds the user's row.
PromptStaysSaved ==
    turn.pc = "run" /\ turn.kind = "bus" =>
        \A r \in RowsOf(obj[turn.obj]) : r.by = "user" => r \in RowsOf(disk) \cup archived \cup dropped

\* What no consolidation, compaction, eviction or /new takes away: rows and the user's prompt.
RowsKept == SessionTypeOK /\ NoRowLost /\ PromptStaysSaved
================================================================================

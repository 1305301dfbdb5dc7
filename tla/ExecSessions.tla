------------------------------ MODULE ExecSessions ------------------------------
(* The exec tools: commands that run to their end, and sessions that outlive the call    *)
(* and are polled, written to, listed, ended and dropped when idle.  One step is what    *)
(* runs between two awaits.  Output is counted in pieces; times are choices.             *)
EXTENDS Naturals, Sequences, FiniteSets, SequencesExt

CONSTANTS
    MaxCalls, \* bound: tool calls of a behaviour
    MaxProcs, \* bound: processes of a behaviour
    MaxSlots, \* max_sessions
    MaxOut    \* bound: pieces of output of each process

ASSUME ExecAssumption ==
    MaxCalls \in Nat /\ MaxProcs \in Nat /\ MaxSlots \in Nat \ {0} /\ MaxOut \in Nat

\* Calls and processes are numbered in the order in which they are made.
Callers == 1..MaxCalls
Procs == 1..MaxProcs
NoCaller == 0
NoProc == 0

VARIABLES
    proc,     \* a process: not spawned, running, or its returncode is known
    written,  \* what it wrote so far
    unread,   \* what of it is in its pipe
    buf,      \* _chunks of its session
    pipe,     \* the pipe: open as long as the process or a child of it holds it
    reader,   \* the reader tasks of its session
    table,    \* _sessions
    owner,    \* who holds the manager's lock
    lockq,    \* and who waits for it
    call,     \* each call: where it is, what it wants, its session, the one it drops
    killed,   \* processes that were sent a kill and have not ended
    reported  \* history: sessions whose end a poll returned

execVars == <<proc, written, unread, buf, pipe, reader, table, owner, lockq, call, killed, reported>>
procVars == <<proc, written, unread, pipe>>

NewCall == [pc |-> "new", op |-> "none", ses |-> NoProc, drop |-> NoProc]
Over == [NewCall EXCEPT !.pc = "over"]

ExecInit ==
    /\ proc = [p \in Procs |-> "none"] /\ written = [p \in Procs |-> 0]
    /\ unread = [p \in Procs |-> 0] /\ buf = [p \in Procs |-> 0]
    /\ pipe = [p \in Procs |-> "closed"] /\ reader = [p \in Procs |-> "none"]
    /\ table = {} /\ owner = NoCaller /\ lockq = <<>> /\ call = [c \in Callers |-> NewCall]
    /\ killed = {} /\ reported = {}

Goto(c, pc) == call' = [call EXCEPT ![c].pc = pc]
Return(c) == call' = [call EXCEPT ![c] = Over]
IsNext(c) == call[c] = NewCall /\ \A d \in 1..c - 1 : call[d] # NewCall
Unused(p) == proc[p] = "none" /\ \A q \in 1..p - 1 : proc[q] # "none"

----------------------------------------------------------------------------
(* Processes and the tasks that read from them. *)

ProcWrites(p) ==
    /\ proc[p] = "run" /\ p \notin killed /\ written[p] < MaxOut
    /\ written' = [written EXCEPT ![p] = @ + 1] /\ unread' = [unread EXCEPT ![p] = @ + 1]
    /\ UNCHANGED <<proc, buf, pipe, reader, table, owner, lockq, call, killed, reported>>

\* A child that outlives the process keeps the pipe open.
ProcEnds(p) ==
    /\ proc[p] = "run" /\ proc' = [proc EXCEPT ![p] = "exit"]
    /\ \E end \in {"open", "closed"} : pipe' = [pipe EXCEPT ![p] = end]
    /\ killed' = killed \ {p}
    /\ UNCHANGED <<written, unread, buf, reader, table, owner, lockq, call, reported>>

ChildEnds(p) ==
    /\ proc[p] = "exit" /\ pipe[p] = "open" /\ pipe' = [pipe EXCEPT ![p] = "closed"]
    /\ UNCHANGED <<proc, written, unread, buf, reader, table, owner, lockq, call, killed, reported>>

\* _read_stream: what is there, or the end of the stream.
ReadStream(p) ==
    /\ reader[p] = "on"
    /\ \/ /\ unread[p] > 0
          /\ buf' = [buf EXCEPT ![p] = @ + unread[p]] /\ unread' = [unread EXCEPT ![p] = 0]
          /\ UNCHANGED reader
       \/ /\ unread[p] = 0 /\ pipe[p] = "closed"
          /\ reader' = [reader EXCEPT ![p] = "eof"] /\ UNCHANGED <<buf, unread>>
    /\ UNCHANGED <<proc, written, pipe, table, owner, lockq, call, killed, reported>>

Kill(p) == killed' = IF proc[p] = "run" THEN killed \cup {p} ELSE killed

----------------------------------------------------------------------------
(* Sessions: poll *)

\* From the start of poll to its first await; last_access is now.
BeginPoll(c, p) ==
    call' = [call EXCEPT ![c].ses = p,
                         ![c].pc = IF proc[p] = "exit" THEN "drain" ELSE "sleep"]

\* The buffer is returned; the session of a process that has ended leaves the table.
Collect(c) ==
    LET p == call[c].ses IN
    /\ buf' = [buf EXCEPT ![p] = 0]
    /\ reported' = IF proc[p] = "exit" THEN reported \cup {p} ELSE reported
    /\ IF proc[p] = "exit" THEN Goto(c, "pop") /\ lockq' = Append(lockq, c)
                           ELSE Return(c) /\ UNCHANGED lockq

\* After the sleep: the deadline may have passed.
Wake(c) ==
    LET p == call[c].ses IN
    /\ call[c].pc = "sleep"
    /\ \/ proc[p] = "exit" /\ Goto(c, "drain") /\ UNCHANGED <<buf, lockq, killed, reported>>
       \/ proc[p] = "run" /\ Collect(c) /\ UNCHANGED killed
       \/ proc[p] = "run" /\ Kill(p) /\ Goto(c, "killing") /\ UNCHANGED <<buf, lockq, reported>>
    /\ UNCHANGED <<procVars, reader, table, owner>>

\* kill waits for the end of the process, for 5 s.
Reaped(c) ==
    LET p == call[c].ses IN
    /\ call[c].pc = "killing"
    /\ IF proc[p] = "exit" THEN Goto(c, "drain") /\ UNCHANGED <<buf, lockq, reported>>
                           ELSE Collect(c)
    /\ UNCHANGED <<procVars, reader, table, owner, killed>>

\* The readers are waited for, for 2 s; at the end of that they are cancelled.  Somebody who
\* finds them cancelled is cancelled with them.
Drain(c) ==
    LET p == call[c].ses IN
    /\ call[c].pc = "drain"
    /\ \/ reader[p] = "eof" /\ Collect(c) /\ UNCHANGED reader
       \/ reader[p] = "on" /\ pipe[p] = "open" /\ Collect(c) /\ reader' = [reader EXCEPT ![p] = "cut"]
       \/ reader[p] = "cut" /\ Return(c) /\ UNCHANGED <<buf, lockq, reader, reported>>
    /\ UNCHANGED <<procVars, table, owner, killed>>

----------------------------------------------------------------------------
(* The manager *)

Wait(c) == lockq' = Append(lockq, c)

Start(c) ==
    /\ IsNext(c) /\ call' = [call EXCEPT ![c] = [NewCall EXCEPT !.pc = "lock", !.op = "start"]]
    /\ Wait(c)
    /\ UNCHANGED <<procVars, buf, reader, table, owner, killed, reported>>

\* write_stdin: to poll, to write, to end; list_exec_sessions.
Write(c, p, op) ==
    /\ IsNext(c) /\ reader[p] # "none"
    /\ call' = [call EXCEPT ![c] = [NewCall EXCEPT !.pc = "lock", !.op = op, !.ses = p]]
    /\ Wait(c)
    /\ UNCHANGED <<procVars, buf, reader, table, owner, killed, reported>>

\* Idle: not polled for idle_timeout.
Stale == {p \in table : ~\E c \in Callers : call[c].ses = p /\ call[c].pc \in {"sleep", "killing", "drain"}}

\* Mutant: the limit is checked and the lock given back before the process is made.
ServedEarly(c, tbl) ==
    /\ table' = tbl /\ owner' = NoCaller
    /\ IF call[c].op = "start" /\ Cardinality(tbl) < MaxSlots THEN Goto(c, "spawn") ELSE Return(c)
    /\ UNCHANGED killed

\* What a call does once the idle ones are gone, up to its next await.
Served(c, tbl) ==
    LET p == call[c].ses
        freed == owner' = NoCaller
    IN
    /\ table' = tbl
    /\ CASE call[c].op = "start" /\ Cardinality(tbl) < MaxSlots ->
                owner' = c /\ Goto(c, "spawn") /\ UNCHANGED killed
         [] call[c].op = "poll" /\ p \in tbl -> freed /\ BeginPoll(c, p) /\ UNCHANGED killed
         [] call[c].op = "chars" /\ p \in tbl /\ proc[p] = "run" ->
                freed /\ Goto(c, "feed") /\ UNCHANGED killed
         [] call[c].op = "term" /\ p \in tbl ->
                /\ freed
                /\ IF proc[p] = "run" THEN Kill(p) /\ Goto(c, "term") ELSE BeginPoll(c, p) /\ UNCHANGED killed
         [] OTHER -> freed /\ Return(c) /\ UNCHANGED killed

Acquire(c) ==
    /\ owner = NoCaller /\ lockq # <<>> /\ Head(lockq) = c /\ lockq' = Tail(lockq)
    /\ call[c].pc = "lock"
    /\ \/ Served(c, table)
       \/ \E p \in Stale : proc[p] = "exit" /\ Served(c, table \ {p})
       \/ \E p \in Stale :
             /\ proc[p] = "run" /\ Kill(p)
             /\ table' = table \ {p} /\ owner' = c
             /\ call' = [call EXCEPT ![c].pc = "cleanup", ![c].drop = p]
    /\ UNCHANGED <<procVars, buf, reader, reported>>

\* The idle process has ended, or has not within 5 s.
Cleaned(c) ==
    /\ call[c].pc = "cleanup" /\ Served(c, table)
    /\ UNCHANGED <<procVars, buf, reader, lockq, reported>>

\* The process is there, or the attempt failed.
Spawned(c) ==
    /\ call[c].pc = "spawn" /\ owner' = IF owner = c THEN NoCaller ELSE owner
    /\ \/ \E p \in Procs :
             /\ Unused(p) /\ proc' = [proc EXCEPT ![p] = "run"]
             /\ pipe' = [pipe EXCEPT ![p] = "open"] /\ reader' = [reader EXCEPT ![p] = "on"]
             /\ table' = table \cup {p}
             /\ call' = [call EXCEPT ![c].pc = "sleep", ![c].ses = p]
       \/ Return(c) /\ UNCHANGED <<proc, pipe, reader, table>>
    /\ UNCHANGED <<written, unread, buf, lockq, killed, reported>>

\* stdin takes the characters, or the process has gone.
Fed(c) ==
    /\ call[c].pc = "feed"
    /\ IF proc[call[c].ses] = "exit" THEN Return(c) ELSE BeginPoll(c, call[c].ses)
    /\ UNCHANGED <<procVars, buf, reader, table, owner, lockq, killed, reported>>

Terminated(c) ==
    /\ call[c].pc = "term" /\ BeginPoll(c, call[c].ses)
    /\ UNCHANGED <<procVars, buf, reader, table, owner, lockq, killed, reported>>

Pop(c) ==
    /\ owner = NoCaller /\ lockq # <<>> /\ Head(lockq) = c /\ lockq' = Tail(lockq)
    /\ call[c].pc = "pop" /\ table' = table \ {call[c].ses} /\ Return(c)
    /\ UNCHANGED <<procVars, buf, reader, owner, killed, reported>>

----------------------------------------------------------------------------
(* exec without a session *)

RunCommand(c, p) ==
    /\ IsNext(c) /\ Unused(p)
    /\ proc' = [proc EXCEPT ![p] = "run"] /\ pipe' = [pipe EXCEPT ![p] = "open"]
    /\ call' = [call EXCEPT ![c] = [NewCall EXCEPT !.pc = "run", !.ses = p]]
    /\ UNCHANGED <<written, unread, buf, reader, table, owner, lockq, killed, reported>>

\* communicate returns at the end of the output, or runs into the timeout.
CommandEnds(c) ==
    /\ call[c].pc = "run"
    /\ \/ proc[call[c].ses] = "exit" /\ pipe[call[c].ses] = "closed" /\ Return(c) /\ UNCHANGED killed
       \/ Kill(call[c].ses) /\ Goto(c, "runkill")
    /\ UNCHANGED <<procVars, buf, reader, table, owner, lockq, reported>>

CommandKilled(c) ==
    /\ call[c].pc = "runkill" /\ Return(c)
    /\ UNCHANGED <<procVars, buf, reader, table, owner, lockq, killed, reported>>

----------------------------------------------------------------------------
(* /stop cancels the call wherever it waits. *)

StopWaiting(c) ==
    \/ \E i \in DOMAIN lockq : lockq[i] = c /\ lockq' = RemoveAt(lockq, i)
    \/ (\A i \in DOMAIN lockq : lockq[i] # c) /\ UNCHANGED lockq

Cancelled(c) ==
    /\ call[c].pc \notin {"new", "over"}
    /\ owner' = IF owner = c THEN NoCaller ELSE owner
    /\ StopWaiting(c)
    /\ IF call[c].pc = "run" THEN Kill(call[c].ses) /\ Goto(c, "runkill") ELSE Return(c) /\ UNCHANGED killed
    /\ reader' = IF call[c].pc = "drain" /\ reader[call[c].ses] = "on"
                 THEN [reader EXCEPT ![call[c].ses] = "cut"] ELSE reader
    /\ UNCHANGED <<procVars, buf, table, reported>>

CallStep(c) ==
    \/ Acquire(c) \/ Cleaned(c) \/ Spawned(c) \/ Terminated(c)
    \/ Wake(c) \/ Reaped(c) \/ Drain(c) \/ Pop(c) \/ CommandEnds(c) \/ CommandKilled(c)

ExecNext ==
    \/ \E p \in Procs : ProcWrites(p) \/ ProcEnds(p) \/ ChildEnds(p) \/ ReadStream(p)
    \/ \E c \in Callers :
          \/ Start(c) \/ CallStep(c) \/ Fed(c) \/ Cancelled(c)
          \/ \E p \in Procs : RunCommand(c, p) \/ \E op \in {"poll", "chars", "term"} : Write(c, p, op)

\* The event loop runs what is ready; the waits of a poll, of a kill and of a command are
\* bounded.  Nobody promises that a process reads its stdin or ends.
ExecFair ==
    /\ \A p \in Procs : WF_execVars(ReadStream(p))
    /\ \A c \in Callers : WF_execVars(CallStep(c))

ExecSpec == ExecInit /\ [][ExecNext]_execVars /\ ExecFair

----------------------------------------------------------------------------
(* Properties. *)

ExecTypeOK ==
    /\ \A p \in Procs : /\ proc[p] \in {"none", "run", "exit"} /\ pipe[p] \in {"open", "closed"}
                        /\ reader[p] \in {"none", "on", "eof", "cut"}
                        /\ written[p] \in 0..MaxOut /\ unread[p] + buf[p] <= written[p]
    /\ table \subseteq {p \in Procs : reader[p] # "none"}
    /\ owner # NoCaller => call[owner].pc \in {"cleanup", "spawn"}
    /\ \A c \in Callers : (\E i \in DOMAIN lockq : lockq[i] = c) <=> call[c].pc \in {"lock", "pop"}

\* The number of sessions stays within the limit, whatever starts while a process is made or
\* an idle one is killed.
SlotsKept == Cardinality(table) <= MaxSlots

\* A process that runs and was sent no kill is in the table, where it can be listed and
\* ended, or is the command of a call that waits for it.
NoStray ==
    \A p \in Procs : proc[p] = "run" /\ p \notin killed =>
        p \in table \/ \E c \in Callers : call[c].pc = "run" /\ call[c].ses = p

\* A poll that reports the end of a session leaves no output behind, unless the reading was
\* cut off: a child keeps the pipe open, or a caller that waited for it was stopped.
EndMeansAll == \A p \in reported : reader[p] # "cut" => unread[p] = 0 /\ buf[p] = 0

\* Every call comes to an end, other than one that waits for a process to read its stdin.
CallEnds == \A c \in Callers : call[c].pc = "lock" ~> call[c].pc \in {"over", "feed"}

\* What interleaved exec calls leave of the sessions: no slot too many, no process that nobody
\* lists, and all output with the end.
ExecSound == ExecTypeOK /\ SlotsKept /\ NoStray /\ EndMeansAll
================================================================================

------------------------------- MODULE McpServers -------------------------------
(* The MCP servers the loop connects to (agent/tools/mcp.py; loop.py _connect_mcp, close_mcp) *)
(* and their reset by the terminal's /mcp (cli/tui/commands.py).  Tasks that connect: the      *)
(* loop as it starts, turns that are run directly, the terminal.  A session is <<server, n>>;  *)
(* it is open from the entry of its stack to the end of aclose.                                *)
EXTENDS Naturals, Sequences, FiniteSets, SequencesExt

CONSTANTS
    Configs,     \* the configurations of the servers: sequences of servers
    DirectTurns,     \* turns run directly (process_direct)
    MaxSessions, \* bound: sessions opened
    MaxMcpSyncs, \* bound: resets
    MaxBusMsgs   \* bound: messages from the bus

\* The servers there are.
Served == UNION {ToSet(c) : c \in Configs}

ASSUME McpAssumption ==
    /\ Configs # {} /\ Configs \subseteq Seq(Served)
    /\ MaxSessions \in Nat /\ MaxMcpSyncs \in Nat /\ MaxBusMsgs \in Nat

Connectors == {"run", "tui"} \cup DirectTurns
NoTrial == [left |-> <<>>, got |-> {}, now |-> {}]

VARIABLES
    servers,     \* _mcp_servers
    stacks,      \* _mcp_stacks: the sessions in it
    mcpUp,       \* _mcp_connected
    mcpTrying,   \* _mcp_connecting
    mcpTools,    \* the sessions whose tools are registered, by server
    opened,      \* sessions that are open
    sessions,    \* sessions opened so far
    step,        \* task: "new", "connecting", "ready" or "closing"
    trial,       \* task: [left, got, now] of its connect_mcp_servers
    toClose,     \* sessions close_mcp still has to close
    mcpSyncs,    \* resets so far
    busMsgs,     \* messages taken from the bus
    call,        \* a call of a registered tool: attempts begun, 0 when there is none
    abandoned,   \* history: sessions a cancellation or a reset left behind
    resetRace,   \* history: a reset was done while an attempt was under way
    failedTry,   \* history: an attempt connected no server, and none came since
    unretried    \* history: a message was handled after it, and no attempt was made

mcpVars == <<servers, stacks, mcpUp, mcpTrying, mcpTools, opened, sessions, step, trial, toClose, mcpSyncs,
             busMsgs, call, abandoned, resetRace, failedTry, unretried>>
outside == <<mcpSyncs, busMsgs, call, unretried, resetRace>>

McpInit ==
    /\ servers \in Configs /\ stacks = {} /\ mcpUp = FALSE /\ mcpTrying = FALSE
    /\ mcpTools = {} /\ opened = {} /\ sessions = 0
    /\ step = [t \in Connectors |-> "new"] /\ trial = [t \in Connectors |-> NoTrial] /\ toClose = {}
    /\ mcpSyncs = 0 /\ busMsgs = 0 /\ call = 0 /\ abandoned = {} /\ resetRace = FALSE /\ failedTry = FALSE /\ unretried = FALSE

----------------------------------------------------------------------------
(* Connecting. *)

\* Mutant: an attempt under way is not looked at.
NotUp == ~mcpUp

\* The early return of _connect_mcp.
ShouldConnect == ~mcpUp /\ ~mcpTrying

\* One attempt at a time and none after one that connected a server.
Connect(t) ==
    /\ step[t] = "new" /\ (t = "tui" => step["run"] # "new")
    /\ IF ShouldConnect /\ servers # <<>>
       THEN /\ step' = [step EXCEPT ![t] = "connecting"] /\ mcpTrying' = TRUE
            /\ trial' = [trial EXCEPT ![t] = [NoTrial EXCEPT !.left = servers]]
            /\ failedTry' = FALSE
       ELSE /\ step' = [step EXCEPT ![t] = "ready"] /\ UNCHANGED <<mcpTrying, trial, failedTry>>
    /\ UNCHANGED <<outside, servers, stacks, mcpUp, mcpTools, opened, sessions, toClose, abandoned>>

\* connect_single_server enters the transport's and the session's contexts.
OpenServer(t) ==
    /\ step[t] = "connecting" /\ trial[t].left # <<>> /\ trial[t].now = {} /\ sessions < MaxSessions
    /\ LET s == <<Head(trial[t].left), sessions + 1>> IN
        /\ trial' = [trial EXCEPT ![t] = [@ EXCEPT !.left = Tail(trial[t].left), !.now = {s}]]
        /\ opened' = opened \cup {s}
    /\ sessions' = sessions + 1
    /\ UNCHANGED <<outside, servers, stacks, mcpUp, mcpTrying, mcpTools, step, toClose, abandoned,
                   failedTry>>

\* Its tools are registered over those of the same names.
RegisterTools(s) == {r \in mcpTools : r[1] # s[1]} \cup {s}

ServerReady(t) ==
    /\ trial[t].now # {}
    /\ \E s \in trial[t].now : mcpTools' = RegisterTools(s)
    /\ trial' = [trial EXCEPT ![t] = [@ EXCEPT !.got = trial[t].got \cup trial[t].now, !.now = {}]]
    /\ UNCHANGED <<outside, servers, stacks, mcpUp, mcpTrying, opened, sessions, step, toClose,
                   abandoned, failedTry>>

\* It cannot be started or reached, or does not answer: it is skipped.
ServerFails(t) ==
    /\ step[t] = "connecting"
    /\ \/ trial[t].now # {} /\ trial' = [trial EXCEPT ![t].now = {}] /\ opened' = opened \ trial[t].now
       \/ trial[t].now = {} /\ trial[t].left # <<>> /\ UNCHANGED opened
          /\ trial' = [trial EXCEPT ![t].left = Tail(@)]
    /\ UNCHANGED <<outside, servers, stacks, mcpUp, mcpTrying, mcpTools, sessions, step, toClose,
                   abandoned, failedTry>>

\* What was connected replaces what was held: what a racing attempt put there is lost.
Connected(t) ==
    /\ step[t] = "connecting" /\ trial[t].left = <<>> /\ trial[t].now = {}
    /\ stacks' = trial[t].got /\ mcpUp' = (mcpUp \/ trial[t].got # {}) /\ mcpTrying' = FALSE
    /\ failedTry' = (trial[t].got = {})
    /\ step' = [step EXCEPT ![t] = "ready"] /\ trial' = [trial EXCEPT ![t] = NoTrial]
    /\ UNCHANGED <<outside, servers, mcpTools, opened, sessions, toClose, abandoned>>

\* The task is cancelled: its sessions stay open and nobody holds them.  The task goes on.
ConnectCancelled(t) ==
    /\ step[t] = "connecting"
    /\ abandoned' = abandoned \cup trial[t].got \cup trial[t].now \cup stacks
    /\ stacks' = {} /\ mcpTrying' = FALSE /\ failedTry' = TRUE
    /\ step' = [step EXCEPT ![t] = "ready"] /\ trial' = [trial EXCEPT ![t] = NoTrial]
    /\ UNCHANGED <<outside, servers, mcpUp, mcpTools, opened, sessions, toClose>>

----------------------------------------------------------------------------
(* /mcp, and messages. *)

\* _sync_mcp_config: the file holds another configuration; close_mcp begins.
SyncConfig ==
    /\ step["tui"] \in {"new", "ready"} /\ mcpSyncs < MaxMcpSyncs /\ mcpSyncs' = mcpSyncs + 1
    /\ step' = [step EXCEPT !["tui"] = "closing"] /\ toClose' = stacks
    /\ UNCHANGED <<servers, stacks, mcpUp, mcpTrying, mcpTools, opened, sessions, trial, busMsgs, call,
                   abandoned, resetRace, failedTry, unretried>>

CloseStack ==
    /\ step["tui"] = "closing"
    /\ \E s \in toClose : toClose' = toClose \ {s} /\ opened' = opened \ {s}
    /\ UNCHANGED <<outside, servers, stacks, mcpUp, mcpTrying, mcpTools, sessions, step, trial,
                   abandoned, failedTry>>

\* close_mcp looks over two kinds of error; another ends the closing and the reset, and what was
\* not closed yet stays held, under the configuration of before.
CloseFails ==
    /\ step["tui"] = "closing" /\ \E s \in toClose : opened' = opened \ {s}
    /\ toClose' = {} /\ step' = [step EXCEPT !["tui"] = "new"]
    /\ UNCHANGED <<outside, servers, stacks, mcpUp, mcpTrying, mcpTools, sessions, trial, abandoned,
                   failedTry>>

\* _reset_mcp_runtime's end: everything is forgotten, what another task connected meanwhile too.
ResetDone ==
    /\ step["tui"] = "closing" /\ toClose = {}
    /\ \E c \in Configs \ {servers} : servers' = c
    /\ stacks' = {} /\ mcpTools' = {} /\ mcpUp' = FALSE /\ mcpTrying' = FALSE
    /\ abandoned' = abandoned \cup (stacks \cap opened)
    /\ resetRace' = (resetRace \/ \E t \in Connectors : step[t] = "connecting")
    /\ step' = [step EXCEPT !["tui"] = "new"]
    /\ UNCHANGED <<mcpSyncs, busMsgs, call, unretried, opened, sessions, trial, toClose, failedTry>>

\* A message from the bus is dispatched: there is no connecting in that path.
HandleMessage ==
    /\ step["run"] = "ready" /\ busMsgs < MaxBusMsgs /\ busMsgs' = busMsgs + 1
    /\ unretried' = (unretried \/ failedTry)
    /\ UNCHANGED <<servers, stacks, mcpUp, mcpTrying, mcpTools, opened, sessions, step, trial, toClose, mcpSyncs,
                   call, abandoned, resetRace, failedTry>>

\* MCPToolWrapper.execute: at most one retry, on the same session, after a transient error.
BeginMcpCall == call = 0 /\ mcpTools # {} /\ call' = 1
RetryCall == call = 1 /\ call' = 2
\* An answer, a timeout, a cancellation of the SDK's or the task's own, or another error.
EndCall == call > 0 /\ call' = 0

ToolCall ==
    /\ BeginMcpCall \/ RetryCall \/ EndCall
    /\ UNCHANGED <<servers, stacks, mcpUp, mcpTrying, mcpTools, opened, sessions, step, trial, toClose, mcpSyncs,
                   busMsgs, abandoned, resetRace, failedTry, unretried>>

McpNext ==
    \/ \E t \in Connectors :
        \/ Connect(t) \/ OpenServer(t) \/ ServerReady(t) \/ ServerFails(t) \/ Connected(t) \/ ConnectCancelled(t)
    \/ SyncConfig \/ CloseStack \/ CloseFails \/ ResetDone \/ HandleMessage \/ ToolCall

McpSpec == McpInit /\ [][McpNext]_mcpVars

----------------------------------------------------------------------------
(* Properties. *)

\* However the loop's start, direct turns and the terminal race to connect: every session that
\* is open is held by the loop, which closes it in the end, or belongs to an attempt under way;
\* only a cancelled attempt and a reset during one leave sessions behind.
NoStackLost == ~resetRace =>
    opened \subseteq stacks \cup toClose \cup abandoned
                     \cup UNION {trial[t].got \cup trial[t].now : t \in Connectors}

\* "No MCP servers connected successfully (will retry next message)" (agent/loop.py:495).
RetriedNextMessage == ~unretried
=============================================================================

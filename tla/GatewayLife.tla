------------------------------- MODULE GatewayLife -------------------------------
(* The life of a gateway process (cli/commands.py _run_gateway): the probe of its port, its   *)
(* services, what they tell the chats, its shutdown, and `restart gateway`.  The turns of a   *)
(* gateway are those of its chats, of its cron jobs and of its heartbeat.                     *)
EXTENDS Naturals, FiniteSets

CONSTANTS
    Gateways,    \* the processes, in the order they are launched
    MaxGwTurns   \* bound: turns of all gateways

ASSUME GatewayAssumption == Gateways \subseteq Nat \ {0} /\ MaxGwTurns \in Nat

Sources == {"chat", "job", "beat"}
Calm == [s \in Sources |-> "none"]
Up == {"working", "bound"}
Closing == {"closing", "drained", "stopped", "flushed"}
Alive == (Up \cup Closing) \ {"flushed"}

VARIABLES
    gate,      \* "new", "probed", Up, Closing, "ended" or "killed"
    heldPort,  \* the gateway that listens, 0 when none does
    turn,      \* per gateway and source: "none", "running" or "judged" (the reply is evaluated)
    turnsLeft, \* turns and commands that may still begin
    saved,     \* sessions saved since they were last synced
    cached,    \* those of them SessionManager._cache holds
    checked,   \* sessions with a checkpoint of the turn that runs
    after,     \* sessions a background task works on
    sentFlag,  \* MessageTool._sent_in_turn of each task
    told,      \* what the turn has told its chat
    cutOff,    \* history: turns that ran when the sessions were flushed
    unsynced,  \* history: sessions whose save failed in the flush
    signals,   \* gateways that were sent a signal
    stopper    \* `restart gateway`: "idle", "waiting", "killing" or "ready"

gwVars == <<gate, heldPort, turn, turnsLeft, saved, cached, checked, after, sentFlag, told, cutOff,
            unsynced, signals, stopper>>
turnVars == <<turn, turnsLeft, saved, cached, checked, after, sentFlag, told>>
cutVars == <<cutOff, unsynced>>
stopVars == <<signals, stopper>>

GatewayInit ==
    /\ gate = [g \in Gateways |-> "new"] /\ heldPort = 0
    /\ turn = [g \in Gateways |-> Calm] /\ turnsLeft = MaxGwTurns
    /\ saved = [g \in Gateways |-> {}] /\ cached = [g \in Gateways |-> {}]
    /\ checked = [g \in Gateways |-> {}] /\ after = [g \in Gateways |-> {}]
    /\ sentFlag = [g \in Gateways |-> {}] /\ told = [g \in Gateways |-> [s \in Sources |-> 0]]
    /\ cutOff = [g \in Gateways |-> {}] /\ unsynced = [g \in Gateways |-> {}] /\ signals = {} /\ stopper = "idle"

----------------------------------------------------------------------------
(* Starting. *)

\* The probe lets the port go again: it says nothing of the moment the server binds.
Preflight(g) ==
    /\ gate[g] = "new" /\ \A h \in Gateways : h < g => gate[h] # "new"
    /\ gate' = [gate EXCEPT ![g] = IF heldPort = 0 THEN "probed" ELSE "killed"]
    /\ UNCHANGED <<heldPort, turnVars, cutVars, stopVars>>

\* run(): cron and heartbeat are started, then the loop, the channels and the health server.
StartServices(g) ==
    /\ gate[g] = "probed"
    /\ gate' = [gate EXCEPT ![g] = "working"]
    /\ UNCHANGED <<heldPort, turnVars, cutVars, stopVars>>

\* _health_server; a bind that fails ends run(), while the services go on.
BindPort(g) ==
    /\ gate[g] = "working"
    /\ IF heldPort = 0 THEN heldPort' = g /\ gate' = [gate EXCEPT ![g] = "bound"]
       ELSE gate' = [gate EXCEPT ![g] = "closing"] /\ UNCHANGED heldPort
    /\ UNCHANGED <<turnVars, cutVars, stopVars>>

----------------------------------------------------------------------------
(* Turns. *)

\* SessionManager.save, without a sync: the session is the cache's again.
Saves(g, S) == saved' = [saved EXCEPT ![g] = @ \cup S] /\ cached' = [cached EXCEPT ![g] = @ \cup S]

\* _sent_in_turn is a ContextVar: each task has its own.
TasksWithFlag(g, s) == {s}

\* The loop and the services go on until they are stopped, the shutdown under way or not.
BeginTurn(g, s) ==
    /\ gate[g] \in Up \cup {"closing", "drained"} /\ turn[g][s] = "none" /\ turnsLeft > 0
    /\ turn' = [turn EXCEPT ![g][s] = "running"]
    /\ turnsLeft' = turnsLeft - 1
    /\ sentFlag' = [sentFlag EXCEPT ![g] = @ \ TasksWithFlag(g, s)]
    /\ told' = [told EXCEPT ![g][s] = 0] /\ cached' = [cached EXCEPT ![g] = @ \cup ({s} \cap saved[g])]
    /\ UNCHANGED <<gate, heldPort, saved, checked, after, cutVars, stopVars>>

\* The heartbeat reads HEARTBEAT.md and asks the model whether there is something to do.
Beat(g) == BeginTurn(g, "beat")

\* on_cron_job, for every job but "dream".
RunJob(g) == BeginTurn(g, "job")

\* The loop takes a message of a chat.
TakeChat(g) == BeginTurn(g, "chat")

\* A checkpoint of the turn is saved, without a sync.
Checkpoint(g, s) ==
    /\ gate[g] \in Alive /\ turn[g][s] = "running"
    /\ Saves(g, {s}) /\ checked' = [checked EXCEPT ![g] = @ \cup {s}]
    /\ UNCHANGED <<gate, heldPort, turn, turnsLeft, after, sentFlag, told, cutVars, stopVars>>

\* The model tells the chat something itself (MessageTool.execute).
SendItself(g, s) ==
    /\ gate[g] \in Alive /\ turn[g][s] = "running" /\ told[g][s] = 0
    /\ told' = [told EXCEPT ![g][s] = @ + 1]
    /\ sentFlag' = [sentFlag EXCEPT ![g] = @ \cup TasksWithFlag(g, s)]
    /\ UNCHANGED <<gate, heldPort, turn, turnsLeft, saved, cached, checked, after, cutVars, stopVars>>

Finish(g, s, follow) ==
    /\ Saves(g, {s}) /\ checked' = [checked EXCEPT ![g] = @ \ {s}]
    /\ after' = [after EXCEPT ![g] = IF follow THEN @ \cup {s} ELSE @]

\* A chat's turn is saved and replied to, unless the model sent a message itself.
ChatEnds(g) ==
    /\ gate[g] \in Alive /\ turn[g]["chat"] = "running"
    /\ \E follow \in BOOLEAN : Finish(g, "chat", follow)
    /\ told' = [told EXCEPT ![g]["chat"] = IF "chat" \in sentFlag[g] THEN @ ELSE @ + 1]
    /\ turn' = [turn EXCEPT ![g]["chat"] = "none"]
    /\ UNCHANGED <<gate, heldPort, turnsLeft, sentFlag, cutVars, stopVars>>

\* A run of a job or of the heartbeat: a reply the model has not sent itself is evaluated.
RunEnds(g, s) ==
    /\ gate[g] \in Alive /\ turn[g][s] = "running"
    /\ \E follow \in BOOLEAN : Finish(g, s, follow)
    /\ turn' = [turn EXCEPT ![g][s] = IF s \in sentFlag[g] THEN "none" ELSE "judged"]
    /\ UNCHANGED <<gate, heldPort, turnsLeft, sentFlag, told, cutVars, stopVars>>

JobEnds(g) == RunEnds(g, "job")
BeatEnds(g) == RunEnds(g, "beat")

\* evaluate_response, and the reply is published when it is worth it.
TellVerdict(g, s) ==
    /\ gate[g] \in Alive /\ turn[g][s] = "judged"
    /\ \E worth \in BOOLEAN : told' = [told EXCEPT ![g][s] = IF worth THEN @ + 1 ELSE @]
    /\ turn' = [turn EXCEPT ![g][s] = "none"]
    /\ UNCHANGED <<gate, heldPort, turnsLeft, saved, cached, checked, after, sentFlag, cutVars, stopVars>>

TellJob(g) == TellVerdict(g, "job")
TellBeat(g) == TellVerdict(g, "beat")

\* What a turn left to the background (consolidation, a title) saves its session once more.
BackgroundSaves(g, s) ==
    /\ gate[g] \in Alive /\ s \in after[g]
    /\ after' = [after EXCEPT ![g] = @ \ {s}] /\ Saves(g, {s})
    /\ UNCHANGED <<gate, heldPort, turn, turnsLeft, checked, sentFlag, told, cutVars, stopVars>>

\* _evict_if_full: the session of a turn not followed further takes the place of one in the cache.
EvictSession(g, s) ==
    /\ gate[g] \in Up \cup {"closing", "drained"} /\ turnsLeft > 0 /\ turnsLeft' = turnsLeft - 1
    /\ s \in cached[g] /\ cached' = [cached EXCEPT ![g] = @ \ {s}]
    /\ UNCHANGED <<gate, heldPort, turn, saved, checked, after, sentFlag, told, cutVars, stopVars>>

\* /new: the chat's turn is cancelled, its session is emptied, saved, and taken out of the cache.
NewSession(g) ==
    /\ gate[g] \in Up \cup {"closing", "drained"} /\ turnsLeft > 0 /\ turnsLeft' = turnsLeft - 1
    /\ turn' = [turn EXCEPT ![g]["chat"] = "none"] /\ checked' = [checked EXCEPT ![g] = @ \ {"chat"}]
    /\ saved' = [saved EXCEPT ![g] = @ \cup {"chat"}] /\ cached' = [cached EXCEPT ![g] = @ \ {"chat"}]
    /\ UNCHANGED <<gate, heldPort, after, sentFlag, told, cutVars, stopVars>>

----------------------------------------------------------------------------
(* The shutdown: the finally of run(). *)

\* What a killed process held in memory is gone.
Gone(g) ==
    /\ gate' = [gate EXCEPT ![g] = "killed"]
    /\ turn' = [turn EXCEPT ![g] = Calm] /\ after' = [after EXCEPT ![g] = {}]
    /\ checked' = [checked EXCEPT ![g] = {}] /\ saved' = [saved EXCEPT ![g] = {}]
    /\ cached' = [cached EXCEPT ![g] = {}]
    /\ sentFlag' = [sentFlag EXCEPT ![g] = {}] /\ told' = [told EXCEPT ![g] = [s \in Sources |-> 0]]
    /\ UNCHANGED turnsLeft

\* Ctrl-C cancels what run() waits for, the health server too.
Interrupt(g) ==
    /\ gate[g] \in Up
    /\ gate' = [gate EXCEPT ![g] = "closing"]
    /\ heldPort' = IF heldPort = g THEN 0 ELSE heldPort
    /\ UNCHANGED <<turnVars, cutVars, stopVars>>

\* A second one ends the process where it stands.
InterruptAgain(g) ==
    /\ gate[g] \in Closing /\ Gone(g)
    /\ UNCHANGED <<heldPort, cutVars, stopVars>>

\* close_mcp waits for the background tasks.
CloseServers(g) ==
    /\ gate[g] = "closing" /\ after[g] = {}
    /\ gate' = [gate EXCEPT ![g] = "drained"]
    /\ UNCHANGED <<heldPort, turnVars, cutVars, stopVars>>

\* heartbeat.stop, cron.stop, agent.stop, channels.stop_all: a job or a heartbeat is
\* cancelled; a chat's turn is not.
StopServices(g) ==
    /\ gate[g] = "drained"
    /\ gate' = [gate EXCEPT ![g] = "stopped"]
    /\ turn' = [turn EXCEPT ![g] = [Calm EXCEPT !["chat"] = turn[g]["chat"]]]
    /\ UNCHANGED <<heldPort, turnsLeft, saved, cached, checked, after, sentFlag, told, cutVars, stopVars>>

\* Mutant: the first save that fails ends the flush.
FlushedUntilError(g, failing) == IF failing = {} THEN cached[g] ELSE {}

\* flush_all: what is cached is saved once more; a save that fails is logged, and the next
\* session is saved.
FlushedSessions(g, failing) == cached[g] \ failing

FlushAll(g) ==
    /\ gate[g] = "stopped"
    /\ gate' = [gate EXCEPT ![g] = "flushed"]
    /\ \E failing \in SUBSET cached[g] :
        /\ Cardinality(failing) <= 1
        /\ saved' = [saved EXCEPT ![g] = @ \ FlushedSessions(g, failing)]
        /\ cached' = [cached EXCEPT ![g] = @ \ FlushedSessions(g, failing)]
        /\ unsynced' = [unsynced EXCEPT ![g] = failing]
    /\ cutOff' = [cutOff EXCEPT ![g] = {s \in Sources : turn[g][s] # "none"}]
    /\ UNCHANGED <<heldPort, turn, turnsLeft, checked, after, sentFlag, told, stopVars>>

\* asyncio.run cancels the tasks that are left: a chat's turn with a checkpoint saves it.
EndGateway(g) ==
    /\ gate[g] = "flushed"
    /\ gate' = [gate EXCEPT ![g] = "ended"]
    /\ Saves(g, {s \in checked[g] : s = "chat" /\ turn[g][s] = "running"})
    /\ turn' = [turn EXCEPT ![g] = Calm] /\ after' = [after EXCEPT ![g] = {}]
    /\ UNCHANGED <<heldPort, turnsLeft, checked, sentFlag, told, cutVars, stopVars>>

----------------------------------------------------------------------------
(* `restart gateway`: _stop_service. *)

\* _pids_listening_on.
Listeners == {heldPort} \ {0}

\* SIGTERM to those that listen; the command waits for the port.
AskToStop ==
    /\ stopper = "idle" /\ signals' = signals \cup Listeners
    /\ stopper' = IF Listeners = {} THEN "ready" ELSE "waiting"
    /\ UNCHANGED <<gate, heldPort, turnVars, cutVars>>

\* Nothing handles the signal: the process is gone, its finally is not run.
SignalLands(g) ==
    /\ g \in signals /\ gate[g] \notin {"ended", "killed"} /\ Gone(g)
    /\ heldPort' = IF heldPort = g THEN 0 ELSE heldPort
    /\ signals' = signals \ {g}
    /\ UNCHANGED <<cutVars, stopper>>

\* After 8 s whoever listens then is killed.
KillListener ==
    /\ stopper = "waiting" /\ Listeners # {}
    /\ stopper' = "killing" /\ signals' = signals \cup Listeners
    /\ UNCHANGED <<gate, heldPort, turnVars, cutVars>>

\* The fresh gateway is started only when the port is free; it probes it like any other.
PortFree ==
    /\ stopper \in {"waiting", "killing"} /\ Listeners = {}
    /\ stopper' = "ready"
    /\ UNCHANGED <<gate, heldPort, turnVars, cutVars, signals>>

GatewayNext ==
    \/ \E g \in Gateways : Preflight(g) \/ StartServices(g) \/ BindPort(g) \/ Interrupt(g) \/ InterruptAgain(g)
    \/ \E g \in Gateways, s \in Sources :
        Checkpoint(g, s) \/ SendItself(g, s) \/ BackgroundSaves(g, s) \/ EvictSession(g, s)
    \/ \E g \in Gateways : Beat(g) \/ RunJob(g) \/ TakeChat(g) \/ NewSession(g)
    \/ \E g \in Gateways : ChatEnds(g) \/ JobEnds(g) \/ BeatEnds(g) \/ TellJob(g) \/ TellBeat(g)
    \/ \E g \in Gateways : CloseServers(g) \/ StopServices(g) \/ FlushAll(g) \/ EndGateway(g) \/ SignalLands(g)
    \/ AskToStop \/ KillListener \/ PortFree

GatewaySpec == GatewayInit /\ [][GatewayNext]_gwVars

----------------------------------------------------------------------------

\* No turn tells its chat twice what it has to say, the message the model sent itself
\* included, whatever other turns of the gateway do meanwhile.
ToldOnce == \A g \in Gateways, s \in Sources : told[g][s] <= 1

\* When a gateway has shut down, every session the cache still held is synced but those of turns
\* that still ran and those that could not be saved, whichever of its services saved it last.
\* One that left the cache after its last save is not synced by anyone.
EndedIsDurable ==
    \A g \in Gateways : gate[g] = "ended" => saved[g] \cap cached[g] \subseteq cutOff[g] \cup unsynced[g]

\* cli/commands.py:896 "Flush all cached sessions to durable storage before exit."
\* It does not cover what a turn saves that is cancelled only after the flush.
FlushCoversAll == \A g \in Gateways : gate[g] = "ended" => saved[g] \cap cached[g] \subseteq unsynced[g]

\* What a gateway says, and what it leaves on disk.
GatewaySound == ToldOnce /\ EndedIsDurable
==============================================================================

------------------------------ MODULE TurnDispatch ------------------------------
(***************************************************************************)
(* How AgentLoop (agent/loop.py) turns bus messages into turns: run() is   *)
(* the only consumer of the inbound queue and routes every message; each   *)
(* _dispatch() task registers a bounded pending queue for mid-turn         *)
(* follow-ups, then waits for its session's lock and for the global gate;  *)
(* /stop, /new, /regenerate cancel a session's tasks; process_direct()     *)
(* takes the session lock from outside the bus.                            *)
(*                                                                         *)
(* A message and the task that dispatches it share one identifier: a       *)
(* message is dispatched at most once, and a task's local pending queue is *)
(* named by the task.  asyncio runs one coroutine at a time, so an action  *)
(* is what a coroutine does between two suspension points.                 *)
(***************************************************************************)
EXTENDS Naturals, Sequences, FiniteSets

CONSTANTS
    Msgs,          \* messages (and the direct calls and subagents that act like one)
    Keys,          \* session keys
    UnifiedKey,    \* UNIFIED_SESSION_KEY
    Kind,          \* what each message is, see Kinds
    ChatKey,       \* "channel:chat_id" of the chat a message belongs to
    Override,      \* session_key_override of a message, or None
    Unified,       \* agents.defaults.unified_session
    PendingMax,    \* capacity of a pending queue (20)
    GateSize,      \* PYTHINKER_AI_MAX_CONCURRENT_REQUESTS (3)
    MaxInject,     \* _MAX_INJECTIONS_PER_TURN, messages per drain (3)
    MaxDrains,     \* bound: drains of the pending queue in one turn
    EagerConsume,  \* wait_for() returns a ready message without yielding (Python 3.12+)
    None

Kinds == {"text", "cmd", "new", "stop", "regen", "sub", "direct"}

ASSUME DispatchAssumption ==
    /\ None \notin Msgs \cup Keys
    /\ UnifiedKey \in Keys
    /\ Kind \in [Msgs -> Kinds]
    /\ ChatKey \in [Msgs -> Keys]
    /\ Override \in [Msgs -> Keys \cup {None}]
    /\ Unified \in BOOLEAN /\ EagerConsume \in BOOLEAN
    /\ PendingMax \in Nat \ {0} /\ GateSize \in Nat \ {0}
    /\ MaxInject \in Nat \ {0} /\ MaxDrains \in Nat

VARIABLES
    inbound,    \* MessageBus.inbound
    st,         \* where each message or task stands, see States
    pend,       \* the pending queue created by each dispatch task
    reg,        \* _pending_queues: per session, the task whose queue is registered
    active,     \* _active_tasks: per session, the tasks /stop can reach
    created,    \* dispatch tasks created and not yet started, in the event loop's order
    cancelled,  \* tasks with a cancellation to be delivered
    awaits,     \* the tasks a cancelling command still has to see finish
    runCmd,     \* the command run() is executing inline, or None
    hot,        \* run() has not yielded to the event loop since it last created a task
    lockOwner, lockWait,   \* _session_locks: holder and FIFO waiters, per session
    gateHeld, gateWait,    \* _concurrency_gate: holders and FIFO waiters
    drains,     \* drains made by each turn
    rerun       \* /regenerate commands that have republished their user message

queueVars == <<inbound, pend, reg>>
runVars == <<runCmd, awaits, hot, rerun>>
lockVars == <<lockOwner, lockWait>>
gateVars == <<gateHeld, gateWait>>
taskVars == <<active, created, cancelled, drains>>
vars == <<queueVars, st, runVars, lockVars, gateVars, taskVars>>

Over == {"done", "injected", "dropped"}
Turning == {"run", "subwait", "await", "gather", "closing"}
States == {"fresh", "subrun", "pending", "created", "lock", "gate"} \cup Turning \cup Over

----------------------------------------------------------------------------
(* Session keys. *)

\* The override a message carries; the one /regenerate publishes carries none.
KeyOverride(m) == IF m \in rerun THEN None ELSE Override[m]

\* InboundMessage.session_key
SessionKey(m) == IF KeyOverride(m) # None THEN KeyOverride(m) ELSE ChatKey[m]

\* AgentLoop._effective_session_key; process_direct() is given its key by the caller
EffectiveKey(m) ==
    IF Unified /\ KeyOverride(m) = None /\ Kind[m] # "direct" THEN UnifiedKey ELSE SessionKey(m)

\* The session whose history the turn of m reads and writes: _process_message derives
\* it from chat_id for a system message and from the routed key otherwise.
StoreKey(m) == IF Kind[m] = "sub" THEN ChatKey[m] ELSE EffectiveKey(m)

Role(m) == IF m \in rerun THEN "text" ELSE Kind[m]

\* The key whose tasks a cancelling command reaches: priority commands are handed
\* msg.session_key, /new the effective key.
CancelKey(m) == IF Role(m) = "new" THEN EffectiveKey(m) ELSE SessionKey(m)

Init ==
    /\ inbound = <<>>
    /\ st = [m \in Msgs |-> "fresh"]
    /\ pend = [m \in Msgs |-> <<>>]
    /\ reg = [k \in Keys |-> None]
    /\ active = [k \in Keys |-> {}]
    /\ created = <<>>
    /\ cancelled = {}
    /\ awaits = [m \in Msgs |-> {}]
    /\ runCmd = None
    /\ hot = FALSE
    /\ lockOwner = [k \in Keys |-> None]
    /\ lockWait = [k \in Keys |-> <<>>]
    /\ gateHeld = {}
    /\ gateWait = <<>>
    /\ drains = [m \in Msgs |-> 0]
    /\ rerun = {}

----------------------------------------------------------------------------
(* asyncio.Lock and asyncio.Semaphore: FIFO, handed over on release. *)

Without(s, x) ==
    LET i == CHOOSE j \in 1..Len(s) : s[j] = x
    IN  IF \E j \in 1..Len(s) : s[j] = x
        THEN SubSeq(s, 1, i - 1) \o SubSeq(s, i + 1, Len(s)) ELSE s

RequestLock(k, m) ==
    IF lockOwner[k] = None
    THEN lockOwner' = [lockOwner EXCEPT ![k] = m] /\ UNCHANGED lockWait
    ELSE lockWait' = [lockWait EXCEPT ![k] = Append(@, m)] /\ UNCHANGED lockOwner

LeaveLock(k, m) ==
    CASE lockOwner[k] = m /\ lockWait[k] = <<>> ->
            lockOwner' = [lockOwner EXCEPT ![k] = None] /\ UNCHANGED lockWait
      [] lockOwner[k] = m /\ lockWait[k] # <<>> ->
            /\ lockOwner' = [lockOwner EXCEPT ![k] = Head(lockWait[k])]
            /\ lockWait' = [lockWait EXCEPT ![k] = Tail(@)]
      [] OTHER -> lockWait' = [lockWait EXCEPT ![k] = Without(@, m)] /\ UNCHANGED lockOwner

RequestGate(m) ==
    IF Cardinality(gateHeld) < GateSize
    THEN gateHeld' = gateHeld \cup {m} /\ UNCHANGED gateWait
    ELSE gateWait' = Append(gateWait, m) /\ UNCHANGED gateHeld

LeaveGate(m) ==
    CASE m \in gateHeld /\ gateWait = <<>> -> gateHeld' = gateHeld \ {m} /\ UNCHANGED gateWait
      [] m \in gateHeld /\ gateWait # <<>> ->
            gateHeld' = (gateHeld \ {m}) \cup {Head(gateWait)} /\ gateWait' = Tail(gateWait)
      [] OTHER -> gateWait' = Without(gateWait, m) /\ UNCHANGED gateHeld

----------------------------------------------------------------------------
(* Producers. *)

\* A channel publishes a user message or a slash command.
Publish(m) ==
    /\ st[m] = "fresh" /\ Kind[m] \notin {"sub", "direct"}
    /\ st' = [st EXCEPT ![m] = "pending"]
    /\ inbound' = Append(inbound, m)
    /\ hot' = FALSE
    /\ UNCHANGED <<pend, reg, runCmd, awaits, rerun, lockVars, gateVars, taskVars>>

\* A subagent ends, well or badly, and announces its result on the bus.
Announce(b) ==
    /\ st[b] = "subrun"
    /\ st' = [st EXCEPT ![b] = "pending"]
    /\ inbound' = Append(inbound, b)
    /\ hot' = FALSE
    /\ UNCHANGED <<pend, reg, runCmd, awaits, rerun, lockVars, gateVars, taskVars>>

----------------------------------------------------------------------------
(* AgentLoop.run: one message routed per step. *)

RunReady ==
    /\ runCmd = None
    /\ inbound # <<>>
    /\ created = <<>> \/ (EagerConsume /\ hot)

Registered(k) == reg[k] # None

\* Mutant: only tasks past the session lock are cancelled.
BeginCancelRunning(m, k) ==
    LET running == {t \in active[k] \ {m} : lockOwner[k] = t} IN
    /\ awaits' = [awaits EXCEPT ![m] = running]
    /\ cancelled' = cancelled \cup running
    /\ active' = [active EXCEPT ![k] = {}]
    /\ st' = [st EXCEPT ![m] = "await"]

\* A command that cancels: every listed task of the key is cancelled and delisted,
\* then awaited (_cancel_active_tasks up to its first await).
BeginCancel(m, k) ==
    /\ awaits' = [awaits EXCEPT ![m] = active[k] \ {m}]
    /\ cancelled' = cancelled \cup (active[k] \ {m})
    /\ active' = [active EXCEPT ![k] = {}]
    /\ st' = [st EXCEPT ![m] = "await"]

\* /stop and /regenerate always run inline; /new only while a turn is registered.
RouteCancel(m) ==
    /\ RunReady /\ m = Head(inbound)
    /\ \/ Role(m) \in {"stop", "regen"}
       \/ Role(m) = "new" /\ Registered(EffectiveKey(m))
    /\ inbound' = Tail(inbound)
    /\ runCmd' = m
    /\ BeginCancel(m, CancelKey(m))
    /\ UNCHANGED <<pend, reg, hot, rerun, lockVars, gateVars, created, drains>>

\* Any other slash command during a turn is answered inline.
RouteInline(m) ==
    /\ RunReady /\ m = Head(inbound)
    /\ Role(m) = "cmd" /\ Registered(EffectiveKey(m))
    /\ inbound' = Tail(inbound)
    /\ st' = [st EXCEPT ![m] = "done"]
    /\ UNCHANGED <<pend, reg, runVars, lockVars, gateVars, taskVars>>

\* Mutant: the queue is full one message later.
HasRoomOver(k) == Registered(k) /\ Len(pend[reg[k]]) <= PendingMax

HasRoom(k) == Registered(k) /\ Len(pend[reg[k]]) < PendingMax

\* A follow-up goes to the registered pending queue for mid-turn injection.
RouteToQueue(m) ==
    LET k == EffectiveKey(m) IN
    /\ RunReady /\ m = Head(inbound)
    /\ Role(m) \in {"text", "sub"} /\ HasRoom(k)
    /\ inbound' = Tail(inbound)
    /\ pend' = [pend EXCEPT ![reg[k]] = Append(@, m)]
    /\ UNCHANGED <<st, reg, runVars, lockVars, gateVars, taskVars>>

\* No registered queue, or QueueFull (or a slash command of an idle session).
NeedsTask(m) ==
    \/ Role(m) \in {"text", "sub"} /\ ~HasRoom(EffectiveKey(m))
    \/ Role(m) \in {"cmd", "new"} /\ ~Registered(EffectiveKey(m))

\* The message gets a dispatch task of its own.
RouteToTask(m) ==
    /\ RunReady /\ m = Head(inbound) /\ NeedsTask(m)
    /\ inbound' = Tail(inbound)
    /\ st' = [st EXCEPT ![m] = "created"]
    /\ active' = [active EXCEPT ![EffectiveKey(m)] = @ \cup {m}]
    /\ created' = Append(created, m)
    /\ hot' = TRUE
    /\ UNCHANGED <<pend, reg, runCmd, awaits, rerun, lockVars, gateVars, cancelled, drains>>

TasksOver(m) == st[m] = "await" /\ \A t \in awaits[m] : st[t] \in Over

\* The subagents that cancel_by_session() finds for the command's key.
SubsOf(m) == {b \in Msgs : st[b] = "subrun" /\ Override[b] = CancelKey(m)}

\* The cancelled tasks are over: the session's subagents are picked, cancelled and awaited.
CancelSubs(m) ==
    /\ TasksOver(m) /\ SubsOf(m) # {}
    /\ st' = [t \in Msgs |-> IF t = m THEN "gather" ELSE IF t \in SubsOf(m) THEN "dropped" ELSE st[t]]
    /\ hot' = FALSE
    /\ UNCHANGED <<queueVars, runCmd, awaits, rerun, lockVars, gateVars, taskVars>>

\* They are over too, or there was none, and the command goes on: /regenerate to take the
\* session lock, /new inside a turn to end it.
FinishCancel(m) ==
    LET next == CASE Role(m) = "regen" -> "lock"
                  [] runCmd # m -> "closing"
                  [] OTHER -> "done"
    IN
    /\ st[m] = "gather" \/ (TasksOver(m) /\ SubsOf(m) = {})
    /\ st' = [st EXCEPT ![m] = next]
    /\ awaits' = [awaits EXCEPT ![m] = {}]
    /\ hot' = (hot /\ next = "done")
    /\ IF Role(m) = "regen" THEN RequestLock(SessionKey(m), m) ELSE UNCHANGED lockVars
    /\ runCmd' = IF next = "done" THEN None ELSE runCmd
    /\ UNCHANGED <<queueVars, rerun, gateVars, taskVars>>

\* /regenerate under the session lock: the history is truncated after its last user
\* row, which is published again; a session without a user row is left alone.
Regenerate(m) ==
    LET k == SessionKey(m) IN
    /\ st[m] = "lock" /\ Role(m) = "regen" /\ lockOwner[k] = m
    /\ \/ /\ st' = [st EXCEPT ![m] = "pending"]
          /\ rerun' = rerun \cup {m}
          /\ inbound' = Append(inbound, m)
       \/ /\ st' = [st EXCEPT ![m] = "done"]
          /\ UNCHANGED <<rerun, inbound>>
    /\ LeaveLock(k, m)
    /\ runCmd' = None
    /\ hot' = FALSE
    /\ UNCHANGED <<pend, reg, awaits, gateVars, taskVars>>

----------------------------------------------------------------------------
(* AgentLoop._dispatch: the life of one dispatch task. *)

IsTask(m) == Role(m) \in {"text", "sub", "cmd", "new"}

\* First step: register a fresh pending queue, whatever was registered before, and ask
\* for the session lock.  A task cancelled before it starts never runs.
StartTask(m) ==
    LET k == EffectiveKey(m) IN
    /\ created # <<>> /\ m = Head(created)
    /\ created' = Tail(created)
    /\ hot' = FALSE
    /\ IF m \in cancelled
       THEN /\ st' = [st EXCEPT ![m] = "dropped"]
            /\ UNCHANGED <<reg, lockVars>>
       ELSE /\ st' = [st EXCEPT ![m] = "lock"]
            /\ reg' = [reg EXCEPT ![k] = m]
            /\ RequestLock(k, m)
    /\ UNCHANGED <<inbound, pend, runCmd, awaits, rerun, gateVars, active, cancelled, drains>>

\* Mutant: the task does not wait for its turn at the lock.
GotLockAtOnce(m) ==
    /\ st[m] = "lock" /\ IsTask(m) /\ m \notin cancelled
    /\ st' = [st EXCEPT ![m] = "gate"]
    /\ RequestGate(m)
    /\ hot' = FALSE
    /\ UNCHANGED <<queueVars, runCmd, awaits, rerun, lockVars, taskVars>>

GotLock(m) ==
    /\ st[m] = "lock" /\ IsTask(m) /\ m \notin cancelled
    /\ lockOwner[EffectiveKey(m)] = m
    /\ st' = [st EXCEPT ![m] = "gate"]
    /\ RequestGate(m)
    /\ hot' = FALSE
    /\ UNCHANGED <<queueVars, runCmd, awaits, rerun, lockVars, taskVars>>

\* Past the gate _process_message runs a turn, or the handler of a slash command.
BeginTurn(m) ==
    /\ st[m] = "gate" /\ m \in gateHeld /\ m \notin cancelled
    /\ hot' = FALSE
    /\ IF Role(m) = "new"
       THEN BeginCancel(m, EffectiveKey(m))
       ELSE /\ st' = [st EXCEPT ![m] = IF Role(m) = "cmd" THEN "closing" ELSE "run"]
            /\ UNCHANGED <<awaits, cancelled, active>>
    /\ UNCHANGED <<queueVars, runCmd, rerun, lockVars, gateVars, created, drains>>

----------------------------------------------------------------------------
(* The turn: _run_agent_loop and its _drain_pending callback. *)

Running(m) == st[m] = "run" /\ m \notin cancelled

SubsRunning(k) == \E b \in Msgs : st[b] = "subrun" /\ Override[b] = k

\* The spawn tool: the result will be routed by the session the turn works on.
Spawn(m, b) ==
    /\ Running(m)
    /\ Kind[b] = "sub" /\ st[b] = "fresh"
    /\ ChatKey[b] = ChatKey[m] /\ Override[b] = StoreKey(m)
    /\ st' = [st EXCEPT ![b] = "subrun"]
    /\ hot' = FALSE
    /\ UNCHANGED <<queueVars, runCmd, awaits, rerun, lockVars, gateVars, taskVars>>

\* Up to MaxInject messages of the turn's own queue join the turn.
TakeInjections(m) ==
    LET n == IF Len(pend[m]) < MaxInject THEN Len(pend[m]) ELSE MaxInject
        taken == {pend[m][i] : i \in 1..n}
    IN
    /\ pend[m] # <<>>
    /\ st' = [t \in Msgs |-> IF t = m THEN "run" ELSE IF t \in taken THEN "injected" ELSE st[t]]
    /\ pend' = [pend EXCEPT ![m] = SubSeq(@, n + 1, Len(@))]
    /\ drains' = [drains EXCEPT ![m] = @ + 1]
    /\ hot' = FALSE
    /\ UNCHANGED <<inbound, reg, runCmd, awaits, rerun, lockVars, gateVars, active, created, cancelled>>

Drain(m) == Running(m) /\ Kind[m] # "direct" /\ drains[m] < MaxDrains /\ TakeInjections(m)

\* Nothing queued and subagents of the session at work: the turn waits on its queue.
WaitForSub(m) ==
    /\ Running(m) /\ Kind[m] # "direct" /\ drains[m] < MaxDrains
    /\ pend[m] = <<>> /\ SubsRunning(StoreKey(m))
    /\ st' = [st EXCEPT ![m] = "subwait"]
    /\ hot' = FALSE
    /\ UNCHANGED <<queueVars, runCmd, awaits, rerun, lockVars, gateVars, taskVars>>

WakeForSub(m) == st[m] = "subwait" /\ m \notin cancelled /\ TakeInjections(m)


\* asyncio.timeout(300)
SubTimeout(m) ==
    /\ st[m] = "subwait" /\ m \notin cancelled /\ pend[m] = <<>>
    /\ st' = [st EXCEPT ![m] = "run"]
    /\ drains' = [drains EXCEPT ![m] = @ + 1]
    /\ hot' = FALSE
    /\ UNCHANGED <<queueVars, runCmd, awaits, rerun, lockVars, gateVars, active, created, cancelled>>

----------------------------------------------------------------------------
(* The end of a dispatch task: leave gate and lock, then the outer finally pops the  *)
(* session's registered queue and republishes what it still holds.                   *)

Unregister(k) == reg' = [reg EXCEPT ![k] = None]

\* Mutants: the leftovers are copied and not taken; they are thrown away.
RepublishCopies(q) ==
    inbound' = (IF q = None THEN inbound ELSE inbound \o pend[q]) /\ UNCHANGED pend
DropLeftovers(q) ==
    UNCHANGED inbound /\ pend' = IF q = None THEN pend ELSE [pend EXCEPT ![q] = <<>>]

Republish(q) ==
    IF q = None
    THEN UNCHANGED <<inbound, pend>>
    ELSE inbound' = inbound \o pend[q] /\ pend' = [pend EXCEPT ![q] = <<>>]

EndTask(m, fate) ==
    LET k == EffectiveKey(m) IN
    /\ st' = [st EXCEPT ![m] = fate]
    /\ LeaveGate(m)
    /\ LeaveLock(k, m)
    /\ Unregister(k)
    /\ Republish(reg[k])
    /\ active' = [active EXCEPT ![k] = @ \ {m}]
    /\ hot' = FALSE
    /\ UNCHANGED <<runCmd, awaits, rerun, created, cancelled, drains>>

\* The turn returns a reply, or raises and the error reply is sent.
EndTurn(m) ==
    /\ st[m] \in {"run", "closing"} /\ IsTask(m) /\ m \notin cancelled
    /\ EndTask(m, "done")

\* CancelledError surfaces at whatever the task is waiting for.
Cancelled(m) ==
    /\ st[m] \in {"lock", "gate", "run", "subwait", "closing"} /\ IsTask(m) /\ m \in cancelled
    /\ EndTask(m, "dropped")

----------------------------------------------------------------------------
(* process_direct: the session lock only, no gate, no queue, not in _active_tasks. *)

DirectCall(m) ==
    /\ st[m] = "fresh" /\ Kind[m] = "direct"
    /\ st' = [st EXCEPT ![m] = "lock"]
    /\ RequestLock(EffectiveKey(m), m)
    /\ hot' = FALSE
    /\ UNCHANGED <<queueVars, runCmd, awaits, rerun, gateVars, taskVars>>

DirectBegin(m) ==
    /\ st[m] = "lock" /\ Kind[m] = "direct" /\ lockOwner[EffectiveKey(m)] = m
    /\ st' = [st EXCEPT ![m] = "run"]
    /\ hot' = FALSE
    /\ UNCHANGED <<queueVars, runCmd, awaits, rerun, lockVars, gateVars, taskVars>>

\* The call returns, or its caller's timeout cancels it while it waits or runs.
DirectEnd(m) ==
    /\ st[m] \in {"lock", "run"} /\ Kind[m] = "direct"
    /\ \/ st[m] = "run" /\ st' = [st EXCEPT ![m] = "done"]
       \/ st' = [st EXCEPT ![m] = "dropped"]
    /\ LeaveLock(EffectiveKey(m), m)
    /\ hot' = FALSE
    /\ UNCHANGED <<queueVars, runCmd, awaits, rerun, gateVars, taskVars>>

\* Nothing left to do: run() waits for the next message.
Idle ==
    /\ inbound = <<>> /\ created = <<>> /\ runCmd = None
    /\ \A m \in Msgs : st[m] \in {"fresh", "pending"} \cup Over
    /\ UNCHANGED vars

----------------------------------------------------------------------------
Route(m) ==
    RouteCancel(m) \/ RouteInline(m) \/ RouteToQueue(m) \/ RouteToTask(m)

\* What message m, its task or its command does next.
Progress(m) ==
    \/ Route(m) \/ CancelSubs(m) \/ FinishCancel(m) \/ Regenerate(m)
    \/ StartTask(m) \/ GotLock(m) \/ BeginTurn(m)
    \/ WakeForSub(m) \/ SubTimeout(m) \/ Cancelled(m)
    \/ DirectBegin(m) \/ Announce(m)

Next ==
    \/ \E m \in Msgs :
          \/ Progress(m)
          \/ Publish(m) \/ Drain(m) \/ WaitForSub(m)
          \/ EndTurn(m) \/ DirectCall(m) \/ DirectEnd(m)
          \/ \E b \in Msgs : Spawn(m, b)
    \/ Idle

Spec == Init /\ [][Next]_vars

\* The event loop runs every ready task; a turn ends because each model call, tool call
\* and the number of iterations are bounded; a subagent ends for the same reason.
Fairness == \A m \in Msgs :
    WF_vars(Progress(m)) /\ WF_vars(EndTurn(m)) /\ WF_vars(DirectEnd(m))

FairSpec == Spec /\ Fairness
----------------------------------------------------------------------------
(* Properties. *)

\* Every variable has its type, and no pending queue holds more than its size.
TypeOK ==
    /\ inbound \in Seq(Msgs) /\ created \in Seq(Msgs) /\ gateWait \in Seq(Msgs)
    /\ st \in [Msgs -> States]
    /\ pend \in [Msgs -> Seq(Msgs)] /\ \A m \in Msgs : Len(pend[m]) <= PendingMax
    /\ reg \in [Keys -> Msgs \cup {None}]
    /\ active \in [Keys -> SUBSET Msgs]
    /\ awaits \in [Msgs -> SUBSET Msgs]
    /\ cancelled \subseteq Msgs /\ gateHeld \subseteq Msgs /\ rerun \subseteq Msgs
    /\ runCmd \in Msgs \cup {None}
    /\ hot \in BOOLEAN
    /\ lockOwner \in [Keys -> Msgs \cup {None}]
    /\ lockWait \in [Keys -> Seq(Msgs)]
    /\ drains \in [Msgs -> Nat]

\* A turn is being run for m (a command that run() executes inline is not a turn).
InTurn(m) == st[m] \in Turning /\ runCmd # m

\* "per-session serial": no two turns work on the history of one session at a time,
\* whether they came over the bus, from the overflow of a pending queue or by
\* process_direct, and whatever was cancelled in between.
SessionSerial ==
    \A m, n \in Msgs : m # n /\ InTurn(m) /\ InTurn(n) => StoreKey(m) # StoreKey(n)

\* Why SessionSerial holds: a task past its session's lock (_dispatch, process_direct), or
\* a /new inside a turn, is the holder of that lock.
LockInv == \A m \in Msgs : st[m] = "gate" \/ InTurn(m) => lockOwner[EffectiveKey(m)] = m

\* run() waits for the one /regenerate that cancels or waits for a lock, and no dispatch
\* task is one: a /regenerate never counts as a turn before it is published again.
RegenInv ==
    /\ \A m \in Msgs : Role(m) = "regen" /\ st[m] \in {"await", "gather", "lock"} => runCmd = m
    /\ \A i \in 1..Len(created) : Role(created[i]) # "regen"

\* One session per chat: no shared session, and no session_key_override that is another
\* key than the chat's (a subagent's result is then filed under its chat's key too).
SessionPerChat == ~Unified /\ \A m \in Msgs : Override[m] \in {None, ChatKey[m]}

\* run() never puts a follow-up into the queue of a task that is over: the registered
\* queue belongs to a dispatch task of that session that has yet to reach its finally.
RegisteredAlive ==
    \A k \in Keys : Registered(k) =>
        /\ st[reg[k]] \in {"lock", "gate"} \cup Turning
        /\ EffectiveKey(reg[k]) = k

\* Routing, draining and republishing never duplicate an accepted message and never
\* drop it: it waits at exactly one place of the bus and the pending queues, or at none
\* once it became a task, joined a turn or was answered.
OnePlace ==
    \A m \in Msgs :
        LET places == {<<None, i>> : i \in {j \in 1..Len(inbound) : inbound[j] = m}}
                \cup UNION {{<<q, i>> : i \in {j \in 1..Len(pend[q]) : pend[q][j] = m}} : q \in Msgs}
        IN  Cardinality(places) = IF st[m] = "pending" THEN 1 ELSE 0

\* "... so they are processed as fresh inbound messages rather than silently lost":
\* a task that is over leaves no message behind in the pending queue it created.
NothingStranded == \A m \in Msgs : st[m] \in Over => pend[m] = <<>>

\* A process_direct call of the session has had its turn, or has it.
DirectTurn(k) == \E d \in Msgs : Kind[d] = "direct" /\ EffectiveKey(d) = k /\ st[d] \notin {"fresh", "lock"}

\* When /stop has cancelled, and when it answers, no turn of the sender's session is left,
\* waiting or running, that does not have its cancellation underway, and none of its subagents;
\* but a direct call, which no command reaches, may spawn one while /stop waits for the others.
StopReaches ==
    [][\A m, t \in Msgs :
          /\ Kind[m] = "stop" /\ st[m] \in {"await", "gather"} /\ st'[m] # st[m]
          /\ Role(t) \in {"text", "sub"} /\ EffectiveKey(t) = EffectiveKey(m)
          => \/ t \in cancelled \/ st'[t] \in {"fresh", "pending"} \cup Over
             \/ st[m] = "gather" /\ st'[t] = "subrun" /\ DirectTurn(EffectiveKey(m))]_vars

\* Every accepted message is eventually taken up: by a turn, as a turn, or inline.
EveryMessageTaken == \A m \in Msgs : st[m] = "pending" ~> st[m] # "pending"

\* The abstract view of a message or task.
FateOf(m) ==
    CASE st[m] \in {"fresh", "subrun"} -> "outside"
      [] InTurn(m) -> "active"
      [] st[m] = "injected" -> "joined"
      [] st[m] \in {"done", "dropped"} -> "closed"
      [] OTHER -> "waiting"

Abstract == INSTANCE SerialTurns WITH
    Session <- ChatKey,
    FromBus <- {m \in Msgs : Kind[m] # "direct"},
    fate <- [m \in Msgs |-> FateOf(m)]

\* Where a session is one chat, the queues, locks and tasks implement SerialTurns.
SerialSpec == Abstract!Spec

\* The queues and locks of run() and _dispatch: a message goes to a live task's queue and waits
\* in one place; whoever is past a lock holds it.
DispatchSound == RegisteredAlive /\ OnePlace /\ LockInv /\ RegenInv
================================================================================

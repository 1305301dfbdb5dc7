# Pythinker in TLA+

A model of Pythinker: how messages become turns of the agent and what the turns leave in a
session; the services beside the turns; the channels in and out; what a turn runs on
(providers, tools, MCP servers); and the processes around it (gateway, configuration,
upgrade, setup). TLC checks the modules on small instances; what TLAPS proves holds for
every size.

    tlc -config dispatch_burst.cfg MCTurnDispatch
    tlc -config persist.cfg MCTurnPersistence
    tlc -config live.cfg MCLive
    tlapm TurnDispatchProofs.tla

Each proof module is checked by itself; `ServiceProofs`, `EngineProofs` and `StreamProofs` take a
quarter of an hour. The other
runs are listed in section 4 and in PROJECT.json. Paths below are relative to `src/pythinker/`
of the repository.

## 1. The system

Most of it runs in one process on one asyncio event loop, so there is no preemption: a
coroutine changes shared state freely between two `await`s, and a hazard is what another
coroutine did across one. What several processes share is files: the configuration, the
pairing store, the cron log, the update cache, the sessions of two gateways.

| Component | State | Operations | Talks to | What is hard |
|---|---|---|---|---|
| Message bus (`bus/`) | inbound and outbound queue | publish, consume | all | order, nothing else |
| Turn dispatch (`agent/loop.py`) | `_pending_queues`, `_active_tasks`, `_session_locks`, the gate | route, register a queue, lock, drain, republish, cancel | bus, runner, commands, subagents | interleaving, overflow, cancellation |
| Commands (`command/`) | none of their own | `/stop`, `/new`, `/regenerate`, ... | dispatch, sessions | run inside `run()`, beside a turn |
| Turn persistence (`agent/checkpoint.py`, `agent/turn_writer.py`) | `pending_user_turn`, `runtime_checkpoint` | early user row, checkpoint, save, restore | runner, sessions | crashes, row counts |
| Agent runner (`agent/runner.py`) | the message list of a turn | model call, repairs, tools, drains | providers, tools, dispatch | error paths, follow-ups at each exit |
| Session store (`session/manager.py`) | rows, `last_consolidated`, cache, files | get, save, truncate, clear, evict | all of the above | objects that outlive the cache |
| Consolidation, idle compaction (`agent/memory/consolidator.py`) | lock, summaries | archive old rows | sessions, provider | writes after awaiting a summary |
| Memory store, Dream (`agent/memory/`) | `history.jsonl`, two cursors | append, compact, read | provider | cursors against truncation |
| Subagents, task records (`agent/subagent.py`, `agent/task_store.py`) | tasks, records, output files | spawn, end, cancel, announce | dispatch, bus | ends that race cancellations |
| Cron (`cron/service.py`) | job store, log of other processes, timer | add, remove, tick, reload | dispatch | the timer re-armed by the job it runs |
| Heartbeat | its next tick | decide, run, tell | gateway, bus | a tick at shutdown |
| Channel manager (`channels/manager.py`) | outbound buffer | coalesce, send with retry | bus, channels | order, giving up |
| Chat channels (`channels/`) | buffers, remembered ids, indicators | receive, gate, publish, send | the services, bus | repeats, reconnects, overlapping handlers |
| WebSocket channel, WebUI | tokens, subscriptions, transcript | attach, fan out, REST | bus, sessions | two parties find a closed peer |
| Pairing store (`pairing/store.py`) | codes, approved senders | issue, approve, revoke | channels, TUI | two processes, failing reads |
| Provider retry, failover (`providers/base.py`, `fallback_provider.py`) | breakers | retry, fail over, probe | model APIs | concurrent requests on one breaker |
| Provider clients (`providers/`) | buffers of one stream | convert messages, assemble a stream | model APIs | the roles, interleaved pieces |
| Tools (`agent/tools/`) | exec sessions, what was read of each file, MCP stacks | run, read, edit, connect | the machine | two owners of one end; stale "unchanged" |
| Policy, egress, context (`runtime/`) | budget and depth of a turn | allow or deny a call | runner, subagents | a budget that several tasks spend |
| Browser manager (`agent/browser/`) | one browser, contexts | ensure, launch, close, evict | tools | installation, loss, launches that cross |
| Gateway life (`cli/commands.py`) | services, port | start, flush, stop, restart | all | what still runs at the flush |
| Configuration (`config/`) | `config.json` and its copies | load, edit, save, restore | CLI, TUI, wizard | no lock, a write in place |
| Update (`utils/update.py`, `cli/updates.py`) | cache, lock, download | check, announce, install, restart | index, installers | processes that share all three |
| Setup wizard (`cli/onboard*`) | draft, steps to go back to | steps, summary, save | configuration | the path looked up before the steps |

A session is correct when its turns do not overlap, when every accepted message is answered
or joins a turn, when `/stop` really stops, and when its rows are a legal history. A service
is correct when it runs what is due once, loses nothing it was given and comes to an end. A
channel hands over each message once and shows each answer whole. A writer of a shared file
leaves either what was there or what it wrote. PROJECT.json lists the hazards line by line
with the properties that cover them, and every component with what is left out of it.

## 2. Modules

| Module | Models |
|---|---|
| `SerialTurns` | The promise of dispatch without its mechanism. |
| `TurnDispatch` | `run`, `_dispatch`, `process_direct`, the commands that cancel, subagents as messages; implements `SerialTurns`. |
| `TurnDispatchProofs` | Proofs: type correctness, the lock invariant, serial turns, where an accepted message waits, what `/stop` reaches, and that `TurnDispatch` implements `SerialTurns`, step by step. |
| `TurnPersistence` | One session's rows and flags through turns, crashes and commands. |
| `SessionMemory` | One session as objects, cache and file, under consolidation, idle compaction, `/new`, eviction, crash. |
| `MemoryHistory` | `history.jsonl`, the two cursors, compaction, migration, two Dreams. |
| `CronService` | Store, file, log, timer and ticks, another process, kills. |
| `Subagents` | Tasks, semaphore, records, output files, cancellation, restart. |
| `ExecSessions` | `exec` in its two forms, `write_stdin`, `list_exec_sessions` and the table of sessions. |
| `BrowserSessions` | The browser, its contexts, installation, loss, eviction. |
| `PairingStore` | The pairing file, by two processes. |
| `StreamDelivery` | Outbound queue, coalescing, retry, and the streams of Telegram, Discord, Matrix. |
| `TelegramIngress` | Staging, workers, albums, typing. |
| `WebSocketServer` | Tokens, connections, fan-out, REST on sessions, transcript and replay. |
| `SignalFeed` | The event stream with its reconnects, gates, group context, typing. |
| `WhatsAppLink` | The bridge link, repeated messages, pairing codes, indicators. |
| `EmailPolling` | A poll, its remembered UIDs, flags, one reconnection. |
| `WorkChats` | Slack's two events per post; Teams' webhook and references. |
| `Indicators` | Typing, reactions and delayed emoji of Discord; typing of Matrix. |
| `ProviderCalls` | Timeout, retries, failover, both breakers, what was streamed. |
| `MessageShaping` | Rows to prompt to request: repairs, cuts, three clients. |
| `ToolStream` | Streamed tool calls, their assembly, the WebUI's edit chips. |
| `FileEdits` | read, edit, write, patch and notebook tools against other writers. |
| `ToolCalls` | Batches, allow-list, budget, depth, repeated lookups, subagents that outlive a turn. |
| `McpServers` | Who connects, holds, resets and closes the MCP sessions. |
| `GatewayLife` | Start, tells, flush, stop and restart of gateways. |
| `ConfigFile` | `config set`, TUI, wizard, restore, cleanup, `backup create`. |
| `UpdateCheck` | Check, announcement, lock, download, installers by sign of the host, restart. |
| `Wizard` | The steps of `onboard`, its draft and what is written when. |
| `TurnPersistenceProofs`, `ServiceProofs`, `StreamProofs`, `ChannelProofs`, `EngineProofs`, `HostProofs` | Proofs about the core's rows and about the modules of each run, section 5. |
| `LoopLemmas` | What the proofs about loops rest on: the least index at which a claim fails, and a loop as a function of the rounds done. |
| `MCTurnDispatch`, `MCTurnPersistence` | Instances of the two core modules. |
| `MCServices`, `MCLive`, `MCChannels`, `MCEngine`, `MCHost` | Several modules side by side: a behaviour is one of one `part`. The other modules' variables stay as they are, so a run is the sum of its parts and not their product. |

Two things hold the modules together. `TurnDispatch` is what `Subagents`, `BrowserSessions`
and `ToolCalls` assume of a session (one turn at a time, `SessionSerial`). And a message on
the bus is the same thing in `TurnDispatch` (`Publish`) and at the end of each channel module.
They are not composed into one state space: no property relates, say, the typing of a Signal
chat to a consolidation.

## 3. How state and actions correspond to the code

In every module an action is what runs between two suspension points (or, across processes,
between two operations on a file), variables carry the name of what they model where they can,
and each `VARIABLES` list says which attribute each is. Variables marked "history" are not in
the code: they remember what a property speaks about.

### TurnDispatch

A message and the task that dispatches it share an identifier. `st` is where it stands:

| `st` | Code |
|---|---|
| `fresh`, `subrun` | not sent yet; a subagent at work |
| `pending` | in `bus.inbound` or in a pending queue |
| `created` | `asyncio.create_task(self._dispatch(msg))` and not started |
| `lock`, `gate` | waiting at `async with lock, gate` (or holding and about to go on) |
| `run`, `subwait` | in `_process_message`; blocked in `_drain_pending` for a subagent |
| `await`, `gather` | a command in `_cancel_active_tasks`: waiting for the tasks; for the subagents that `cancel_by_session` picked |
| `closing` | a command's turn, its work done |
| `done`, `dropped`, `injected` | over; cancelled; joined a turn |

`pend[m]` is the queue object task m made; `reg[k]` says whose queue is in
`_pending_queues[k]`: the two differ because a second task replaces the registration,
which is where the findings come from. An action is what runs between two suspension
points. `run()` is `RouteCancel`, `RouteInline`, `RouteToQueue`, `RouteToTask`, tried on
the head of the inbound queue; a command that awaits keeps `run()` in `runCmd`.
`StartTask`, `GotLock`, `BeginTurn`, `EndTurn` and `Cancelled` are `_dispatch`;
`EndTask` is the release of gate and lock and the outer `finally` in one step, which has
no await that yields (`publish_inbound` on an unbounded queue does not). `Drain`,
`WaitForSub`, `WakeForSub`, `SubTimeout` are `_drain_pending`. A cancelling command is
`RouteCancel` or the `/new` of a task (tasks popped and cancelled), `CancelSubs` once these are
over (the session's subagents picked, cancelled and awaited) and `FinishCancel` (the answer);
anything may happen between the three, a direct call that spawns included.

Two facts about asyncio are modelled because the outcome depends on them. Locks and
the semaphore are FIFO and handed over on release. And `asyncio.wait_for` on a queue that
already holds a message returns without yielding since Python 3.12 and yields before
(`EagerConsume`; the project allows 3.11 and ships 3.12 in its image): with it `run()` can
route two messages before the task of the first has started, which is the flag `hot`.

Session keys are modelled by the three places that compute one: `SessionKey`,
`EffectiveKey` (with `unified_session`) and `StoreKey` (the session a turn works on, which
for a subagent's message comes from its chat and not from the routed key).

### TurnPersistence

A row is a role with an origin: the set of user messages in it, or the turn and the
iteration that made it. A `notice` is an assistant row whose text is the program's own.
`rows`, `pending` and `ckpt` are saved with every change before the next await, and
`save()` replaces the file atomically, so they are the file; the rest is lost in a crash.
`Recover` is the start of `_process_message`, `BeginUserTurn` and `BeginSubTurn` build the
prompt and save the user's message or the subagent's result, `CallTools` to `Exhausted`
are the runner with its checkpoints and drains, `EndTurn` is `save_turn` with the clearing
of the flags. `Interrupt` stands for a crash, an exception and a cancelled direct call,
which leave the same session. `skip` is `save_skip` less the system prompt: the code counts
it from the history, not from the prompt it built, and the model does the same.

Left to nondeterminism: what the model answers, whether a follow-up is in the queue at a
drain (the limits of drains per turn and per iteration only remove behaviours), which tools
fail. All tool calls of one reply are one request row and one result row, since the
code writes them together. Consolidation is left out (`last_consolidated` = 0): it is `SessionMemory`.

### The services

`SessionMemory` numbers the objects of one session: `cached` is the one in the cache, a turn
or a task may hold another one after an eviction, and `save` is whole and last-writer-wins.
`task` is `maybe_consolidate_by_tokens` or `compact_idle_session` in front of the lock
(`queue`), at the estimate, or at the archive call; token counts are choices. `MemoryHistory`
numbers the entries and steps through the file writes of append, compaction and Dream.
`CronService` has a tick per timer task: `_arm_timer` cancels the old one, also in the middle
of a job, and the tick then unwinds. `Subagents`, `ExecSessions` and `BrowserSessions` have a
program counter per task or caller; a cancellation may come wherever the code awaits, and its
clean-up is a step of its own when it awaits too. `PairingStore` splits each operation
into its read and its write, since the lock does not reach the other process. In `CronService`
a read of the store merges the log and empties it, but not where all the log says is to remove
jobs that are not there (`NoChange`): the `KeyError` is swallowed before anything is written.

### The channels

`StreamDelivery` keeps pieces as `<<stream, number>>`; the dispatcher reads, merges with what
has queued up, keeps in `pending` what it read too far, and tries a send `MaxAttempts` times;
the channel edits a growing message and may fail before or after it showed the text. What an
attempt leaves is a `Result`: done; raised, which the dispatcher tries again; refused, when the
first text is longer than a message; swallowed (Matrix), when the text waits for the next edit;
or lost, when the channel lets text fall without an error. A request stands for the repeats the
channel makes on its own (`_call_with_retry`).
`TelegramIngress` lets the library hand updates over in any order. `SignalFeed` reads lines
of a stream that may break between any two. In `WebSocketServer` each connection handles one
envelope at a time and the fan-out iterates over a snapshot; the boundary a turn leaves in the
transcript may fail to be written. `EmailPolling` breaks the
connection before or after each command. `WorkChats` and `Indicators` keep per event, post or
message the point its handler has reached, several at once; a save of Teams' references may
fail before or after it truncated the file (`SaveRefs`), the removal of a reaction or of a Matrix
notice may fail when the table has forgotten it. In `WhatsAppLink` the reader goes on while
`stop()` waits for the typing tasks: `StopBegins` picks them, `StopEnds` marks the channel as not
connected, and the reader ends (`Unlink`) when it sees that its socket is closed.

### What a turn runs on

`ProviderCalls` keeps for each request where it is (`at`), its attempt, and whether text was
shown; breakers are shared. `MessageShaping` is mostly operators: `History`, `BuildMessages`
and the repairs `DropOrphans`, `Backfill`, `Microcompact`, `Snip` of the runner, then
`ChatRequest`, `AnthropicRequest` and `ResponsesRequest`; its actions append what turns,
commands, cancellations and subagents leave. A message is a role, the ids of its calls and the
set of things it says. `ToolStream` lets pieces of several calls arrive interleaved and the
stream break and start again; a call whose path does not resolve (`LostPaths`) has a chip and no
tracker, and the registry may refuse a call before it runs. In `FileEdits` a text is the sequence of
the edits it was made
by and the modification time may stay the same when others write. `ToolCalls` executes the
batches of two turns and a subagent; `McpServers` steps through `connect_mcp_servers` server
by server, and an error that `close_mcp` does not swallow ends its loop (`CloseFails`).

### The processes

`GatewayLife` has a turn per source (chat, cron, heartbeat); a session leaves the cache by
eviction or `/new`, and the flush saves what is in the cache. `ConfigFile` writes in the code's
steps: copy, open (which truncates), write, and a process may die between any two. A
configuration is the set of settings that differ from the defaults, which is what a file that
cannot be read counts as. `UpdateCheck` chooses a `host` by its signs (a virtual environment,
a pinned uv tool, a frozen binary beside dpkg) and computes the method of installation as the
code does. `Wizard` walks the code's list of steps with its results continue, skip, back, jump,
abort, and can be cancelled at each prompt.

## 4. Runs

Each takes at most about four minutes with two workers.

| Run | Question | Checks |
|---|---|---|
| `dispatch_burst` | Two texts, a subagent and a direct call, with `/new` and another command, or with `/stop` and a second subagent, meet a pending queue of one place and a gate of one: do turns overlap, is a message doubled or put into a dead task's queue, what does `/stop` not reach? | `TypeOK`, `SessionSerial`, `DispatchSound`, `StopReaches` |
| `dispatch_live` | Two texts, `/stop`, `/regenerate`, a subagent, with fairness: is every message taken, is `SerialTurns` implemented? | `EveryMessageTaken`, `SerialSpec` |
| `persist` | What the file of a session holds through crashes, cancelled turns, follow-ups and commands. | `TurnsLegal`, `TurnsClosed`, `TurnsSavedOnce`, `TurnsSavedWhole`, `SessionSound` |
| `services` | Is something lost, run twice, left behind or let in by the services? | `HiddenIsArchived`, `RowsKept`, `HistorySound`, `CronSound`, `SubagentsSound`, `ExecSound`, `BrowserSound`, `PairingSound` |
| `live` | Does what must end come to an end? | `ServicesSettle`, `ChannelsSettle` |
| `channels` | Each message once and in order, each stream whole, each indicator for a reason? | `StreamSound`, `TurnsInOrder`, `SocketsSound`, `TypingMeansWork`, `PublishedOnce`, `MailOnce`, `WorkSound`, `QuietShowsNothing` |
| `engine` | Does failing over repeat text, is every request legal, are streamed calls whole, is "unchanged" true, do limits hold, is an MCP session forgotten? | `OneVoice`, `RequestSound`, `CallsSound`, `StubTrue`, `PatchWhole`, `CallLimits`, `NoStackLost` |
| `host` | What do gateways, writers of the configuration, upgrades and the wizard leave? | `GatewaySound`, `LastConfigSurvives`, `UpdateSound`, `WizardSound` |
| `dispatch_overflow`, `persist_regenerate`, `subagent_followup`, `wizard_agent` | Violations, section 6. | one property each |

Several properties are conjunctions, one per module, so that a run names what a module is for:

| Property | Its parts |
|---|---|
| `DispatchSound` | `RegisteredAlive` (a follow-up goes to the queue of a live task), `OnePlace` (an accepted message waits in one place), `LockInv` and `RegenInv` (section 5) |
| `SessionSound` | `TypeOK`, `RowsInOrder`, `CheckpointCurrent` |
| `RowsKept` | `SessionTypeOK`, `NoRowLost`, `PromptStaysSaved` |
| `HistorySound` | `HistoryTypeOK`, `NoEntrySkipped` (Dream), `CursorsGrow` |
| `CronSound` | `CronTypeOK`, `NoRerun`, `SavedWhenIdle`, `JobsKept`, `GoneStaysGone` |
| `SubagentsSound` | `SubTypeOK`, `WorkIsListed`, `AnnouncedOnce`, `FilesOwned` |
| `ExecSound` | `ExecTypeOK`, `SlotsKept`, `NoStray`, `EndMeansAll` |
| `BrowserSound` | `BrowserTypeOK`, `OneBrowser`, `LossIsTold` |
| `PairingSound` | `NeverUnasked`, `FileIsTrue`, `CodeOnce` |
| `StreamSound` | `AllShown`, `ShownOnce` |
| `SocketsSound` | `SubsAgree`, `ReplayRecent` |
| `WorkSound` | `PostOnce` (Slack), `HeardHasRef` (Teams) |
| `RequestSound` | `RequestLegal`, `NewestSent` |
| `CallsSound` | `CallsWhole`, `ChipsClose` |
| `CallLimits` | `BudgetHolds`, `RunsAlone` |
| `GatewaySound` | `ToldOnce`, `EndedIsDurable` |
| `UpdateSound` | `AnnouncedOnce`, `InstalledIsVerified` |
| `WizardSound` | `MethodFits`, `UnsavedKept` |
| `ServicesSettle` | `CronLive` (`DueRuns`, `LogTaken`), `SubEnds`, `FinalStays`, `CallEnds`, `EnsureEnds` |
| `ChannelsSettle` | `EndsReach`, `UpdatesTaken`, `FeedTaken` |

**Exemptions.** Some properties hold only outside a situation the code does not protect
against. The situation is then a history variable that the exact step of the code sets, the
property names it, and section 6 says what happens in it: `overlap` (a tick that begins while
a cancelled one has not ended), `damaged` (a kill in the middle of a write of the cron files),
`skewed` (a command cut rows that were counted as consolidated), `halfway` (a kill between the
history and its cursor), `crossed` (a browser launched while another one's end is awaited),
`raced` and `misread` (two processes changed the pairing file at once; a failed read was
written back), `unremoved` and `uncleared` (a reaction or a notice the service did not take back),
`lost` and `failed` (a stream a send of which was given up or let fall, or failed), `cut` (a
turn of the WebUI that was stopped), `stuck` and `covered` (Discord replies that never went,
marks put over by another message's), `behind` (a Teams reference that did not reach the file, or
was in one that a failed save truncated), `LostPaths` and `refused` (a streamed call without a
tracker, or that the registry refused), `cutOff` and `unsynced` (a turn that still ran at the flush,
a session that could not be saved),
`careless` (TUI or wizard wrote an old copy, or two copies within a second), `excused` (a check
that failed, was forced or ran twice at once), `abandoned` and `resetRace` (MCP). None of them
covers the case the property is about: for every property PROJECT.json has a mutant of the code
that breaks it without entering an exempted situation.

**Bounds.** A dispatch property is about two tasks of one session and one more actor that
meddles: the instances have two texts and each kind of actor once, and capacities of one so that
a queue overflows and the gate fills. The capacities of the code (20, 3, 3) only delay that.
`StopReaches` needs two subagents, one that `/stop` waits for and one that a direct call spawns
meanwhile. `BurstBound` (a constraint) says who meets in a behaviour of `dispatch_burst` beside the
first text, the
first subagent and the direct call: the second text with `/new` and the other command (`c1`, `w1`),
or `/stop` (`x`) with either the second text or the second subagent (`s2`).
`MaxDrains` bounds the drains of a turn. A persistence property is about a turn cut short and
one or two after it; two model calls reach every order of two checkpoints. Follow-ups
are in the part "commands" of `persist` only, because of two limits of the code (section 6):
one drained when no iteration is left ends the history with an unanswered row, and one drained
after a failed first call is merged into a row already saved.

The other modules follow the same rule: two or three of whatever can meet (jobs, subagents,
calls, sessions, senders, streams, updates, connections, messages, requests, processes), limits
of one or two so that they are reached (slots, records, cached ids, staged updates, breaker
thresholds, retries, tool calls per turn), and one or two failures, kills or reconnects, which
is enough for one to happen in the middle of the handling of another. A stream of
three pieces, two to a message, goes on in a second message in the middle of its text. In `live` the
rooms are
smaller still, as its properties are temporal. `MaxMessages` = 7 in `MessageShaping` lets a
history hold two turns with a tool exchange each and a follow-up, with a budget that cuts
between them; `MaxErrors` = 4 opens a breaker and lets a probe fail.

**Deadlock** is checked in the dispatch runs, where `Idle` is the only way to rest. The other
runs say `CHECK_DEADLOCK FALSE`: a session whose messages are all answered, a channel that was
stopped or a wizard that is over rests.

**Fairness.** Dispatch: `Progress` is weakly fair per message, since the event loop runs every
ready callback and a FIFO lock that is released is handed on; `EndTurn` and `DirectEnd` are
because a turn is bounded (iterations, timeouts of model and tool calls, 300 s for a subagent).
Publishing, spawning and draining are not fair. `CronFair`: the clock advances while the
gateway is up, and a timer task that is due, has finished or was cancelled goes on. `SubFair`:
a subagent is a runner with a bound on its iterations, and its clean-up runs. `ExecFair`: a
call that waits has a timeout, and readers read what there is (a process need not end, nor
read its stdin). `BrowserFair` is weak for launching and opening and strong for the lock: other
sessions may take and leave the lock for ever, but `asyncio.Lock` is FIFO. `StreamFair`,
`IngressFair` and `SignalFair`: a sleep ends, and sends and downloads have timeouts. No
fairness is assumed of users, models, peers, or of a fault not to happen; the faults are
bounded by constants.

## 5. Proofs

A theorem holds for every value of the constants that the named `ASSUME` of its module allows:
any number of messages, sessions, processes and failures, any capacity. Nearly all have one
shape. The property is seldom inductive, so an invariant `XInv` that implies it is stated (TLC
checked each one on the instance of its run before it was proved); `XInit => XInv`; one lemma
per action or conjunct for `XInv /\ [XNext]_vars => XInv'`; and `PTL` puts them together.

### Dispatch

* `TypeCorrect`: `Spec => []TypeOK`. The work is in the queues: `Without` returns a
  sequence, a drain leaves a sequence, what `run()` takes is a message, and no pending queue
  holds more than `PendingMax`.
* `LockHeld`: `Spec => [](LockInv /\ RegenInv)`. `SessionSerial` is not inductive: it says
  nothing of the lock, so a task about to start a turn could overlap with one that runs.
  `LockInv` says that whoever is past its session's lock (in a turn or at the gate) is the
  holder. Asking for a lock and leaving it take it from nobody else
  (`RequestLockKeeps`, `LeaveLockKeeps`), a task reaches the gate only as the holder, and it
  leaves lock and turn in one step. One command takes a lock and is not a task:
  `/regenerate`; when it publishes its message again its key may change, so `RegenInv`
  is needed to know that it was the command `run()` waited for, and no task.
* `SerialTurn`: `SessionPerChat => (Spec => []SessionSerial)`. With `LockInv` two turns of
  one session would both hold its lock. The assumption is needed: where a message's lock key
  and the session it works on differ (threads, the unified session) turns do overlap.
* `QueuesSound`: `Spec => []DispatchSound`. `OnePlace` and `RegisteredAlive` become inductive
  as `QueueInv`: `PlaceInv` takes bus and pending queues for one family `Queues` in which
  no message is twice and exactly those of `st` "pending" are; a step of the code is then a
  `Put`, a `Cut` or a `Pour` of that family. `CreatedInv`, `CommandInv` and `RegisteredInv`
  say that a task starts once and that no inline command owns a queue.
* `StopReachesAll`: `SessionPerChat => (Spec => StopReaches)`, an action property. When `/stop`
  answers it has waited twice, for the tasks and for the subagents, and anything may have started
  meanwhile. `DelistedInv` says that nothing is listed under its key while it waits (no `run()`, no
  new task), `ListedInv` that a task that may still work is listed or cancelled, `SpawnedInv` that a
  subagent has its session's key. A turn of the bus cannot spawn in between; a direct call, which is
  listed nowhere, can: `GatherInv` says that a subagent at work then means that the session has or
  had a direct turn (`RunInv`: turns are of texts, results and direct calls; `AwaitInv`: who waits is
  the command `run()` waits for). The property names that exception and no other.
* `ImplementsSerialTurns`: `SessionPerChat => (Spec => SerialSpec)`, the refinement, without
  fairness. Each of the actions maps to a step of `SerialTurns` or to a stutter; needed besides
  the above are `GateInv` (turns from the bus hold one of `GateSize` places), `SubwaitInv` and
  `ChatQueueInv` (a drain takes messages of its own chat).

### Sessions

* `SessionKept`: `Spec => []SessionSound` of `TurnPersistence`. `RowsInOrder` speaks of the file,
  but rows get there from the list of a running turn, from a checkpoint or from a recovery, so
  `PersistInv` says what each will add: a running turn's messages beyond `skip` are its own and in
  order (`RunInOrder`), a checkpoint is of one call of the last turn (`OneCheckpoint`), and while
  either is outstanding the file has no row of that turn (`SavedAtEnd`).
* `LegalKept`, `ClosedKept`, `OnceKept` and `WholeKept`: `MCSpec => []TurnsLegal`,
  `[]TurnsClosed`, `[]TurnsSavedOnce` and `TurnsSavedWhole`, of the behaviours where interruptions
  are all that disturbs the turns (`part = "turns"`). One invariant, `QuietInv`, carries the four. Rows
  are `Sound` if exchanges are whole, none is there twice and no request is open at the end;
  `SoundJoined` says when two such sequences may be joined, and every write to the file is such a
  join. For that `QuietList` needs `skip` to count exactly the prompt: what is beyond is the turn's
  own and in no row of the file. This holds only because a recovered session does not end
  with a user row (`QuietRows`): a message merged into one would leave the list a row short, and the
  end of the turn would drop the first row it made. `QuietCall` says what the present call may have
  added, so that no row is made twice.
* `HiddenKept`: `SessionSpec => []HiddenIsArchived`. `MemInv`: who works holds an object and is
  first in the line for the lock (`LineInv`), and `HidOk`: in the file and in every object in use
  the counted rows are archived, and a task about to count up to `upto` has those rows archived or
  in its chunk. The latter survives turns that append meanwhile, and objects that outlive the cache.
* `RowsStay`: `~DirectCalls => (SessionSpec => []RowsKept)`. What is saved is what some object
  has, so the loss of a row is only seen when another object is written over it. `RowInv` ranges
  over all the copies at once, file and held objects and what an idle compaction keeps: each has
  every saved row but notes and what is archived, leaving or dropped (`CopiesHaveIt`). An idle
  compaction would break that beside a turn; `TurnLast` says that a turn of the bus runs with
  nothing else in the line. A direct call registers no pending queue, which is what the idle
  check looks at: with `DirectCalls` TLC finds the reply of a direct turn overwritten.

### The services

* `PairingKept` (`PairInv`): what a process has read is true while it is `fresh`, of the codes
  too, and a code about to be issued is in nobody's hands (`IssueInv`).
* `BrowserKept` (`BrowserInv`): the launcher holds the one lock and finds no browser until it is done
  (`LocksInv`); who lost a context has the notice, or the call that makes the next one carries
  it (`TellInv`).
* `ExecKept` (`ExecInv`): who waits for the lock is in its queue once (`LockQueued`), what a call
  knows of its session at each point (`CallsKnow`), what the readers of a closed pipe have
  (`PipesKept`).
* `HistoryKept` (`HistoryInv`): without a kill halfway the file is a suffix of what was recorded
  (`Lined`), and up to the cursor that a run will set everything is read or in its batch
  (`BatchesCover`), which two overlapping Dreams keep.
* `SubagentsKept`: `~CancelLost => (SubSpec => []SubagentsSound)` (`SubInv`): seats of the semaphore are
  those of the tasks at work, a record is there for whatever may work, what was stopped has ended
  or is about to. `CancelLost` is the cancellation `asyncio.wait_for` could swallow before Python 3.12.

### The channels

* `SignalKept`: inductive as it stands; the theorem says that it is.
* `TelegramKept` (`IngressInv`): `[]TurnsInOrder`. An update is staged, in the batch of a worker, in
  its hands, in the album or in a turn, and in one of these at most; those of each place come
  after those of the places beyond it, or were late (`Behind`, `InLine`). The album is the one place
  that another may overtake. The parts of an album have an order in no turn, which is why the
  property leaves them out on one side.
* `WhatsAppKept` (`RememberedInv`, `LinkInv`): also what is being worked on is remembered, or its
  id made room for another; an indicator needs a connected link or a reader that will see its socket
  closed, across the wait of `stop()`.
* `EmailKept` (`MailInv`): a mail that was read is remembered, flagged or was forgotten before that
  (`SeenInv`); one that is remembered was handed over, waits, or its poll raised (`KeptInv`).
* `SocketsKept` (`SubsInv`, `RecentInv`): the two tables are each other's inverse in the middle of
  a fan-out too; what lies behind the last end of a transcript is of cut turns or the running one.
* `IndicatorsKept` (`IndicatorInv`): everything that is visible is in a table or was covered
  (`Tabled`), or the service did not take it back, and what is in a table is of a message that
  waits, or is being cleared (`Working`).
* `WorkKept` (`WorkInv`): the copies of a post among events, reactions and answers add up to at most
  one (`OneWorks`, on bags); the references in memory and in the file differ only for conversations
  that are `behind`.

### The delivery of streamed answers

* `StreamsKept`: `StreamSpec => []StreamSound`. `StreamSound` speaks of the chats after the last
  message of a stream was taken, so the invariant follows a piece all the way.
  * In the dispatcher: what the queue and the merged message hold of a stream is its pieces in
    order, with all that follow, and the end last (`LineInv`); what is sent are its pieces up to the
    first that waits (`SendInv`), an end is made once and kept until it is taken (`EndInv`), and
    another stream of the chat has nothing in between, or what it meets is `lost` (`ApartInv`).
  * In the channel: the message that a buffer edits shows a first part of the buffer's text
    (`BufInv`), of its own chat (`HomeInv`). Places are counted in the text of the buffer for the
    message that grows and in the chat for all others (`Spot`): an edit that fails leaves them as
    they were, and that is why the next attempt may send the whole text again.
  * What has been taken of a stream that goes on is in messages up to the one that grows, each piece
    after the one before (`CoverInv`); what has ended is in messages that grow no more (`FixedInv`);
    a piece that no failure touched has one place, and none before it was taken (`OnceInv`).

  The steps of a stream and of the dispatcher change what waits; an attempt is the hard case.
  It begins with the buffer that holds what is sent (`Start`, `JoinedSpots`), and there are six
  outcomes: the buffer stays and its message shows a first part of it, also when the attempt failed
  after some of its edits (`Stays`); the text is posted (`PostsOf`) or is cut in chunks and goes on in
  the last (`Goes`); nothing is shown and no error raised (`Falls`); all is shown and the buffer gone
  (`Ends`), or the rest is given up with the buffer (`Drops`). Where the text is cut, chunk `j` is in
  the message `Slot(b, j)`, and what stood at `Place(j, y)` of the buffer is at `y` of that chunk: order
  and number of the places stay (`SlotOrder`, `PlaceOrder`), so the three survive the cut.

### What a turn runs on

* `OneVoiceHeard` (`ProviderInv`): who has shown text is the model that is asked (`VoiceInv`), calls
  are the attempts and one (`CountInv`), failures counted are failures in a row (`BreakerInv`).
* `LimitsKept` (`CallsInv`): a trace had no more tools executed than its budget was debited
  (`BudgetInv`), whoever shares it; what is begun and what waits of a batch is one call, or calls
  that are safe side by side (`BatchInv`).
* `StubsTrue` (`ReadInv`): `HalfRead`, between the halves of a read the table already has the text
  that is about to be shown.
* `FailedPatchRestores`: a patch that fails leaves every file as it was, from what the rollback
  does in the order it does it.
* `PatchesWhole`: a patch stages all its operations before the first write; `PatchWhole` says that
  this comes to the files the operations leave when they are carried out one after the other. Both
  are loops: `SameSoFar` relates them after each operation (what is staged, over the disk, are the
  files carried out so far), and the operation at which they part first would use a file the
  patch took away before, which is the exemption (`StageStep`).
* `StreamedCallsKept` (`CallsHeard`): calls are opened in the order of their index, so what a
  response lists has begun in this attempt, and so has everything before it; `Heard` says what the
  client and the tracker have of such a call. The ids are the hard part. A call is renamed to the id
  of the first streamed call it matches, by id or by file; `KeyTaken`: that is its own, or one
  that is given already, so no id is given twice and none is lost to a chip (`KeyedSame`, `EndHolds`).
* `RequestsKept` (`ShapeInv`): `ShapeSpec => []RequestSound`. `Debts` says which calls are not
  answered after each message of a list (`Leaves`: an assistant's message may only come when all
  are and leaves its own, a result answers the first), and a list is `Unowing` if none is left at
  its end. The rows are `Unowing` and begin with a user, so is the list of a turn, and so is what
  it will save: the last is what keeps the rows so when a turn is finished or stopped. From there on:
  * the two repairs change nothing (`NoOrphans`, `NoneMissing`), nor does the search for a legal
    start (`LegalFromStart`): in these behaviours they are a second line of defence. `_snip_history`
    keeps a list from a user's message on, and there everything is answered (`Snipped`, `UnowingFrom`);
  * `_enforce_role_alternation` may lose an assistant's text where two meet, but never a message with
    calls or a result, as it only merges neighbours of one role and then nothing is unanswered
    (`MergedSo`, kept by each message: `MergeStep`). What it cuts off at the end asked for nothing;
  * `_merge_consecutive` puts all results of an exchange in one turn, with the user's text that follows
    them. `JoinedSo` says after each message what its last turn still has to answer (`JoinStep`);
  * the newest message, if it is a user's or a tool's, is the last in all three, or part of it.
* `SessionsHeld` (`McpInv`): one task at a time connects, and only while the loop holds no session,
  until a reset hits an attempt (`OneTries`).

### The processes

* `GatewayKept` (`ToldInv`, `FlushInv`): after the flush only turns that ran when it was made run, and
  what was saved and is cached is synced, could not be, or is of one of these.
* `ConfigKept` (`ConfigInv`): a process that has made its copy, and after which nobody has written,
  has a copy of the last whole configuration (`CopyInv`).
* `WizardKept` (`WizardInv`): what the user may go back to lies before the present step, in the
  order of the list (`WalkInv`), so what was learned there is known (`KnowInv`).
* `UpdateKept` (`UpdateInv`): who installs holds the lock and has verified (`LockedInv`); until a mark
  is lost, no process is about to announce a version below one announced (`MarkInv`).

* `CronKept` (`CronInv`): only the timer's task sleeps or executes (`TimerInv`); unless a job is
  executed memory is what the file is (`SavedInv`); a job added in the log is in neither store nor
  file, with no tick, and never ran (`LogInv`); who is known and not gone is in store and file, or
  in the log, who is gone is in neither, or its removal is in the log (`KeptInv`, `GoneInv`); the
  next runs in the store have not been run, and what a tick executes is due there, until a
  cancelled tick overlaps the next (`RunInv`). `MergeIs` is what the merge of the log comes to.

### Assumptions

The `ASSUME`s are types of the constants, and what the code fixes: a session is not called
"evictor" (`BrowserAssumption`: the evictor is no session), a configuration of MCP servers names servers
(`McpAssumption`), the loop makes a call at least (`PersistenceAssumption`), entries that
predate the cursors are among those that were written (`HistoryAssumption`), processes have numbers
above 0 (`UpdateAssumption`), some results of tools are never compacted and no message is of size
0 (`ShapeAssumption`). TLC evaluates them on the runs. Five theorems have a hypothesis:
`SessionPerChat` (`SerialTurn`, `StopReachesAll`, `ImplementsSerialTurns`: section 6 has what
happens in threads and with the unified session), `~CancelLost`, `~DirectCalls`. The
first holds in `dispatch_live` and `dispatch_burst`, the others in `services`.

### Only model-checked

* Liveness (`EveryMessageTaken`, `ServicesSettle`, `ChannelsSettle`) and with it fairness
  and ENABLED: out of the prover's reach.
* Induction over data: the prover has no theorem for it. Where a loop had to be reasoned about
  (`Subagents`, `FileEdits`, `ToolStream`, `MessageShaping`) it is written as a function of the rounds
  done, and the induction is by the least round after which a claim fails (`LeastNumber`,
  `LoopDefined`, `Climb`, `WithoutIs`); the merge of the cron log is stated without its loop (the
  last action on a job counts).

## 6. Where code and documentation part

Four runs end in a violation of something the repository says:

* `dispatch_overflow` (`NothingStranded`): a full pending queue makes the follow-up a task,
  which registers its own queue over the one in use (`agent/loop.py:1049`). What is left in the
  replaced queue when its turn ends is never published.
* `persist_regenerate` (`TurnSaved`): the user row stays and the message is published again;
  the prompt merges the two rows, `save_skip` counts them as two, and the regenerated reply is
  not saved.
* `subagent_followup` (`FollowUpSent`): the result of a subagent that ended after its turn is an
  assistant row at the end of the prompt, which `_enforce_role_alternation` removes; a chat model
  is asked without it.
* `wizard_agent` (`OnlyChosenWritten`): `onboard` looks its path up before the wizard, and when
  the agent step picks another agent writes that agent's settings over the active agent's file.

Six properties say what a comment or docstring says and the code does not do; they are stated in
their modules, and no run checks them: `NoDuplicateOutput` (ProviderCalls), `RetriedNextMessage`
(McpServers), `FlushCoversAll` (GatewayLife), `ChipsSettle` (ToolStream), `ReplayCurrent`
(WebSocketServer), `TickOwnsStore` (CronService).

Seen while modelling; the models contain these behaviours where not said otherwise.

*Turns.* On Python 3.12 two messages that arrive together both get tasks (`asyncio.wait_for`
does not yield), the second replaces the first one's registration, and the first turn may
wait 300 s for a subagent's result that goes to the other queue. With `unified_session`, `/stop`
looks under the chat's key. A late result of a thread's subagent locks the thread's key and
works on the chat's session (`loop.py:1264`); `/regenerate` in a thread publishes without the
key override (`command/builtins/lifecycle.py:348`). `/stop` before the first tool call appends
its rows after the unanswered user row, which the recovery closes only when it is the last;
`/stop` keeps the last checkpoint only. A direct call is listed nowhere: a subagent it spawns
while `/stop` waits for the session's others goes on. A follow-up drained after a failed first model
call is
merged into a saved row and not saved (`runner.py:451`); one drained after the last
iteration leaves an unanswered row (`runner.py:526`).

*Channels.* Telegram, Discord and Matrix keep stream buffers by chat, although
`channels/base.py:116-122` says by stream; coalescing merges pieces of different streams; a
retried delta is appended again; when the first send is given up, the end returns silently and
the final reply is skipped as streamed. A first text longer than a message is sent as it is and
refused, and each retry appends it once more. A final edit that Telegram calls "not modified" ends
the stream without its other chunks, and so does a follow-up target that Discord does not find.
Matrix swallows send errors, and what its last edit does not show is gone; Discord drops what is
sent before its client is ready. Both forget a mark before they take it off and swallow the failure
(`discord.py:672`, `matrix.py:604`): it stays on an answered message. WebSocket: a turn that is
stopped, or whose append fails, leaves no boundary in the transcript; a session deleted over REST
during a turn is made again by its save; a send that
raises for one subscriber makes the manager send to all again. Signal: a keep-alive line inside
an event drops it. WhatsApp: what is sent before the bridge is connected is dropped silently; a
message read while `stop()` waits for the typing tasks still starts an indicator, which runs on with
the channel not connected until the reader ends; a stop while the channel dials does not stop it:
once connected it reads on until the bridge goes away.
E-mail: mails read by a poll that raises are remembered but never handed over; an answer refers to
the last mail of the sender. Slack: a direct message that mentions the bot is dropped; without
`auth_test` both events of a mention are worked on; redelivered events are too. Teams: a save that
fails or dies once it truncated the file loses the references of all conversations
(`msteams.py:501`); they are back with the next save that works, unless the process ends before.
Discord: two messages that come while the old indicator is being
cancelled leave an orphan loop.

*Providers and messages.* A half-open breaker lets every concurrent request probe. A chat
stream that is truncated ends as "stop", and its unfinished arguments are repaired and
executed; over the Responses API the call is dropped. On a retry the edit tracker goes on
with both attempts' arguments. A streamed edit opens its chip before its path is resolved; when it
does not resolve there is no tracker, and the flush and the error of unmatched calls skip it
(`file_edit_events.py:405-426`): the chip stays open, as does that of a call the registry
refuses. `/new` after a follow-up can leave a list providers refuse.

*Tools.* A failed call of a subagent ends its run only after its remaining batches ran. A
telemetry sink that raises turns a call into an error. A stub "unchanged" may follow a read that
showed nothing. `notebook_edit` does not record its write. A patch operation on a path the same
patch removed looks at the disk. A cancelled MCP connect leaves sessions open; a reset from the
terminal during a connect loses what that opened; failed servers are not tried again once one
is up; an error other than the two that `close_mcp` swallows leaves the servers behind it open. A
poll that is stopped cancels reader tasks it shares with later polls.
`_close_browser` races a launch; eviction closes contexts in use. An idle compaction looks for a
pending queue to see whether a turn runs; a direct call has none, and its reply is overwritten.

*Services and processes.* The shutdown's flush saves what the cache holds: a session evicted or
cleared by `/new` after its last save was written without a sync, and nobody syncs it. A cron log
of nothing but removals of jobs that are not there raises a swallowed `KeyError` at each merge and
is kept; no later one is affected, as other actions are merged beside it. A wizard draft that is
dropped at the summary still gets the channels' defaults. A failed read of the pairing file counts
as an empty store and the
next write makes that permanent. Two gateways can both start their services, since the port is
probed long before it is bound; SIGTERM skips the shutdown. `save_config` truncates the file in
place, and a file that cannot be read counts as all defaults, which the next `config set` writes.
The terminal and the wizard write whole copies they loaded earlier, without a backup. Copies
are named by the second. The wizard's reset deletes credentials and sessions at once although
the configuration is written at the end; an abort after the summary says "do not save" of
what is saved. A failed or forced update check drops the mark of what was announced; a pinned uv
tool makes `upgrade` install and restart again and again.

## 7. Not modelled, and the plan

PROJECT.json has every component with its reason. In short:

* In the modelled components: `/edit`, `/restart`, `/upgrade`, `/goal` and `/init` as commands
  of their own; the ingress policy (off by default); the hot reload of settings; hooks and the
  continuation of a goal; the title sidecars, search and repair of session files; the memory files
  Dream edits; the channels' start and stop by the manager; the WebUI's settings, media, voice
  and sidebar endpoints; the page limit of the browser; `cron` operations no code calls; preset
  flags and non-interactive runs of the wizard; `cleanup --no-backup`; the migration of the old
  web-search settings on load; a failed write of the update cache.
* Left out for good: the services' own protocols, requests to models, voice, images and login
  flows, screens, schemas and their migrations, packaging, skills, the web front end, the
  WhatsApp bridge (external; `WhatsAppLink` has what the Python side meets), goal state (one
  actor, nothing to order).

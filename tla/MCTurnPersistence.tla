--------------------------- MODULE MCTurnPersistence ---------------------------
(* Instances of TurnPersistence for TLC: a session with two messages and a subagent.  A   *)
(* behaviour is one of `part`: "turns", where turns and a subagent's result are cut short *)
(* and nothing else happens, or "commands", with slash commands and a follow-up injected  *)
(* into a running turn.                                                                   *)
EXTENDS TurnPersistence

CONSTANTS m1, m2, s1

Two == {m1, m2}
OneSub == {s1}
Second == {m2}
AllCommands == CommandNames
RegenerateOnly == {"regenerate"}

VARIABLE part

\* Only Recover takes a message: no follow-up is injected.
TurnsOnly == commands' = 0 /\ (phase = "idle" \/ taken' = taken)
\* One interruption, and turns of the user's messages alone.
CommandsToo == interrupts' <= 1 /\ taken' \cap Subs = {}

MCInit == Init /\ part \in {"turns", "commands"}

MCNext ==
    /\ Next /\ UNCHANGED part
    /\ part = "turns" => TurnsOnly
    /\ part = "commands" => CommandsToo

MCSpec == MCInit /\ [][MCNext]_<<vars, part>>

\* Where no command and no follow-up interferes, every tool result is right behind its
\* request and every request has its result: a session never holds half an exchange,
\* whatever crash or recovery wrote it.
TurnsLegal == part = "turns" => LegalHistory

\* There a session at rest is closed: whatever cut a turn short (checkpoint.py), the next
\* message is not merged into the one before it.
TurnsClosed == part = "turns" => HistoryClosed

\* There no user message and no row of a turn is saved twice, however often checkpoints
\* are folded in (_restore_runtime_checkpoint, save_turn).
TurnsSavedOnce == part = "turns" => NoDuplicateRows

\* There a turn that ends has all it made in the session, and every user message its prompt
\* had (save_turn with save_skip).
TurnsSavedWhole ==
    [][part = "turns" /\ EndTurn =>
          /\ MadeBy(msgs, turn) \subseteq RowsOf(rows')
          /\ Origins(msgs) \subseteq Origins(rows')]_vars
================================================================================

---------------------------- MODULE MCTurnDispatch ----------------------------
(* Instances of TurnDispatch for TLC: one chat and what happens in it. *)
EXTENDS TurnDispatch

CONSTANTS a, uni, m1, m2, x, r, s1, s2, c1, w1, d1

MCKeys == {a, uni}

\* Two texts, subagents and a direct call; with them /new and another command, or /stop.
Burst == {m1, m2, s1, s2, d1, c1, w1, x}
BurstBound == \/ /\ \A m \in {c1, w1} : st[m] = "fresh"
                 /\ \E m \in {m2, s2} : st[m] = "fresh"
              \/ \A m \in {x, s2} : st[m] = "fresh"

\* Two texts, the commands that run() waits for, and a subagent.
Live == {m1, m2, x, r, s1}

MCKind == [m \in Msgs |->
    CASE m = x -> "stop" [] m = r -> "regen" [] m \in {s1, s2} -> "sub" [] m = c1 -> "cmd"
      [] m = w1 -> "new" [] m = d1 -> "direct" [] OTHER -> "text"]

MCChatKey == [m \in Msgs |-> a]

\* A subagent's result carries the key of the session that spawned it.
MCOverride == [m \in Msgs |-> IF m \in {s1, s2} THEN a ELSE None]
================================================================================

------------------------------ MODULE SerialTurns ------------------------------
(***************************************************************************)
(* What the dispatcher promises, without its queues, locks and tasks: a    *)
(* message is accepted once, and then starts a turn of its own, joins a    *)
(* running turn of its own session, or is closed without a turn (answered  *)
(* inline, or cancelled).  Turns of one session never overlap, and at most *)
(* GateSize turns started from the bus run at once.                        *)
(***************************************************************************)
EXTENDS Naturals, FiniteSets

CONSTANTS Msgs, Session, FromBus, GateSize

VARIABLE fate

Fates == {"outside", "waiting", "active", "joined", "closed"}

Active == {m \in Msgs : fate[m] = "active"}

Init == fate = [m \in Msgs |-> "outside"]

Accept(m) == fate[m] = "outside" /\ fate' = [fate EXCEPT ![m] = "waiting"]

Begin(m) ==
    /\ fate[m] = "waiting"
    /\ \A n \in Active : Session[n] # Session[m]
    /\ m \in FromBus => Cardinality(Active \cap FromBus) < GateSize
    /\ fate' = [fate EXCEPT ![m] = "active"]

Join(t, S) ==
    /\ t \in Active \cap FromBus
    /\ S # {} /\ \A m \in S : fate[m] = "waiting" /\ Session[m] = Session[t]
    /\ fate' = [m \in Msgs |-> IF m \in S THEN "joined" ELSE fate[m]]

Close(S) ==
    /\ S # {} /\ \A m \in S : fate[m] \notin {"joined", "closed"}
    /\ fate' = [m \in Msgs |-> IF m \in S THEN "closed" ELSE fate[m]]

Next ==
    \/ \E m \in Msgs : Accept(m) \/ Begin(m)
    \/ \E t \in Msgs, S \in SUBSET Msgs : Join(t, S)
    \/ \E S \in SUBSET Msgs : Close(S)

Spec == Init /\ [][Next]_fate
================================================================================

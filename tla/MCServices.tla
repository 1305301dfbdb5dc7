------------------------------ MODULE MCServices ------------------------------
(* The services beside the turns, each on its own: the scheduler, the subagents, the exec *)
(* sessions, the browser, the pairing store, a session under consolidation, the history.  *)
(* A behaviour is one of one component.                                                   *)
EXTENDS CronService, Subagents, ExecSessions, BrowserSessions, PairingStore, SessionMemory,
        MemoryHistory

CONSTANT Parts  \* the components of the run
VARIABLE part   \* the component whose behaviour this is

SubagentKey == [s \in Subs |-> IF s = "s3" THEN "k2" ELSE "k1"]

Others(p) ==
    /\ UNCHANGED part
    /\ IF p = "cron" THEN TRUE ELSE UNCHANGED cronVars
    /\ IF p = "subagents" THEN TRUE ELSE UNCHANGED subVars
    /\ IF p = "exec" THEN TRUE ELSE UNCHANGED execVars
    /\ IF p = "browser" THEN TRUE ELSE UNCHANGED browserVars
    /\ IF p = "pairing" THEN TRUE ELSE UNCHANGED pairVars
    /\ IF p = "session" THEN TRUE ELSE UNCHANGED sessionVars
    /\ IF p = "history" THEN TRUE ELSE UNCHANGED historyVars

Init == part \in Parts /\ CronInit /\ SubInit /\ ExecInit /\ BrowserInit /\ PairInit
        /\ SessionInit /\ HistoryInit

Next ==
    \/ part = "cron" /\ CronNext /\ Others("cron")
    \/ part = "subagents" /\ SubNext /\ Others("subagents")
    \/ part = "exec" /\ ExecNext /\ Others("exec")
    \/ part = "browser" /\ BrowserNext /\ Others("browser")
    \/ part = "pairing" /\ PairNext /\ Others("pairing")
    \/ part = "session" /\ SessionNext /\ Others("session")
    \/ part = "history" /\ HistoryNext /\ Others("history")

vars == <<part, cronVars, subVars, execVars, browserVars, pairVars, sessionVars, historyVars>>

Spec == Init /\ [][Next]_vars
================================================================================

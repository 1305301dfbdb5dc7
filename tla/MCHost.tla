-------------------------------- MODULE MCHost --------------------------------
(* The processes around the agent, each on its own: the life of a gateway, the writers of the  *)
(* configuration file, the update check and the upgrade, the setup wizard. A behaviour is one  *)
(* of one part.                                                                                *)
EXTENDS GatewayLife, ConfigFile, UpdateCheck, Wizard

CONSTANT Parts  \* the parts of the run
VARIABLE part   \* the one whose behaviour this is

Others(p) ==
    /\ UNCHANGED part
    /\ IF p = "gateway" THEN TRUE ELSE UNCHANGED gwVars
    /\ IF p = "config" THEN TRUE ELSE UNCHANGED configVars
    /\ IF p = "update" THEN TRUE ELSE UNCHANGED updateVars
    /\ IF p = "wizard" THEN TRUE ELSE UNCHANGED wizardVars

Init ==
    /\ part \in Parts /\ GatewayInit /\ ConfigInit /\ UpdateInit /\ WizardInit
    \* What a part chooses in the beginning is chosen for that part alone.
    /\ part # "update" => newest = MaxRelease /\ host = (CHOOSE h \in Hosts : TRUE)
    /\ part # "wizard" => ~ ctx.many /\ \A a \in WizAgents : configs[a] = Absent

Next ==
    \/ part = "gateway" /\ GatewayNext /\ Others("gateway")
    \/ part = "config" /\ ConfigNext /\ Others("config")
    \/ part = "update" /\ UpdateNext /\ Others("update")
    \/ part = "wizard" /\ WizardNext /\ Others("wizard")

vars == <<part, gwVars, configVars, updateVars, wizardVars>>

Spec == Init /\ [][Next]_vars
================================================================================

------------------------------ MODULE HostProofs ------------------------------
(* Proofs about the host: what the gateway says and leaves on disk when it ends, what becomes  *)
(* of config.json, what the wizard writes, and what an update announces and runs, for every    *)
(* number of gateways, turns, writers, agents, steps and processes.                            *)
EXTENDS GatewayLife, ConfigFile, Wizard, UpdateCheck, CronService, FiniteSetTheorems, LoopLemmas, TLAPS

----------------------------------------------------------------------------
(* The gateway. *)

\* Every gateway has a state, a turn of each source, and sets of sources.
GatewayTyped ==
    /\ gate \in [Gateways -> Alive \cup {"new", "probed", "flushed", "ended", "killed"}]
    /\ turn \in [Gateways -> [Sources -> {"none", "running", "judged"}]]
    /\ told \in [Gateways -> [Sources -> Nat]]
    /\ saved \in [Gateways -> SUBSET Sources] /\ cached \in [Gateways -> SUBSET Sources]
    /\ checked \in [Gateways -> SUBSET Sources]
    /\ after \in [Gateways -> SUBSET Sources] /\ sentFlag \in [Gateways -> SUBSET Sources]
    /\ cutOff \in [Gateways -> SUBSET Sources] /\ unsynced \in [Gateways -> SUBSET Sources]

\* A running turn has told its chat nothing, or the flag of its own task says that it has; one
\* whose reply is judged has told nothing.
ToldInv ==
    \A g \in Gateways, s \in Sources :
        /\ told[g][s] <= 1
        /\ turn[g][s] = "running" => told[g][s] = 0 \/ s \in sentFlag[g]
        /\ turn[g][s] = "judged" => told[g][s] = 0

\* After the flush only what could not be synced is unsynced of what the cache holds, and no turn
\* runs but those that ran when it was made.
FlushInv ==
    \A g \in Gateways :
        /\ gate[g] = "flushed" =>
              saved[g] \cap cached[g] \subseteq unsynced[g] /\ {s \in Sources : turn[g][s] # "none"} \subseteq cutOff[g]
        /\ gate[g] = "ended" => saved[g] \cap cached[g] \subseteq cutOff[g] \cup unsynced[g]


\* Every step keeps the types.
LEMMA GatewayTypedNext == ASSUME GatewayTyped, [GatewayNext]_gwVars PROVE GatewayTyped'
    <1> USE DEF GatewayTyped, Sources, Calm, Up, Closing, Alive, turnVars, cutVars, stopVars
    <1>1. ASSUME NEW g \in Gateways, Preflight(g) PROVE GatewayTyped'
        BY <1>1 DEF Preflight
    <1>2. ASSUME NEW g \in Gateways, StartServices(g) PROVE GatewayTyped'
        BY <1>2 DEF StartServices
    <1>3. ASSUME NEW g \in Gateways, BindPort(g) PROVE GatewayTyped'
        BY <1>3 DEF BindPort
    <1>4. ASSUME NEW g \in Gateways, Interrupt(g) PROVE GatewayTyped'
        BY <1>4 DEF Interrupt
    <1>5. ASSUME NEW g \in Gateways, InterruptAgain(g) PROVE GatewayTyped'
        BY <1>5 DEF InterruptAgain, Gone
    <1>6. ASSUME NEW g \in Gateways, NEW s \in Sources, Checkpoint(g, s) PROVE GatewayTyped'
        BY <1>6 DEF Checkpoint, Saves
    <1>7. ASSUME NEW g \in Gateways, NEW s \in Sources, SendItself(g, s) PROVE GatewayTyped'
        BY <1>7 DEF SendItself, TasksWithFlag
    <1>8. ASSUME NEW g \in Gateways, NEW s \in Sources, BackgroundSaves(g, s) PROVE GatewayTyped'
        BY <1>8 DEF BackgroundSaves, Saves
    <1>9. ASSUME NEW g \in Gateways, NEW s \in Sources, BeginTurn(g, s) PROVE GatewayTyped'
        BY <1>9 DEF BeginTurn, TasksWithFlag
    <1>10. ASSUME NEW g \in Gateways, ChatEnds(g) PROVE GatewayTyped'
        BY <1>10 DEF ChatEnds, Finish, Saves
    <1>11. ASSUME NEW g \in Gateways, NEW s \in Sources, RunEnds(g, s) PROVE GatewayTyped'
        BY <1>11 DEF RunEnds, Finish, Saves
    <1>12. ASSUME NEW g \in Gateways, NEW s \in Sources, TellVerdict(g, s) PROVE GatewayTyped'
        BY <1>12 DEF TellVerdict
    <1>13. ASSUME NEW g \in Gateways, CloseServers(g) PROVE GatewayTyped'
        BY <1>13 DEF CloseServers
    <1>14. ASSUME NEW g \in Gateways, StopServices(g) PROVE GatewayTyped'
        BY <1>14 DEF StopServices
    <1>15. ASSUME NEW g \in Gateways, FlushAll(g) PROVE GatewayTyped'
        BY <1>15 DEF FlushAll, FlushedSessions
    <1>16. ASSUME NEW g \in Gateways, EndGateway(g) PROVE GatewayTyped'
        BY <1>16 DEF EndGateway, Saves
    <1>17. ASSUME NEW g \in Gateways, SignalLands(g) PROVE GatewayTyped'
        BY <1>17 DEF SignalLands, Gone
    <1>18. CASE AskToStop \/ KillListener \/ PortFree
        BY <1>18 DEF AskToStop, KillListener, PortFree
    <1>20. ASSUME NEW g \in Gateways, NEW s \in Sources, EvictSession(g, s) PROVE GatewayTyped'
        BY <1>20 DEF EvictSession
    <1>21. ASSUME NEW g \in Gateways, NewSession(g) PROVE GatewayTyped'
        BY <1>21 DEF NewSession
    <1>19. CASE UNCHANGED gwVars BY SMTT(30), <1>19 DEF gwVars
    <1> QED BY SMTT(30), <1>1, <1>2, <1>3, <1>4, <1>5, <1>6, <1>7, <1>8, <1>9, <1>10, <1>11, <1>12, <1>13, <1>14, <1>15, <1>16, <1>17, <1>18, <1>19, <1>20, <1>21
               DEF GatewayNext, Beat, RunJob, TakeChat, JobEnds, BeatEnds, TellJob, TellBeat

\* Every step keeps what was told in step with the flags of the tasks.
LEMMA ToldInvNext == ASSUME GatewayTyped, ToldInv, [GatewayNext]_gwVars PROVE ToldInv'
    <1> USE DEF GatewayTyped, Sources, Calm, Up, Closing, Alive, turnVars, cutVars, stopVars, ToldInv
    <1>1. ASSUME NEW g \in Gateways, Preflight(g) PROVE ToldInv'
        BY <1>1 DEF Preflight
    <1>2. ASSUME NEW g \in Gateways, StartServices(g) PROVE ToldInv'
        BY <1>2 DEF StartServices
    <1>3. ASSUME NEW g \in Gateways, BindPort(g) PROVE ToldInv'
        BY <1>3 DEF BindPort
    <1>4. ASSUME NEW g \in Gateways, Interrupt(g) PROVE ToldInv'
        BY <1>4 DEF Interrupt
    <1>5. ASSUME NEW g \in Gateways, InterruptAgain(g) PROVE ToldInv'
        BY <1>5 DEF InterruptAgain, Gone
    <1>6. ASSUME NEW g \in Gateways, NEW s \in Sources, Checkpoint(g, s) PROVE ToldInv'
        BY <1>6 DEF Checkpoint, Saves
    <1>7. ASSUME NEW g \in Gateways, NEW s \in Sources, SendItself(g, s) PROVE ToldInv'
        BY <1>7 DEF SendItself, TasksWithFlag
    <1>8. ASSUME NEW g \in Gateways, NEW s \in Sources, BackgroundSaves(g, s) PROVE ToldInv'
        BY <1>8 DEF BackgroundSaves, Saves
    <1>9. ASSUME NEW g \in Gateways, NEW s \in Sources, BeginTurn(g, s) PROVE ToldInv'
        BY <1>9 DEF BeginTurn, TasksWithFlag
    <1>10. ASSUME NEW g \in Gateways, ChatEnds(g) PROVE ToldInv'
        BY <1>10 DEF ChatEnds, Finish, Saves
    <1>11. ASSUME NEW g \in Gateways, NEW s \in Sources, RunEnds(g, s) PROVE ToldInv'
        BY <1>11 DEF RunEnds, Finish, Saves
    <1>12. ASSUME NEW g \in Gateways, NEW s \in Sources, TellVerdict(g, s) PROVE ToldInv'
        BY <1>12 DEF TellVerdict
    <1>13. ASSUME NEW g \in Gateways, CloseServers(g) PROVE ToldInv'
        BY <1>13 DEF CloseServers
    <1>14. ASSUME NEW g \in Gateways, StopServices(g) PROVE ToldInv'
        BY <1>14 DEF StopServices
    <1>15. ASSUME NEW g \in Gateways, FlushAll(g) PROVE ToldInv'
        BY <1>15 DEF FlushAll, FlushedSessions
    <1>16. ASSUME NEW g \in Gateways, EndGateway(g) PROVE ToldInv'
        BY <1>16 DEF EndGateway, Saves
    <1>17. ASSUME NEW g \in Gateways, SignalLands(g) PROVE ToldInv'
        BY <1>17 DEF SignalLands, Gone
    <1>18. CASE AskToStop \/ KillListener \/ PortFree
        BY <1>18 DEF AskToStop, KillListener, PortFree
    <1>20. ASSUME NEW g \in Gateways, NEW s \in Sources, EvictSession(g, s) PROVE ToldInv'
        BY <1>20 DEF EvictSession
    <1>21. ASSUME NEW g \in Gateways, NewSession(g) PROVE ToldInv'
        BY <1>21 DEF NewSession
    <1>19. CASE UNCHANGED gwVars BY <1>19 DEF gwVars
    <1> QED BY <1>1, <1>2, <1>3, <1>4, <1>5, <1>6, <1>7, <1>8, <1>9, <1>10, <1>11, <1>12, <1>13, <1>14, <1>15, <1>16, <1>17, <1>18, <1>19, <1>20, <1>21
               DEF GatewayNext, Beat, RunJob, TakeChat, JobEnds, BeatEnds, TellJob, TellBeat

\* Every step keeps what a flush promises.
LEMMA FlushInvNext == ASSUME GatewayTyped, FlushInv, [GatewayNext]_gwVars PROVE FlushInv'
    <1> USE DEF GatewayTyped, Sources, Calm, Up, Closing, Alive, turnVars, cutVars, stopVars, FlushInv
    <1>1. ASSUME NEW g \in Gateways, Preflight(g) PROVE FlushInv'
        BY <1>1 DEF Preflight
    <1>2. ASSUME NEW g \in Gateways, StartServices(g) PROVE FlushInv'
        BY <1>2 DEF StartServices
    <1>3. ASSUME NEW g \in Gateways, BindPort(g) PROVE FlushInv'
        BY <1>3 DEF BindPort
    <1>4. ASSUME NEW g \in Gateways, Interrupt(g) PROVE FlushInv'
        BY <1>4 DEF Interrupt
    <1>5. ASSUME NEW g \in Gateways, InterruptAgain(g) PROVE FlushInv'
        BY <1>5 DEF InterruptAgain, Gone
    <1>6. ASSUME NEW g \in Gateways, NEW s \in Sources, Checkpoint(g, s) PROVE FlushInv'
        BY <1>6 DEF Checkpoint, Saves
    <1>7. ASSUME NEW g \in Gateways, NEW s \in Sources, SendItself(g, s) PROVE FlushInv'
        BY <1>7 DEF SendItself, TasksWithFlag
    <1>8. ASSUME NEW g \in Gateways, NEW s \in Sources, BackgroundSaves(g, s) PROVE FlushInv'
        BY <1>8 DEF BackgroundSaves, Saves
    <1>9. ASSUME NEW g \in Gateways, NEW s \in Sources, BeginTurn(g, s) PROVE FlushInv'
        BY <1>9 DEF BeginTurn, TasksWithFlag
    <1>10. ASSUME NEW g \in Gateways, ChatEnds(g) PROVE FlushInv'
        BY <1>10 DEF ChatEnds, Finish, Saves
    <1>11. ASSUME NEW g \in Gateways, NEW s \in Sources, RunEnds(g, s) PROVE FlushInv'
        BY <1>11 DEF RunEnds, Finish, Saves
    <1>12. ASSUME NEW g \in Gateways, NEW s \in Sources, TellVerdict(g, s) PROVE FlushInv'
        BY <1>12 DEF TellVerdict
    <1>13. ASSUME NEW g \in Gateways, CloseServers(g) PROVE FlushInv'
        BY <1>13 DEF CloseServers
    <1>14. ASSUME NEW g \in Gateways, StopServices(g) PROVE FlushInv'
        BY <1>14 DEF StopServices
    <1>15. ASSUME NEW g \in Gateways, FlushAll(g) PROVE FlushInv'
        BY <1>15 DEF FlushAll, FlushedSessions
    <1>16. ASSUME NEW g \in Gateways, EndGateway(g) PROVE FlushInv'
        BY <1>16 DEF EndGateway, Saves
    <1>17. ASSUME NEW g \in Gateways, SignalLands(g) PROVE FlushInv'
        BY <1>17 DEF SignalLands, Gone
    <1>18. CASE AskToStop \/ KillListener \/ PortFree
        BY <1>18 DEF AskToStop, KillListener, PortFree
    <1>20. ASSUME NEW g \in Gateways, NEW s \in Sources, EvictSession(g, s) PROVE FlushInv'
        BY <1>20 DEF EvictSession
    <1>21. ASSUME NEW g \in Gateways, NewSession(g) PROVE FlushInv'
        BY <1>21 DEF NewSession
    <1>19. CASE UNCHANGED gwVars BY <1>19 DEF gwVars
    <1> QED BY <1>1, <1>2, <1>3, <1>4, <1>5, <1>6, <1>7, <1>8, <1>9, <1>10, <1>11, <1>12, <1>13, <1>14, <1>15, <1>16, <1>17, <1>18, <1>19, <1>20, <1>21
               DEF GatewayNext, Beat, RunJob, TakeChat, JobEnds, BeatEnds, TellJob, TellBeat

\* No turn tells its chat twice what it has to say, and a gateway that has shut down leaves
\* nothing its cache holds unsynced but the sessions of turns it cut off and those it could not
\* save: for every number of gateways and turns, whatever signals and interrupts arrive meanwhile.
THEOREM GatewayKept == GatewaySpec => []GatewaySound
    <1>1. GatewayInit => GatewayTyped /\ ToldInv /\ FlushInv
        BY DEF GatewayInit, GatewayTyped, ToldInv, FlushInv, Calm, Sources
    <1>2. GatewayTyped /\ ToldInv /\ FlushInv => GatewaySound
        BY DEF ToldInv, FlushInv, GatewaySound, ToldOnce, EndedIsDurable
    <1> QED BY <1>1, <1>2, GatewayTypedNext, ToldInvNext, FlushInvNext, PTL DEF GatewaySpec

----------------------------------------------------------------------------
(* config.json. *)

\* What a file may be.
FileKinds == {NoFile, TornFile} \cup {WholeFile(c) : c \in SUBSET Settings}

\* The file is missing, torn or the last configuration that was whole; every copy has the name
\* of a command and a second.
FileTyped ==
    /\ configFile \in {NoFile, TornFile, WholeFile(lastWhole)}
    /\ lastWhole \in SUBSET Settings /\ backups \subseteq SUBSET Settings /\ careless \in BOOLEAN
    /\ second \in 0..MaxSeconds /\ safety \in [Stamped -> FileKinds]
    /\ mem \in [Writers -> SUBSET Settings]
    /\ stage \in [Writers -> {"idle", "loaded", "edited", "kept", "open", "again", "merge"}]

\* A process that has made its copy, and after which nobody has written, has one of the last
\* whole configuration.
CopyInv ==
    \A p \in Writers : stage[p] = "kept" /\ p \notin behind => lastWhole \in KeptCopies \/ careless

ConfigInv == FileTyped /\ LastConfigSurvives /\ CopyInv

\* A configuration is kept under a name of its own or in a whole copy of backups/.
LEMMA KeptIs ==
    ASSUME FileTyped, NEW c \in SUBSET Settings
    PROVE  c \in KeptCopies <=> c \in backups \/ \E n \in Stamped : safety[n] = WholeFile(c)
    <1>1. \A n \in Stamped : safety[n] \in FileKinds BY DEF FileTyped
    <1>2. WholeFile(c) \notin {NoFile, TornFile} /\ WholeFile(c).val = c BY DEF WholeFile, NoFile, TornFile
    <1>3. \A n \in Stamped : safety[n] \notin {NoFile, TornFile} /\ safety[n].val = c => safety[n] = WholeFile(c)
        BY <1>1 DEF FileKinds, WholeFile
    <1> QED BY <1>2, <1>3 DEF KeptCopies

\* The last whole configuration is found in the file, in a copy, or someone was careless.
LEMMA LastFound == ASSUME ConfigInv PROVE configFile = WholeFile(lastWhole) \/ lastWhole \in KeptCopies \/ careless
    BY DEF ConfigInv, FileTyped, LastConfigSurvives, NoFile, TornFile, WholeFile

\* Steps that leave the file and its copies alone, and after which no process has made a copy
\* that had not before.
LEMMA FileKept ==
    ASSUME ConfigInv, UNCHANGED <<configFile, copies, story, behind>>, second' \in 0..MaxSeconds,
           mem' \in [Writers -> SUBSET Settings],
           stage' \in [Writers -> {"idle", "loaded", "edited", "kept", "open", "again", "merge"}],
           \A p \in Writers : stage'[p] = "kept" => stage[p] = "kept"
    PROVE  ConfigInv'
    <1>1. KeptCopies' = KeptCopies BY DEF KeptCopies, copies
    <1>2. FileTyped' BY DEF ConfigInv, FileTyped, copies, story
    <1>3. LastConfigSurvives' BY <1>1 DEF ConfigInv, LastConfigSurvives, story
    <1>4. CopyInv' BY <1>1 DEF ConfigInv, CopyInv, story
    <1> QED BY <1>2, <1>3, <1>4 DEF ConfigInv

\* A process goes on without a copy of its own: its stage and what it holds stay typed.
LEMMA MovesTyped ==
    ASSUME FileTyped, NEW p \in Writers, NEW next \in {"idle", "loaded", "edited", "open", "again", "merge"},
           Moves(p, next)
    PROVE  /\ mem' \in [Writers -> SUBSET Settings]
           /\ stage' \in [Writers -> {"idle", "loaded", "edited", "kept", "open", "again", "merge"}]
           /\ \A q \in Writers : stage'[q] = "kept" => stage[q] = "kept" /\ q # p
    BY DEF Moves, FileTyped

\* A copy that is made of the file loses no other, or is careless; it holds what the file held.
LEMMA CopyAsKeeps ==
    ASSUME FileTyped, NEW name \in Stamped, CopyAs(name), UNCHANGED <<backups, configFile>>
    PROVE  /\ safety' \in [Stamped -> FileKinds] /\ careless' \in BOOLEAN
           /\ careless => careless'
           /\ \A c \in SUBSET Settings : c \in KeptCopies => c \in KeptCopies' \/ careless'
           /\ configFile = WholeFile(lastWhole) => lastWhole \in KeptCopies'
    <1>1. configFile \in FileKinds BY DEF FileTyped, FileKinds
    <1>2. CASE configFile.kind = "none"
        <2>1. UNCHANGED <<safety, careless, backups>> BY <1>2 DEF CopyAs
        <2>2. KeptCopies' = KeptCopies BY <2>1 DEF KeptCopies
        <2>3. configFile # WholeFile(lastWhole) BY <1>2 DEF WholeFile
        <2> QED BY <2>1, <2>2, <2>3 DEF FileTyped
    <1>3. CASE configFile.kind # "none"
        <2>1. safety' = [safety EXCEPT ![name] = configFile] /\ careless' = (careless \/ safety[name].kind # "none")
            BY <1>3 DEF CopyAs
        <2>2. /\ safety' \in [Stamped -> FileKinds] /\ safety'[name] = configFile
              /\ \A n \in Stamped : n # name => safety'[n] = safety[n]
            BY <1>1, <2>1 DEF FileTyped
        <2>3. careless' \in BOOLEAN /\ (careless => careless') BY <2>1 DEF FileTyped
        <2>4. ASSUME NEW c \in SUBSET Settings
              PROVE  c \in KeptCopies' <=> c \in backups \/ \E n \in Stamped : safety'[n] = WholeFile(c)
            <3>1. \A n \in Stamped : safety'[n] \in FileKinds BY <2>2
            <3>2. WholeFile(c) \notin {NoFile, TornFile} /\ WholeFile(c).val = c BY DEF WholeFile, NoFile, TornFile
            <3>3. \A n \in Stamped :
                     safety'[n] \notin {NoFile, TornFile} /\ safety'[n].val = c => safety'[n] = WholeFile(c)
                BY <3>1 DEF FileKinds, WholeFile
            <3> QED BY <3>2, <3>3 DEF KeptCopies
        <2>5. ASSUME NEW c \in SUBSET Settings, c \in KeptCopies PROVE c \in KeptCopies' \/ careless'
            <3>1. CASE c \in backups BY <2>4, <3>1
            <3>2. CASE \E n \in Stamped : safety[n] = WholeFile(c)
                <4>1. PICK n \in Stamped : safety[n] = WholeFile(c) BY <3>2
                <4>2. CASE n = name
                    <5>1. safety[name].kind # "none" BY <4>1, <4>2 DEF WholeFile
                    <5> QED BY <2>1, <5>1
                <4>3. CASE n # name BY <2>2, <2>4, <4>1, <4>3
                <4> QED BY <4>2, <4>3
            <3> QED BY <2>5, <3>1, <3>2, KeptIs
        <2>6. lastWhole \in SUBSET Settings BY DEF FileTyped
        <2> QED BY <2>2, <2>3, <2>4, <2>5, <2>6
    <1> QED BY <1>2, <1>3

\* A process that copies the file as it is has a copy of the last whole configuration, or there
\* is one, or someone was careless.
LEMMA CopyStep ==
    ASSUME ConfigInv, NEW name \in Stamped, CopyAs(name),
           UNCHANGED <<configFile, backups, second, mem, lastWhole>>,
           \/ UNCHANGED <<stage, behind>>
           \/ \E p \in Writers : stage' = [stage EXCEPT ![p] = "kept"] /\ behind' = behind \ {p}
    PROVE  ConfigInv'
    <1>0. FileTyped BY DEF ConfigInv
    <1>1. /\ safety' \in [Stamped -> FileKinds] /\ careless' \in BOOLEAN /\ (careless => careless')
          /\ \A c \in SUBSET Settings : c \in KeptCopies => c \in KeptCopies' \/ careless'
          /\ configFile = WholeFile(lastWhole) => lastWhole \in KeptCopies'
        BY <1>0, CopyAsKeeps
    <1>2. FileTyped' BY <1>0, <1>1 DEF FileTyped
    <1>3. lastWhole \in KeptCopies' \/ careless' BY <1>0, <1>1, LastFound DEF FileTyped
    <1> QED BY <1>2, <1>3 DEF ConfigInv, LastConfigSurvives, CopyInv

\* The file is whole again, and whoever had a copy is behind.
LEMMA WholeAgain ==
    ASSUME FileTyped, NEW p \in Writers, lastWhole' = mem[p], configFile' = WholeFile(mem[p]), careless' \in BOOLEAN,
           UNCHANGED <<copies, second>>, behind' = behind \cup (InStep({"kept", "open"}) \ {p}),
           mem' \in [Writers -> SUBSET Settings],
           stage' \in [Writers -> {"idle", "loaded", "edited", "kept", "open", "again", "merge"}],
           \A q \in Writers : stage'[q] = "kept" => stage[q] = "kept" /\ q # p
    PROVE  ConfigInv'
    <1>1. FileTyped' BY DEF FileTyped, copies
    <1>2. LastConfigSurvives' BY DEF LastConfigSurvives, WholeFile
    <1>3. CopyInv' BY DEF CopyInv, InStep
    <1> QED BY <1>1, <1>2, <1>3 DEF ConfigInv

\* A process opens the file: it is torn, and its last configuration in a copy.
LEMMA OpenKeeps == ASSUME ConfigInv, NEW p \in Writers, OpenForWrite(p) PROVE ConfigInv'
    <1>1. /\ configFile' = TornFile /\ stage' = [stage EXCEPT ![p] = "open"]
          /\ careless' = (careless \/ cmd[p] \notin Careful \/ p \in behind)
          /\ UNCHANGED <<backups, safety, second, mem, behind, lastWhole>>
          /\ stage[p] = "kept" \/ cmd[p] \notin Careful
        BY DEF OpenForWrite, Careful, copies
    <1>2. KeptCopies' = KeptCopies BY <1>1 DEF KeptCopies
    <1>3. lastWhole \in KeptCopies \/ careless' BY <1>1 DEF ConfigInv, CopyInv
    <1>4. FileTyped' BY <1>1 DEF ConfigInv, FileTyped
    <1> QED BY <1>1, <1>2, <1>3, <1>4 DEF ConfigInv, LastConfigSurvives, CopyInv, FileTyped

\* A process writes what it holds: the file is whole, or torn and the writer careless.
LEMMA WriteOutKeeps == ASSUME ConfigInv, NEW p \in Writers, WriteOut(p) PROVE ConfigInv'
    <1>0. FileTyped BY DEF ConfigInv
    <1>1. AfterWrite(p) \in {"idle", "loaded", "edited", "open", "again", "merge"} BY DEF AfterWrite
    <1>2. /\ mem' \in [Writers -> SUBSET Settings]
          /\ stage' \in [Writers -> {"idle", "loaded", "edited", "kept", "open", "again", "merge"}]
          /\ \A q \in Writers : stage'[q] = "kept" => stage[q] = "kept" /\ q # p
        BY <1>0, <1>1, MovesTyped DEF WriteOut
    <1>3. CASE p \in detached
        <2>1. UNCHANGED <<configFile, copies, story, behind>> /\ second' \in 0..MaxSeconds
            BY <1>0, <1>3 DEF WriteOut, FileTyped
        <2> QED BY <1>2, <2>1, FileKept
    <1>4. CASE p \notin detached
        <2>1. PICK clean \in BOOLEAN :
                 /\ configFile' = IF clean THEN WholeFile(mem[p]) ELSE TornFile
                 /\ behind' = behind \cup (InStep({"kept", "open"}) \ {p})
                 /\ lastWhole' = IF clean THEN mem[p] ELSE lastWhole
                 /\ careless' = ~clean
            BY <1>4 DEF WriteOut
        <2>2. UNCHANGED <<copies, second>> BY DEF WriteOut
        <2>3. CASE clean BY <1>0, <1>2, <2>1, <2>2, <2>3, WholeAgain
        <2>4. CASE ~clean
            <3>1. careless' /\ careless' \in BOOLEAN /\ configFile' = TornFile /\ lastWhole' = lastWhole BY <2>1, <2>4
            <3>2. FileTyped' BY <1>0, <1>2, <2>2, <3>1 DEF FileTyped, copies
            <3> QED BY <3>1, <3>2 DEF ConfigInv, LastConfigSurvives, CopyInv
        <2> QED BY <2>3, <2>4
    <1> QED BY <1>3, <1>4

\* `config set` copies the file, and the wizard's reset renames it: the copy has a name of its own.
LEMMA BackupKeeps ==
    ASSUME ConfigInv, UNCHANGED <<safety, second, story>>, mem' \in [Writers -> SUBSET Settings],
           stage' \in [Writers -> {"idle", "loaded", "edited", "kept", "open", "again", "merge"}],
           configFile' \in {configFile, NoFile},
           backups' = (IF configFile.kind = "whole" THEN backups \cup {configFile.val} ELSE backups)
    PROVE  ConfigInv'
    <1>0. FileTyped BY DEF ConfigInv
    <1>1. CASE configFile = WholeFile(lastWhole)
        <2>1. backups' = backups \cup {lastWhole} BY <1>1 DEF WholeFile
        <2>2. FileTyped' BY <1>0, <2>1 DEF FileTyped, story
        <2>3. lastWhole' \in KeptCopies' BY <2>1 DEF KeptCopies, story
        <2> QED BY <2>2, <2>3 DEF ConfigInv, LastConfigSurvives, CopyInv
    <1>2. CASE configFile \in {NoFile, TornFile}
        <2>1. backups' = backups BY <1>2 DEF NoFile, TornFile
        <2>2. FileTyped' BY <1>0, <2>1 DEF FileTyped, story
        <2>3. KeptCopies' = KeptCopies BY <2>1 DEF KeptCopies
        <2>4. lastWhole \in KeptCopies \/ careless
            BY <1>2 DEF ConfigInv, LastConfigSurvives, NoFile, TornFile
        <2> QED BY <2>2, <2>3, <2>4 DEF ConfigInv, LastConfigSurvives, CopyInv, story
    <1> QED BY <1>0, <1>1, <1>2 DEF FileTyped

\* A command begins with a configuration it may hold.
LEMMA BeginsKeeps ==
    ASSUME ConfigInv, NEW p \in Writers, NEW c, NEW holds \in SUBSET Settings, NEW next \in {"loaded", "edited"},
           Begins(p, c, holds, next)
    PROVE  ConfigInv'
    BY FileKept DEF Begins, ConfigInv, FileTyped, races

\* Every step keeps the last whole configuration.
LEMMA ConfigInvNext == ASSUME ConfigInv, [ConfigNext]_configVars PROVE ConfigInv'
    <1>0. FileTyped BY DEF ConfigInv
    <1>a. ReadConfig \in SUBSET Settings BY <1>0 DEF ReadConfig, FileTyped, NoFile, TornFile, WholeFile
    <1>b. second \in 0..MaxSeconds /\ \A n \in {"restore", "create", "cleanup"} : <<n, second>> \in Stamped
        BY <1>0 DEF FileTyped, Stamped
    <1>1. ASSUME NEW p \in Writers, NEW c \in {"tui", "wizard"}, LoadConfig(p, c) PROVE ConfigInv'
        BY <1>1, <1>a, BeginsKeeps DEF LoadConfig
    <1>2. ASSUME NEW p \in Writers, BeginSet(p) PROVE ConfigInv' BY <1>2, <1>a, BeginsKeeps DEF BeginSet
    <1>3. ASSUME NEW p \in Writers, BeginRestore(p) PROVE ConfigInv'
        <2>1. PICK copy \in KeptCopies : Begins(p, "restore", copy, "edited") BY <1>3 DEF BeginRestore
        <2>2. copy \in SUBSET Settings
            <3>1. CASE copy \in backups BY <1>0, <3>1 DEF FileTyped
            <3>2. CASE copy \notin backups
                <4>1. PICK n \in Stamped : safety[n] \notin {NoFile, TornFile} /\ copy = safety[n].val
                    BY <3>2 DEF KeptCopies
                <4>2. safety[n] \in FileKinds BY <1>0 DEF FileTyped
                <4> QED BY <4>1, <4>2 DEF FileKinds, WholeFile
            <3> QED BY <3>1, <3>2
        <2> QED BY <2>1, <2>2, BeginsKeeps
    <1>4. ASSUME NEW p \in Writers, BeginCleanup(p) PROVE ConfigInv' BY <1>4, <1>a, BeginsKeeps DEF BeginCleanup
    <1>5. ASSUME NEW p \in Writers, CreateBackup(p) PROVE ConfigInv'
        BY <1>5, <1>b, CopyStep DEF CreateBackup, races
    <1>6. ASSUME NEW p \in Writers, NEW s \in Settings,
                 \/ SetValue(p, s) \/ DraftValue(p, s) \/ PickModel(p, s) \/ PickProvider(p, s)
                 \/ SaveApiKey(p, s) \/ HealModel(p, s)
          PROVE  ConfigInv'
        <2>1. SetValue(p, s) \/ DraftValue(p, s) \/ PickValue(p, s)
            BY <1>6 DEF PickModel, PickProvider, SaveApiKey, HealModel
        <2>2. /\ mem' = [mem EXCEPT ![p] = Changed(@, s)]
              /\ stage' = stage \/ stage' = [stage EXCEPT ![p] = "edited"]
              /\ UNCHANGED <<configFile, copies, second, races, story>>
            BY <2>1 DEF SetValue, DraftValue, PickValue
        <2>3. mem' \in [Writers -> SUBSET Settings] BY <1>0, <2>2 DEF FileTyped, Changed
        <2> QED BY <1>0, <1>b, <2>2, <2>3, FileKept DEF FileTyped, races
    <1>7. ASSUME NEW p \in Writers, NEW save \in BOOLEAN, Summary(p, save) PROVE ConfigInv'
        <2>1. PICK next \in {"edited", "merge"} : Moves(p, next) BY <1>7 DEF Summary
        <2> QED BY <1>0, <1>7, <1>b, <2>1, MovesTyped, FileKept DEF Summary, races
    <1>8. ASSUME NEW p \in Writers, Reread(p) PROVE ConfigInv'
        BY <1>0, <1>8, <1>a, <1>b, FileKept DEF Reread, FileTyped, races
    <1>9. ASSUME NEW p \in Writers, Refuse(p) \/ Die(p) PROVE ConfigInv'
        BY <1>0, <1>9, <1>b, MovesTyped, FileKept DEF Refuse, Die, races
    <1>10. ASSUME NEW p \in Writers, ResetSave(p) PROVE ConfigInv'
        <2>1. mem' \in [Writers -> SUBSET Settings] BY <1>0, <1>10 DEF ResetSave, FileTyped
        <2>2. stage' \in [Writers -> {"idle", "loaded", "edited", "kept", "open", "again", "merge"}]
            BY <1>0, <1>10 DEF ResetSave, FileTyped
        <2> QED BY <1>10, <2>1, <2>2, BackupKeeps DEF ResetSave
    <1>11. ASSUME NEW p \in Writers, KeepCopy(p) PROVE ConfigInv'
        <2>1. backups' = (IF configFile.kind = "whole" THEN backups \cup {configFile.val} ELSE backups)
            BY <1>11 DEF KeepCopy, Keeping
        <2>2. stage' \in [Writers -> {"idle", "loaded", "edited", "kept", "open", "again", "merge"}]
            BY <1>0, <1>11 DEF KeepCopy, FileTyped
        <2>3. mem' \in [Writers -> SUBSET Settings] BY <1>0, <1>11 DEF KeepCopy, FileTyped
        <2> QED BY <1>11, <2>1, <2>2, <2>3, BackupKeeps DEF KeepCopy
    <1>12. ASSUME NEW p \in Writers, OpenForWrite(p) PROVE ConfigInv' BY <1>12, OpenKeeps
    <1>13. ASSUME NEW p \in Writers, WriteOut(p) PROVE ConfigInv' BY <1>13, WriteOutKeeps
    <1>14. ASSUME NEW p \in Writers, MergeDefaults(p) PROVE ConfigInv'
        <2>1. UNCHANGED <<configFile, copies, second, races, story>> BY <1>14 DEF MergeDefaults
        <2>2. CASE configFile.kind = "whole"
            BY <1>0, <1>14, <1>a, <1>b, <2>1, <2>2, FileKept DEF MergeDefaults, ReadConfig, FileTyped, races
        <2>3. CASE configFile.kind # "whole"
            BY <1>0, <1>14, <1>b, <2>1, <2>3, MovesTyped, FileKept DEF MergeDefaults, races
        <2> QED BY <2>2, <2>3
    <1>15. ASSUME NEW p \in Writers, WriteFails(p) PROVE ConfigInv'
        <2>1. PICK next \in {"loaded", "idle"} : Moves(p, next) BY <1>15 DEF WriteFails
        <2> QED BY <1>0, <1>15, <1>b, <2>1, MovesTyped, FileKept DEF WriteFails, races
    <1>16. ASSUME NEW p \in Writers, SnapshotFirst(p) \/ SafetyCopy(p) PROVE ConfigInv'
        BY <1>16, <1>b, CopyStep DEF SnapshotFirst, SafetyCopy
    <1>17. ASSUME NEW p \in Writers, Replace(p) PROVE ConfigInv'
        <2>1. /\ mem' \in [Writers -> SUBSET Settings]
              /\ stage' \in [Writers -> {"idle", "loaded", "edited", "kept", "open", "again", "merge"}]
              /\ \A q \in Writers : stage'[q] = "kept" => stage[q] = "kept" /\ q # p
            BY <1>0, <1>17, MovesTyped DEF Replace
        <2> QED BY <1>0, <1>17, <2>1, WholeAgain DEF Replace
    <1>18. ASSUME NEW p \in Writers, RemoveConfig(p) PROVE ConfigInv'
        <2>1. /\ mem' \in [Writers -> SUBSET Settings]
              /\ stage' \in [Writers -> {"idle", "loaded", "edited", "kept", "open", "again", "merge"}]
              /\ \A q \in Writers : stage'[q] = "kept" => stage[q] = "kept" /\ q # p
            BY <1>0, <1>18, MovesTyped DEF RemoveConfig
        <2>2. /\ configFile' = NoFile /\ careless' = (careless \/ p \in behind) /\ stage[p] = "kept"
              /\ UNCHANGED <<backups, safety, second, behind, lastWhole>>
            BY <1>18 DEF RemoveConfig, copies
        <2>3. KeptCopies' = KeptCopies BY <2>2 DEF KeptCopies
        <2>4. lastWhole \in KeptCopies \/ careless' BY <2>2 DEF ConfigInv, CopyInv
        <2>5. FileTyped' BY <1>0, <2>1, <2>2 DEF FileTyped
        <2> QED BY <2>2, <2>3, <2>4, <2>5 DEF ConfigInv, LastConfigSurvives, CopyInv
    <1>19. CASE TickSecond
        <2>1. second' \in 0..MaxSeconds BY <1>19, <1>b, ConfigAssumption DEF TickSecond
        <2> QED BY <1>0, <1>19, <2>1, FileKept DEF TickSecond, FileTyped, races
    <1>20. CASE UNCHANGED configVars
        <2>1. UNCHANGED <<configFile, copies, story, behind, second, mem, stage>> BY <1>20 DEF configVars, copies, story
        <2> QED BY <1>0, <1>b, <2>1, FileKept DEF FileTyped
    <1> QED BY <1>1, <1>2, <1>3, <1>4, <1>5, <1>6, <1>7, <1>8, <1>9, <1>10, <1>11, <1>12, <1>13, <1>14,
               <1>15, <1>16, <1>17, <1>18, <1>19, <1>20 DEF ConfigNext

\* Whatever dies in the middle of a write, the last configuration that was whole is in the file
\* or in a copy, unless a terminal or a wizard wrote, another wrote meanwhile, or one second saw
\* two copies of a kind: for every number of writers and settings.
THEOREM ConfigKept == ConfigSpec => []LastConfigSurvives
    <1>1. ConfigInit => ConfigInv
        <2> SUFFICES ASSUME ConfigInit PROVE ConfigInv OBVIOUS
        <2>1. 0 \in 0..MaxSeconds BY ConfigAssumption
        <2>2. safety \in [Stamped -> FileKinds] BY DEF ConfigInit, FileKinds
        <2>3. FileTyped BY <2>1, <2>2 DEF ConfigInit, FileTyped
        <2> QED BY <2>3 DEF ConfigInit, ConfigInv, LastConfigSurvives, CopyInv, WholeFile
    <1>2. ConfigInv => LastConfigSurvives BY DEF ConfigInv
    <1> QED BY <1>1, <1>2, ConfigInvNext, PTL DEF ConfigSpec
----------------------------------------------------------------------------
(* The wizard: the order of its steps, and what it knows at each. *)

\* The steps, and where each stands in the list.
StepNames == {Steps[i] : i \in 1..20}
Place(s) == CHOOSE i \in 1..20 : Steps[i] = s

\* The steps are different ones.
LEMMA StepsAre ==
    /\ Len(Steps) = 20
    /\ Place("banner") = 1 /\ Place("intro") = 2 /\ Place("agent_id") = 3 /\ Place("security") = 4
    /\ Place("existing") = 5 /\ Place("flow") = 6 /\ Place("qs_summary") = 7 /\ Place("provider") = 8
    /\ Place("method") = 9 /\ Place("run_auth") = 10 /\ Place("default_model") = 11 /\ Place("presets") = 12
    /\ Place("workspace") = 13 /\ Place("channels") = 14 /\ Place("search") = 15 /\ Place("summary") = 16
    /\ Place("health") = 17 /\ Place("outro") = 18 /\ Place("start_gateway") = 19 /\ Place("end") = 20
    /\ \A i \in 1..20 : Place(Steps[i]) = i
    BY DEF Steps, Place

\* Those after the choice of a provider, of its method, and of the agent's file.
LEMMA AfterIs ==
    /\ StepAfter("provider") = "method" /\ StepAfter("method") = "run_auth" /\ StepAfter("summary") = "health"
    BY StepsAre DEF StepAfter, Steps, Place

\* The step after one is the next of the list.
LEMMA NextStep ==
    ASSUME NEW s \in StepNames
    PROVE  /\ Place(s) \in 1..20 /\ Steps[Place(s)] = s /\ (Place(s) = 20 => s = "end")
           /\ Place(s) # 20 => StepAfter(s) \in StepNames /\ Place(StepAfter(s)) = Place(s) + 1
    <1>1. PICK i \in 1..20 : s = Steps[i] BY DEF StepNames
    <1>2. Place(s) = i BY <1>1, StepsAre
    <1>3. StepAfter(s) = Steps[Place(s) + 1] BY StepsAre DEF StepAfter, Place
    <1>4. i # 20 => i + 1 \in 1..20 OBVIOUS
    <1>5. i # 20 => Place(Steps[i + 1]) = i + 1 BY <1>4, StepsAre
    <1>6. Steps[20] = "end" BY DEF Steps
    <1> QED BY <1>1, <1>2, <1>3, <1>4, <1>5, <1>6 DEF StepNames

\* Steps w before a step p, in order.
LeadsTo(w, p) ==
    /\ w \in Seq(StepNames) /\ p \in StepNames
    /\ \A i \in 1..Len(w) : Place(w[i]) < Place(p)
    /\ \A i, j \in 1..Len(w) : i < j => Place(w[i]) < Place(w[j])

\* What the wizard returns to lies behind it, in order.
WalkInv == LeadsTo(walked, place)

\* What is known at a step: the method of the provider picked, where a login may be repeated,
\* and from the summary on that the user agreed, unless nothing is to be written.
KnowInv ==
    /\ Place(place) <= 9 => ctx.method = "none"
    /\ ctx.method # "none" => ctx.method \in ToSet(MethodsOf(ctx.auth))
    /\ place = "default_model" /\ ctx.auth # "skip" => walked # <<>> /\ Last(walked) = "run_auth"
    /\ Place(place) >= 17 /\ ~ctx.useExisting => confirmed # {}

\* What a draft, a file and the context are.
Drafts == [of : {"nobody", "defaults"} \cup WizAgents, edited : BOOLEAN]
Contexts == [agent : WizAgents, many : BOOLEAN, flow : {"manual", "quickstart"}, auth : ProviderOptions \cup {"none"},
             method : {"none", "browser-login", "api-key"}, useExisting : BOOLEAN, resetPending : BOOLEAN,
             draft : Drafts]
WizardTyped == ctx \in Contexts /\ configs \in [WizAgents -> Drafts]

\* The inductive invariant of the wizard.
WizardInv == WalkInv /\ KnowInv /\ WizardTyped /\ WizardSound

\* Steps lead to any later step, and with the one they lead to as well.
LEMMA LeadsOn ==
    ASSUME NEW w, NEW p, LeadsTo(w, p), NEW q \in StepNames, Place(p) < Place(q)
    PROVE  LeadsTo(w, q) /\ LeadsTo(Append(w, p), q)
    <1>1. w \in Seq(StepNames) /\ p \in StepNames /\ Len(w) \in Nat BY DEF LeadsTo
    <1>2. Place(p) \in 1..20 /\ Place(q) \in 1..20 BY <1>1, NextStep
    <1>3. ASSUME NEW i \in 1..Len(w) PROVE Place(w[i]) \in 1..20 /\ Place(w[i]) < Place(p) /\ Place(w[i]) < Place(q)
        <2>1. w[i] \in StepNames BY <1>1
        <2>2. Place(w[i]) \in 1..20 BY <2>1, NextStep
        <2>3. Place(w[i]) < Place(p) BY DEF LeadsTo
        <2> DEFINE a == Place(w[i])
                   b == Place(p)
                   c == Place(q)
        <2>4. a \in 1..20 /\ b \in 1..20 /\ c \in 1..20 /\ a < b /\ b < c BY <1>2, <2>2, <2>3
        <2>5. a < c
            <3> HIDE DEF a, b, c
            <3> QED BY <2>4
        <2> QED BY <2>4, <2>5
    <1>4. LeadsTo(w, q) BY <1>1, <1>3 DEF LeadsTo
    <1> DEFINE v == Append(w, p)
    <1>5. v \in Seq(StepNames) /\ Len(v) = Len(w) + 1 /\ v[Len(w) + 1] = p /\ \A i \in 1..Len(w) : v[i] = w[i]
        BY <1>1
    <1> HIDE DEF v
    <1>6. ASSUME NEW i \in 1..Len(v) PROVE Place(v[i]) < Place(q)
        <2>1. CASE i = Len(w) + 1 BY <1>5, <2>1
        <2>2. CASE i \in 1..Len(w) BY <1>3, <1>5, <2>2
        <2> QED BY <1>1, <1>5, <2>1, <2>2
    <1>7. ASSUME NEW i \in 1..Len(v), NEW j \in 1..Len(v), i < j PROVE Place(v[i]) < Place(v[j])
        <2>1. i \in 1..Len(w) BY <1>1, <1>5, <1>7
        <2>2. CASE j = Len(w) + 1 BY <1>3, <1>5, <2>1, <2>2
        <2>3. CASE j \in 1..Len(w) BY <1>5, <1>7, <2>1, <2>3 DEF LeadsTo
        <2> QED BY <1>1, <1>5, <2>2, <2>3
    <1>8. LeadsTo(v, q) BY <1>5, <1>6, <1>7 DEF LeadsTo
    <1> QED BY <1>4, <1>8 DEF v

\* A sequence without its last element.
LEMMA FrontIs ==
    ASSUME NEW D, NEW w \in Seq(D), w # <<>>
    PROVE  /\ Front(w) \in Seq(D) /\ Len(Front(w)) = Len(w) - 1 /\ Len(w) \in Nat \ {0}
           /\ Last(w) = w[Len(w)] /\ \A i \in 1..Len(Front(w)) : Front(w)[i] = w[i]
    <1>1. Len(w) \in Nat \ {0} OBVIOUS
    <1> DEFINE m == Len(w) - 1
    <1>2. m \in 0..Len(w) BY <1>1
    <1>3. SubSeq(w, 1, m) \in Seq(D) /\ Len(SubSeq(w, 1, m)) = m /\ \A i \in 1..m : SubSeq(w, 1, m)[i] = w[i]
        <2> HIDE DEF m
        <2> QED BY <1>1, <1>2
    <1> QED BY <1>1, <1>3 DEF Last, Front

\* Steps without the last of them lead to that.
LEMMA LeadsBack ==
    ASSUME NEW w, NEW p, LeadsTo(w, p), w # <<>>
    PROVE  LeadsTo(Front(w), Last(w)) /\ Place(Last(w)) < Place(p)
    <1> DEFINE v == Front(w)
    <1>0. w \in Seq(StepNames) BY DEF LeadsTo
    <1>1. w \in Seq(StepNames) /\ Len(w) \in Nat \ {0} BY <1>0, FrontIs
    <1>2. Last(w) = w[Len(w)] BY <1>0, FrontIs
    <1>3. v \in Seq(StepNames) /\ Len(v) = Len(w) - 1 /\ \A i \in 1..Len(v) : v[i] = w[i] BY <1>0, FrontIs
    <1> HIDE DEF v
    <1>4. 1..Len(v) \subseteq 1..Len(w) /\ (\A i \in 1..Len(v) : i < Len(w)) /\ Len(w) \in 1..Len(w) BY <1>1, <1>3
    <1>5. \A i \in 1..Len(v) : Place(v[i]) < Place(w[Len(w)]) BY <1>3, <1>4 DEF LeadsTo
    <1>6. \A i, j \in 1..Len(v) : i < j => Place(v[i]) < Place(v[j]) BY <1>3, <1>4 DEF LeadsTo
    <1>7. w[Len(w)] \in StepNames BY <1>1, <1>4
    <1>8. LeadsTo(v, w[Len(w)]) BY <1>3, <1>5, <1>6, <1>7 DEF LeadsTo
    <1> QED BY <1>2, <1>4, <1>8 DEF LeadsTo, v

\* However the wizard goes on, or back, it keeps its way.
LEMMA WalkKeeps ==
    ASSUME WalkInv,
           \/ place # "end" /\ (Continue \/ Skip)
           \/ Back
           \/ place = "existing" /\ Jump("outro")
           \/ UNCHANGED <<place, walked>>
    PROVE  WalkInv'
    <1>1. place \in StepNames /\ Place(place) \in 1..20 /\ (place # "end" => Place(place) # 20)
        BY NextStep DEF WalkInv, LeadsTo
    <1>2. CASE place # "end" /\ (Continue \/ Skip)
        <2>1. StepAfter(place) \in StepNames /\ Place(place) < Place(StepAfter(place))
            BY <1>1, <1>2, NextStep
        <2>2. place' = StepAfter(place) /\ (walked' = walked \/ walked' = Append(walked, place))
            BY <1>2 DEF Continue, Skip
        <2> QED BY <2>1, <2>2, LeadsOn DEF WalkInv
    <1>3. CASE place = "existing" /\ Jump("outro")
        <2>1. "outro" \in StepNames BY DEF StepNames, Steps
        <2>2. Place(place) < Place("outro") BY <1>3, StepsAre
        <2> QED BY <1>3, <2>1, <2>2, LeadsOn DEF WalkInv, Jump
    <1>4. CASE Back BY <1>4, LeadsBack DEF Back, WalkInv
    <1>5. CASE UNCHANGED <<place, walked>> BY <1>5 DEF WalkInv
    <1> QED BY <1>2, <1>3, <1>4, <1>5

\* Back goes to an earlier step, or stays.
LEMMA BackIs ==
    ASSUME WalkInv, Back
    PROVE  /\ place' \in StepNames /\ Place(place') \in 1..20 /\ Place(place') <= Place(place)
           /\ walked # <<>> => place' = Last(walked)
    <1>1. place \in StepNames /\ place' \in StepNames BY WalkKeeps DEF WalkInv, LeadsTo
    <1>2. Place(place) \in 1..20 /\ Place(place') \in 1..20 BY <1>1, NextStep
    <1>3. walked # <<>> => Place(place') < Place(place) BY LeadsBack DEF WalkInv, Back
    <1>4. walked = <<>> => place' = place BY DEF Back
    <1> QED BY SMTT(30), <1>1, <1>2, <1>3, <1>4 DEF Back

\* The methods a provider has.
LEMMA MethodsAre ==
    ASSUME NEW p, NEW m, MethodsOf(p) # <<>>,
           m = MethodsOf(p)[1] \/ \E i \in 1..Len(MethodsOf(p)) : MethodsOf(p)[i] = m
    PROVE  m \in ToSet(MethodsOf(p))
    BY DEF MethodsOf, ToSet

\* What a wizard may do at a step whose knowledge it takes along.
Draws ==
    \/ place \notin {"end", "summary"} /\ Continue
    \/ place \notin {"end", "summary"} /\ Skip /\ (place = "run_auth" => ctx.auth = "skip")
    \/ place \in {"agent_id", "provider", "method"} /\ Back
    \/ place = "default_model" /\ ctx.auth # "skip" /\ Back
    \/ UNCHANGED <<place, walked>>

\* Whoever moves so knows as much as before.
LEMMA KnowKeeps ==
    ASSUME WalkInv, KnowInv, Draws, UNCHANGED confirmed,
           ctx'.auth = ctx.auth, ctx'.method = ctx.method, ctx'.useExisting = ctx.useExisting
    PROVE  WalkInv' /\ KnowInv'
    <1>0. WalkInv' BY WalkKeeps DEF Draws
    <1>1. place \in StepNames /\ place' \in StepNames BY <1>0 DEF WalkInv, LeadsTo
    <1>2. Place(place) \in 1..20 /\ Place(place') \in 1..20 /\ Steps[Place(place)] = place /\ Steps[Place(place')] = place'
        BY <1>1, NextStep
    <1>3. ASSUME place \notin {"end", "summary"}, Continue \/ (Skip /\ (place = "run_auth" => ctx.auth = "skip"))
          PROVE  KnowInv'
        <2>1. place' = StepAfter(place) BY <1>3 DEF Continue, Skip
        <2>2. Place(place) # 20 /\ Place(place) # 16
            <3>1. Steps[20] = "end" /\ Steps[16] = "summary" BY DEF Steps
            <3> QED BY <1>2, <1>3, <3>1
        <2>3. Place(place') = Place(place) + 1 BY <1>1, <2>1, <2>2, NextStep
        <2>4. place' = "default_model" => place = "run_auth"
            <3>1. Steps[10] = "run_auth" BY DEF Steps
            <3> QED BY <1>2, <2>3, <3>1, StepsAre
        <2>5. ASSUME place' = "default_model", ctx.auth # "skip" PROVE walked' # <<>> /\ Last(walked') = "run_auth"
            <3>1. place = "run_auth" /\ walked' = Append(walked, place) BY <1>3, <2>4, <2>5 DEF Continue, Recorded
            <3>2. walked \in Seq(StepNames) BY DEF WalkInv, LeadsTo
            <3>3. Len(walked') = Len(walked) + 1 /\ walked'[Len(walked) + 1] = place /\ Len(walked) \in Nat
                BY <1>1, <3>1, <3>2
            <3> QED BY <3>1, <3>3 DEF Last
        <2> QED BY <1>2, <2>2, <2>3, <2>5 DEF KnowInv
    <1>4. ASSUME place \in {"agent_id", "provider", "method"}, Back PROVE KnowInv'
        <2>1. Place(place) <= 9 BY <1>4, StepsAre
        <2>2. Place(place') <= 9 /\ place' # "default_model" BY <1>2, <1>4, <2>1, BackIs, StepsAre
        <2> QED BY <1>2, <2>1, <2>2 DEF KnowInv
    <1>5. ASSUME place = "default_model", ctx.auth # "skip", Back PROVE KnowInv'
        <2>1. place' = "run_auth" BY <1>5, BackIs DEF KnowInv
        <2> QED BY <2>1, StepsAre DEF KnowInv
    <1>6. ASSUME UNCHANGED <<place, walked>> PROVE KnowInv'
        <2>1. Place(place') = Place(place) /\ Last(walked') = Last(walked) BY <1>6
        <2> QED BY <1>6, <2>1 DEF KnowInv
    <1> QED BY <1>0, <1>3, <1>4, <1>5, <1>6 DEF Draws

\* A move that writes no file and asks for no credential.
LEMMA MovesKeep ==
    ASSUME WizardInv, Draws, ctx' \in Contexts, UNCHANGED filesVars,
           ctx'.auth = ctx.auth, ctx'.method = ctx.method, ctx'.useExisting = ctx.useExisting
    PROVE  WizardInv'
    <1>1. UNCHANGED <<configs, renamed, before, authRuns, confirmed>> BY DEF filesVars
    <1>2. WalkInv' /\ KnowInv' BY <1>1, KnowKeeps DEF WizardInv
    <1>3. WizardTyped' BY <1>1 DEF WizardInv, WizardTyped
    <1>4. WizardSound' BY <1>1 DEF WizardInv, WizardSound, MethodFits, UnsavedKept
    <1> QED BY <1>2, <1>3, <1>4 DEF WizardInv

\* Steps that change nothing but the place.
LEMMA PlainSteps ==
    ASSUME WizardInv,
           \/ Cancel \/ Show \/ KeepAgent \/ WrongAgent \/ NoExisting \/ QuickStart \/ BackFrom("provider")
           \/ \E yes \in BOOLEAN : Acknowledge(yes)
           \/ NoMethods \/ BackToProvider \/ NoCredential \/ AuthFails \/ KeepCredential
           \/ BackToAuth \/ Discard \/ Health \/ StartGateway \/ NoGateway
    PROVE  WizardInv'
    <1>1. UNCHANGED <<ctx, filesVars>>
        BY DEF Cancel, Show, KeepAgent, WrongAgent, NoExisting, QuickStart, BackFrom, Acknowledge, NoMethods,
               BackToProvider, NoCredential, AuthFails, KeepCredential, BackToAuth, Discard, Health, StartGateway, NoGateway
    <1>2. Draws
        BY DEF Cancel, Show, KeepAgent, WrongAgent, NoExisting, QuickStart, BackFrom, Acknowledge, NoMethods,
               BackToProvider, NoCredential, AuthFails, KeepCredential, BackToAuth, Discard, Health, StartGateway, NoGateway,
               Draws, OnStep, Abort
    <1> QED BY <1>1, <1>2, MovesKeep DEF WizardInv, WizardTyped

\* Steps that edit the draft, choose the flow or the agent.
LEMMA EditSteps ==
    ASSUME WizardInv,
           \/ \E a \in WizAgents : PickAgent(a)
           \/ UpdateExisting
           \/ \E f \in {"quickstart", "manual"} : PickFlow(f)
           \/ Workspace
           \/ \E edits \in BOOLEAN : DefaultModel(edits) \/ Presets(edits) \/ Channels(edits) \/ SearchProvider(edits)
    PROVE  WizardInv'
    <1>1. ctx \in Contexts /\ configs \in [WizAgents -> Drafts] BY DEF WizardInv, WizardTyped
    <1>2. ASSUME NEW s, NEW edits, Decide(s, edits), s \notin {"end", "summary"} PROVE WizardInv'
        <2>1. Kept(edits) \in Drafts BY <1>1 DEF Kept, Edited, Contexts, Drafts
        <2>2. ctx' = [ctx EXCEPT !.draft = Kept(edits)] /\ UNCHANGED filesVars /\ Draws
            BY <1>2 DEF Decide, Draws, OnStep
        <2>3. /\ ctx' \in Contexts /\ ctx'.auth = ctx.auth /\ ctx'.method = ctx.method
              /\ ctx'.useExisting = ctx.useExisting
            BY <1>1, <2>1, <2>2 DEF Contexts
        <2> QED BY <2>2, <2>3, MovesKeep
    <1>3. ASSUME NEW s, Passed(s), s \notin {"end", "summary", "run_auth"} PROVE WizardInv'
        <2>1. UNCHANGED <<ctx, filesVars>> /\ Draws BY <1>3 DEF Passed, Draws, OnStep
        <2> QED BY <1>1, <2>1, MovesKeep
    <1>4. ASSUME NEW a \in WizAgents, PickAgent(a) PROVE WizardInv'
        <2>1. ctx' = [ctx EXCEPT !.agent = a] /\ UNCHANGED filesVars /\ Draws BY <1>4 DEF PickAgent, Draws, OnStep
        <2>2. ctx' \in Contexts /\ ctx'.auth = ctx.auth /\ ctx'.method = ctx.method /\ ctx'.useExisting = ctx.useExisting
            BY <1>1, <2>1 DEF Contexts
        <2> QED BY <2>1, <2>2, MovesKeep
    <1>5. ASSUME UpdateExisting PROVE WizardInv'
        <2>1. ctx' = [ctx EXCEPT !.draft = configs[ctx.agent]] /\ UNCHANGED filesVars /\ Draws
            BY <1>5 DEF UpdateExisting, Draws, OnStep
        <2>2. ctx' \in Contexts /\ ctx'.auth = ctx.auth /\ ctx'.method = ctx.method /\ ctx'.useExisting = ctx.useExisting
            BY <1>1, <2>1 DEF Contexts
        <2> QED BY <2>1, <2>2, MovesKeep
    <1>6. ASSUME NEW f \in {"quickstart", "manual"}, PickFlow(f) PROVE WizardInv'
        <2>1. ctx' = [ctx EXCEPT !.flow = f] /\ UNCHANGED filesVars /\ Draws BY <1>6 DEF PickFlow, Draws, OnStep
        <2>2. ctx' \in Contexts /\ ctx'.auth = ctx.auth /\ ctx'.method = ctx.method /\ ctx'.useExisting = ctx.useExisting
            BY <1>1, <2>1 DEF Contexts
        <2> QED BY <2>1, <2>2, MovesKeep
    <1>7. CASE Workspace BY <1>2, <1>7 DEF Workspace
    <1>8. ASSUME NEW edits \in BOOLEAN, DefaultModel(edits) \/ Presets(edits) \/ Channels(edits) \/ SearchProvider(edits)
          PROVE  WizardInv'
        BY <1>2, <1>3, <1>8 DEF DefaultModel, Presets, Channels, SearchProvider
    <1> QED BY <1>4, <1>5, <1>6, <1>7, <1>8

\* The login, and the choices it depends on.
LEMMA AuthSteps ==
    ASSUME WizardInv,
           \/ \E p \in ProviderOptions : ChooseProvider(p)
           \/ \E m \in {"browser-login", "api-key"} : PickMethod(m)
           \/ RunAuth
    PROVE  WizardInv'
    <1>1. ctx \in Contexts /\ configs \in [WizAgents -> Drafts] BY DEF WizardInv, WizardTyped
    <1>2. WalkInv /\ KnowInv /\ WizardSound BY DEF WizardInv
    <1>3. ASSUME NEW p \in ProviderOptions, ChooseProvider(p) PROVE WizardInv'
        <2>1. place = "provider" /\ ctx' = [ctx EXCEPT !.auth = p] /\ Continue /\ UNCHANGED filesVars
            BY <1>3 DEF ChooseProvider, OnStep
        <2>2. place' = "method" /\ place \in StepNames BY <1>2, <2>1, AfterIs DEF Continue, WalkInv, LeadsTo
        <2>3. ctx.method = "none" BY <1>2, <2>1, StepsAre DEF KnowInv
        <2>4. ctx' \in Contexts /\ ctx'.method = "none" BY <1>1, <2>1, <2>3 DEF Contexts
        <2>5. WalkInv' BY <1>2, <2>1, WalkKeeps
        <2>6. KnowInv' BY <2>2, <2>4, StepsAre DEF KnowInv
        <2>7. WizardTyped' /\ WizardSound'
            BY <1>1, <1>2, <2>1, <2>4 DEF filesVars, WizardTyped, WizardSound, MethodFits, UnsavedKept
        <2> QED BY <2>5, <2>6, <2>7 DEF WizardInv
    <1>4. ASSUME NEW m \in {"browser-login", "api-key"}, PickMethod(m) PROVE WizardInv'
        <2>1. /\ place = "method" /\ ctx' = [ctx EXCEPT !.method = m] /\ Continue /\ UNCHANGED filesVars
              /\ \E i \in 1..Len(MethodsOf(ctx.auth)) : MethodsOf(ctx.auth)[i] = m
            BY <1>4 DEF PickMethod, OnStep
        <2>2. place' = "run_auth" BY <2>1, AfterIs DEF Continue
        <2>3. ctx' \in Contexts /\ ctx'.method = m /\ ctx'.auth = ctx.auth BY <1>1, <2>1 DEF Contexts
        <2>4. m \in ToSet(MethodsOf(ctx.auth))
            <3>1. MethodsOf(ctx.auth) # <<>> BY <2>1
            <3> QED BY <2>1, <3>1, MethodsAre
        <2>5. WalkInv' BY <1>2, <2>1, WalkKeeps
        <2>6. KnowInv' BY <2>2, <2>3, <2>4, StepsAre DEF KnowInv
        <2>7. WizardTyped' /\ WizardSound'
            BY <1>1, <1>2, <2>1, <2>3 DEF filesVars, WizardTyped, WizardSound, MethodFits, UnsavedKept
        <2> QED BY <2>5, <2>6, <2>7 DEF WizardInv
    <1>5. ASSUME RunAuth PROVE WizardInv'
        <2>1. /\ place = "run_auth" /\ authRuns' = authRuns \cup {[provider |-> ctx.auth, method |-> Method]}
              /\ ctx' = (IF Method = "browser-login" THEN ctx ELSE [ctx EXCEPT !.draft = Edited(@)])
              /\ Continue /\ UNCHANGED <<configs, renamed, before, confirmed>>
            BY <1>5 DEF RunAuth, OnStep
        <2>2. Edited(ctx.draft) \in Drafts BY <1>1 DEF Edited, Contexts, Drafts
        <2>3. /\ ctx' \in Contexts /\ ctx'.auth = ctx.auth /\ ctx'.method = ctx.method
              /\ ctx'.useExisting = ctx.useExisting
            BY <1>1, <2>1, <2>2 DEF Contexts
        <2>4. WalkInv' /\ KnowInv'
            <3>1. Draws BY <2>1 DEF Draws
            <3> QED BY <1>2, <2>1, <2>3, <3>1, KnowKeeps
        <2>5. Method \in (IF MethodsOf(ctx.auth) = <<>> THEN {"api-key"} ELSE ToSet(MethodsOf(ctx.auth)))
            <3>1. CASE ctx.method # "none"
                <4>1. Method = ctx.method /\ ctx.method \in ToSet(MethodsOf(ctx.auth)) BY <1>2, <3>1 DEF Method, KnowInv
                <4>2. MethodsOf(ctx.auth) # <<>> BY <4>1 DEF ToSet
                <4> QED BY <4>1, <4>2
            <3>2. CASE ctx.method = "none" /\ MethodsOf(ctx.auth) = <<>> BY <3>2 DEF Method
            <3>3. CASE ctx.method = "none" /\ MethodsOf(ctx.auth) # <<>> BY <3>3, MethodsAre DEF Method
            <3> QED BY <3>1, <3>2, <3>3
        <2>6. MethodFits' BY <1>2, <2>1, <2>5 DEF WizardSound, MethodFits
        <2>7. UnsavedKept' BY <1>2, <2>1 DEF WizardSound, UnsavedKept
        <2>8. WizardTyped' BY <1>1, <2>1, <2>3 DEF WizardTyped
        <2> QED BY <2>4, <2>6, <2>7, <2>8 DEF WizardInv, WizardSound
    <1> QED BY <1>3, <1>4, <1>5

\* What begins outside the list, or ends it: the existing file, the summary, the command's own save.
LEMMA FileSteps ==
    ASSUME WizardInv,
           \/ \E a \in WizAgents : CreateAgent(a)
           \/ UseExisting \/ Reset \/ Save \/ SaveFails \/ Conclude
    PROVE  WizardInv'
    <1>1. ctx \in Contexts /\ configs \in [WizAgents -> Drafts] BY DEF WizardInv, WizardTyped
    <1>2. WalkInv /\ KnowInv /\ WizardSound BY DEF WizardInv
    <1>3. Defaults \in Drafts /\ Absent \in Drafts BY DEF Defaults, Absent, Drafts
    <1>4. ctx.agent \in WizAgents /\ ctx.draft \in Drafts BY <1>1 DEF Contexts
    <1>5. ASSUME NEW a \in WizAgents, CreateAgent(a) PROVE WizardInv'
        <2>1. /\ configs[a] = Absent /\ configs' = [configs EXCEPT ![a] = Defaults]
              /\ ctx' = [ctx EXCEPT !.agent = a] /\ Draws /\ UNCHANGED <<renamed, before, authRuns, confirmed>>
            BY <1>5 DEF CreateAgent, Draws, OnStep
        <2>2. ctx' \in Contexts /\ ctx'.auth = ctx.auth /\ ctx'.method = ctx.method /\ ctx'.useExisting = ctx.useExisting
            BY <1>1, <2>1 DEF Contexts
        <2>3. WalkInv' /\ KnowInv' BY <1>2, <2>1, <2>2, KnowKeeps
        <2>4. WizardTyped' BY <1>1, <1>3, <2>1, <2>2 DEF WizardTyped
        <2>5. WizardSound' BY <1>1, <1>2, <2>1 DEF WizardSound, MethodFits, UnsavedKept
        <2> QED BY <2>3, <2>4, <2>5 DEF WizardInv
    <1>6. ASSUME UseExisting PROVE WizardInv'
        <2>1. /\ place = "existing" /\ Jump("outro") /\ UNCHANGED filesVars
              /\ ctx' = [ctx EXCEPT !.draft = configs[ctx.agent], !.useExisting = TRUE]
            BY <1>6 DEF UseExisting, OnStep
        <2>2. ctx' \in Contexts /\ ctx'.auth = ctx.auth /\ ctx'.method = ctx.method /\ ctx'.useExisting = TRUE
            BY <1>1, <1>4, <2>1 DEF Contexts
        <2>3. WalkInv' BY <1>2, <2>1, WalkKeeps
        <2>4. place' = "outro" BY <2>1 DEF Jump
        <2>5. KnowInv' BY <1>2, <2>1, <2>2, <2>4, StepsAre DEF KnowInv
        <2>6. WizardTyped' /\ WizardSound'
            BY <1>1, <1>2, <2>1, <2>2 DEF filesVars, WizardTyped, WizardSound, MethodFits, UnsavedKept
        <2> QED BY <2>3, <2>5, <2>6 DEF WizardInv
    <1>7. ASSUME Reset PROVE WizardInv'
        <2>1. /\ ctx' = [ctx EXCEPT !.draft = Defaults, !.resetPending = TRUE]
              /\ Draws /\ UNCHANGED <<configs, renamed, before, authRuns, confirmed>>
            BY <1>7 DEF Reset, AtReset, Draws, OnStep
        <2>2. ctx' \in Contexts /\ ctx'.auth = ctx.auth /\ ctx'.method = ctx.method /\ ctx'.useExisting = ctx.useExisting
            BY <1>1, <1>3, <2>1 DEF Contexts
        <2> QED BY <2>1, <2>2, MovesKeep DEF filesVars
    <1>8. ASSUME Save PROVE WizardInv'
        <2>1. /\ place = "summary" /\ configs' = [configs EXCEPT ![ctx.agent] = ctx.draft]
              /\ confirmed' = confirmed \cup {ctx.agent} /\ ctx' = [ctx EXCEPT !.useExisting = FALSE]
              /\ Continue /\ UNCHANGED <<before, authRuns>>
            BY <1>8 DEF Save, OnStep
        <2>2. ctx' \in Contexts /\ ctx'.auth = ctx.auth /\ ctx'.method = ctx.method BY <1>1, <2>1 DEF Contexts
        <2>3. WalkInv' /\ place' = "health" BY <1>2, <2>1, WalkKeeps, AfterIs DEF Continue
        <2>4. confirmed' # {} BY <2>1
        <2>5. KnowInv' BY <1>2, <2>1, <2>2, <2>3, <2>4, StepsAre DEF KnowInv
        <2>6. WizardTyped' BY <1>1, <1>4, <2>1, <2>2 DEF WizardTyped
        <2>7. WizardSound' BY <1>2, <2>1, <2>4 DEF WizardSound, MethodFits, UnsavedKept
        <2> QED BY <2>3, <2>5, <2>6, <2>7 DEF WizardInv
    <1>9. ASSUME SaveFails PROVE WizardInv'
        <2>1. /\ renamed' = Renamed /\ UNCHANGED <<place, walked, ctx, before, authRuns, confirmed>>
              /\ configs' = IF SetAside THEN [configs EXCEPT ![ctx.agent] = Absent] ELSE configs
            BY <1>9 DEF SaveFails, Abort
        <2>2. WalkInv' /\ KnowInv' BY <1>2, <2>1, KnowKeeps DEF Draws
        <2>3. WizardTyped' BY <1>1, <1>3, <1>4, <2>1 DEF WizardTyped
        <2>4. UnsavedKept' BY <1>1, <1>2, <1>4, <2>1 DEF WizardSound, UnsavedKept, Renamed, SetAside
        <2>5. MethodFits' BY <1>2, <2>1 DEF WizardSound, MethodFits
        <2> QED BY <2>2, <2>3, <2>4, <2>5 DEF WizardInv, WizardSound
    <1>10. ASSUME Conclude PROVE WizardInv'
        <2>1. /\ place = "end" /\ UNCHANGED <<place, walked, ctx, renamed, before, authRuns, confirmed>>
              /\ configs' = IF ctx.useExisting THEN configs ELSE [configs EXCEPT ![FirstAgent] = ctx.draft]
            BY <1>10 DEF Conclude, OnStep
        <2>2. WalkInv' /\ KnowInv' BY <1>2, <2>1, KnowKeeps DEF Draws
        <2>3. ~ctx.useExisting => confirmed # {} BY <1>2, <2>1, StepsAre DEF KnowInv
        <2>4. WizardTyped' BY <1>1, <1>4, <2>1 DEF WizardTyped
        <2>5. WizardSound' BY <1>2, <2>1, <2>3 DEF WizardSound, MethodFits, UnsavedKept
        <2> QED BY <2>2, <2>4, <2>5 DEF WizardInv
    <1> QED BY <1>5, <1>6, <1>7, <1>8, <1>9, <1>10

\* A credential is asked for in a way the provider has, and until the user confirms the summary the
\* settings of every agent are in its file or in a renamed one: however the user goes back and forth,
\* for every number of agents.
THEOREM WizardKept == WizardSpec => []WizardSound
    <1>1. WizardInit => WizardInv
        <2> SUFFICES ASSUME WizardInit PROVE WizardInv OBVIOUS
        <2>1. place = "banner" /\ walked = <<>> /\ authRuns = {} /\ confirmed = {} /\ before = configs
            BY DEF WizardInit, WalkBegins
        <2>2. PICK many \in BOOLEAN : ctx = NewContext(many, IF ActiveConfig = Absent THEN Defaults ELSE ActiveConfig)
            BY DEF WizardInit
        <2>3. configs \in [WizAgents -> Drafts]
            <3>1. Absent \in Drafts /\ \A a \in WizAgents : Own(a) \in Drafts BY DEF Absent, Own, Drafts
            <3>2. configs \in [WizAgents -> {Absent} \cup {Own(a) : a \in WizAgents}] BY DEF WizardInit
            <3> QED BY <3>1, <3>2
        <2>4. Defaults \in Drafts /\ FirstAgent \in WizAgents BY WizardAssumption DEF Defaults, Drafts
        <2>5. ctx \in Contexts /\ ctx.method = "none" BY <2>2, <2>3, <2>4 DEF NewContext, ActiveConfig, Contexts
        <2>6. WalkInv BY <2>1 DEF WalkInv, LeadsTo, StepNames, Steps
        <2>7. KnowInv BY <2>1, <2>5, StepsAre DEF KnowInv
        <2>8. WizardSound BY <2>1 DEF WizardSound, MethodFits, UnsavedKept
        <2> QED BY <2>3, <2>5, <2>6, <2>7, <2>8 DEF WizardInv, WizardTyped
    <1>2. WizardInv /\ [WizardNext]_wizardVars => WizardInv'
        <2> SUFFICES ASSUME WizardInv, [WizardNext]_wizardVars PROVE WizardInv' OBVIOUS
        <2>1. CASE UNCHANGED wizardVars
            BY <2>1 DEF wizardVars, WizardInv, WalkInv, KnowInv, WizardTyped, WizardSound, MethodFits, UnsavedKept
        <2>2. CASE WizardNext BY <2>2, PlainSteps, EditSteps, AuthSteps, FileSteps DEF WizardNext
        <2> QED BY <2>1, <2>2
    <1>3. WizardInv => WizardSound BY DEF WizardInv
    <1> QED BY <1>1, <1>2, <1>3, PTL DEF WizardSpec
----------------------------------------------------------------------------
(* The update check: the lock around a download, and the mark of what was announced. *)

LEMMA GreatestNumber ==
    ASSUME NEW n \in Nat, NEW S \in SUBSET (1..n), S # {}
    PROVE  \E i \in S : \A j \in S : j <= i
    <1> DEFINE T == {n - i : i \in S}
    <1>1. T \in SUBSET Nat /\ T # {}
        <2>1. \A i \in S : n - i \in Nat OBVIOUS
        <2> QED BY <2>1
    <1>2. PICK t \in T : \A u \in T : t <= u
        <2> HIDE DEF T
        <2> QED BY <1>1, LeastNumber
    <1>3. PICK i \in S : t = n - i BY <1>2
    <1>4. \A j \in S : n - i <= n - j BY <1>2, <1>3
    <1>5. \A j \in S : j <= i BY <1>4
    <1> QED BY <1>5

\* The greatest of a set of versions, or 0.
Greatest(S) == IF S = {} THEN 0 ELSE CHOOSE v \in S : \A w \in S : w <= v

LEMMA GreatestIs ==
    ASSUME NEW n \in Nat, NEW S \in SUBSET (1..n)
    PROVE  Greatest(S) \in 0..n /\ (\A v \in S : v <= Greatest(S)) /\ (Greatest(S) # 0 => Greatest(S) \in S)
    <1>1. CASE S = {} BY <1>1 DEF Greatest
    <1>2. CASE S # {}
        <2>1. \E i \in S : \A j \in S : j <= i BY <1>2, GreatestNumber
        <2>2. Greatest(S) = CHOOSE v \in S : \A w \in S : w <= v BY <1>2 DEF Greatest
        <2>3. Greatest(S) \in S /\ \A w \in S : w <= Greatest(S) BY <2>1, <2>2
        <2>4. Greatest(S) \in 1..n BY <2>3
        <2> QED BY <2>3, <2>4
    <1> QED BY <1>1, <1>2

\* What a process knows, and is.
Infos == [current : Nat, latest : Nat, ok : BOOLEAN, yanked : BOOLEAN, told : Nat, fresh : BOOLEAN]
Spots == {"gone", "check", "fetch", "decide", "ask", "lock", "download", "verify", "install", "after"}
Processes == [at : Spots, kind : {"agent", "gateway", "update", "upgrade"}, mine : Nat, know : Infos, was : Nat, target : Nat]

UpdateTyped ==
    /\ newest \in Versions /\ withdrawn \subseteq 1..newest /\ installed \in Nat
    /\ cache \in Infos /\ cli \in [Clis -> Processes] /\ excused \in BOOLEAN
    /\ announced \in [0..MaxRelease -> Nat]

\* Who downloads and installs holds the lock, and what is installed was verified.
LockedInv ==
    \A c \in Clis :
        /\ cli[c].at \in {"download", "verify", "install"} => lockedBy = c
        /\ cli[c].at = "install" /\ InstallMethod \in Downloaded => asset = "good"

\* Until a mark was lost: no version is above the last that was announced unless it is news; what the
\* cache and a process about to decide know is no newer than the index, no older than the mark.
MarkInv ==
    /\ cache.told <= cache.latest /\ cache.latest <= Latest
    /\ \A c \in Clis : cli[c].at = "decide" =>
          cli[c].know.told = cache.told /\ cache.told <= cli[c].know.latest /\ cli[c].know.latest <= cache.latest
    /\ \A v \in Versions : announced[v] <= 1 /\ (announced[v] = 1 => v <= cache.told)

UpdateInv == UpdateTyped /\ LockedInv /\ (~excused => MarkInv) /\ InstalledIsVerified

\* The index goes on: unless the latest version is withdrawn, it only grows.
LEMMA IndexKeeps ==
    ASSUME UpdateTyped, MarkInv, UNCHANGED <<cache, cli, announced>>,
           \/ newest' = newest + 1 /\ UNCHANGED withdrawn
           \/ \E v \in Acceptable : v # Latest /\ withdrawn' = withdrawn \cup {v} /\ UNCHANGED newest
    PROVE  MarkInv'
    <1>1. newest \in Nat /\ newest' \in Nat BY DEF UpdateTyped, Versions
    <1>2. Acceptable \in SUBSET (1..newest) /\ Acceptable' \in SUBSET (1..newest') BY DEF Acceptable
    <1>3. Latest = Greatest(Acceptable) /\ Latest' = Greatest(Acceptable') BY DEF Latest, Greatest
    <1>4. Latest \in Nat /\ (Latest # 0 => Latest \in Acceptable) BY <1>1, <1>2, <1>3, GreatestIs
    <1>5. Latest' \in Nat /\ \A v \in Acceptable' : v <= Latest' BY <1>1, <1>2, <1>3, GreatestIs
    <1>6. Latest # 0 => Latest \in Acceptable' BY <1>1, <1>2, <1>4 DEF Acceptable
    <1>7. Latest <= Latest' BY <1>4, <1>5, <1>6
    <1>8. cache.latest \in Nat BY DEF UpdateTyped, Infos
    <1>9. cache.latest <= Latest' BY <1>4, <1>5, <1>7, <1>8 DEF MarkInv
    <1> QED BY <1>9 DEF MarkInv

\* A process moves on, other than to deciding, and the cache stays: the marks stay.
LEMMA MarkMoves ==
    ASSUME UpdateTyped, MarkInv, NEW c \in Clis, NEW r, cli' = [cli EXCEPT ![c] = r], r.at # "decide",
           UNCHANGED <<newest, withdrawn, cache, announced>>
    PROVE  MarkInv'
    <1>1. Latest' = Latest BY DEF Latest, Acceptable
    <1>2. \A d \in Clis : cli'[d] = (IF d = c THEN r ELSE cli[d]) BY DEF UpdateTyped
    <1> QED BY <1>1, <1>2 DEF MarkInv

\* The lock and the file: who moves holds the lock where it must, and takes it from nobody.
LEMMA LockMoves ==
    ASSUME UpdateTyped, LockedInv, NEW c \in Clis, NEW r, cli' = [cli EXCEPT ![c] = r], UNCHANGED host,
           r.at \in {"download", "verify", "install"} => lockedBy' = c,
           r.at = "install" /\ InstallMethod \in Downloaded => asset' = "good",
           UNCHANGED lockedBy \/ (lockedBy \in {0, c} /\ lockedBy' \in {0, c}),
           UNCHANGED asset \/ lockedBy = c
    PROVE  LockedInv'
    <1>1. \A d \in Clis : cli'[d] = (IF d = c THEN r ELSE cli[d]) BY DEF UpdateTyped
    <1>2. InstallMethod' = InstallMethod BY DEF InstallMethod, FrozenMethod
    <1>3. 0 \notin Clis BY UpdateAssumption
    <1>4. SUFFICES ASSUME NEW d \in Clis
                   PROVE  /\ cli'[d].at \in {"download", "verify", "install"} => lockedBy' = d
                          /\ cli'[d].at = "install" /\ InstallMethod \in Downloaded => asset' = "good"
        BY <1>2 DEF LockedInv, Downloaded, NativeMethods
    <1>5. CASE d = c BY <1>1, <1>5
    <1>6. CASE d # c
        <2>1. cli'[d] = cli[d] BY <1>1, <1>6
        <2>2. cli[d].at \in {"download", "verify", "install"} => lockedBy = d BY DEF LockedInv
        <2>3. cli[d].at = "install" /\ InstallMethod \in Downloaded => asset = "good" BY DEF LockedInv
        <2> QED BY <1>3, <1>6, <2>1, <2>2, <2>3
    <1> QED BY <1>5, <1>6

\* A process moves on, other than to deciding.
LEMMA ProcessMoves ==
    ASSUME UpdateInv, NEW c \in Clis, NEW r \in Processes, cli' = [cli EXCEPT ![c] = r], r.at # "decide",
           UNCHANGED <<newest, withdrawn, host, cache, announced, excused>>,
           r.at \in {"download", "verify", "install"} => lockedBy' = c,
           r.at = "install" /\ InstallMethod \in Downloaded => asset' = "good",
           UNCHANGED lockedBy \/ (lockedBy \in {0, c} /\ lockedBy' \in {0, c}),
           UNCHANGED asset \/ lockedBy = c,
           ranOn' \subseteq {"good"}, installed' \in Nat
    PROVE  UpdateInv'
    <1>1. UpdateTyped /\ LockedInv /\ (~excused => MarkInv) BY DEF UpdateInv
    <1>3. UpdateTyped' BY <1>1 DEF UpdateTyped
    <1>5. LockedInv' BY <1>1, LockMoves
    <1>6. ~excused' => MarkInv' BY <1>1, MarkMoves
    <1> QED BY <1>3, <1>5, <1>6 DEF UpdateInv, InstalledIsVerified

LEMMA GotoMoves ==
    ASSUME UpdateTyped, NEW c \in Clis, NEW s \in Spots, Goto(c, s)
    PROVE  \E r \in Processes : cli' = [cli EXCEPT ![c] = r] /\ r.at = s
    <1>1. cli[c] \in Processes BY DEF UpdateTyped
    <1>2. NoProcess \in Processes /\ NoProcess.at = "gone" BY DEF NoProcess, Processes, Spots, Nothing, Infos
    <1>3. [cli[c] EXCEPT !.at = s] \in Processes /\ [cli[c] EXCEPT !.at = s].at = s BY <1>1 DEF Processes
    <1>4. CASE s = "gone" BY <1>2, <1>4 DEF Goto
    <1>5. CASE s # "gone"
        <2>1. cli' = [cli EXCEPT ![c] = [cli[c] EXCEPT !.at = s]] BY <1>5 DEF Goto
        <2> QED BY <1>3, <2>1
    <1> QED BY <1>4, <1>5

\* The steps that neither decide nor announce.
LEMMA OtherSteps ==
    ASSUME UpdateInv, NEW c \in Clis,
           \/ \E kind \in {"agent", "gateway", "update", "upgrade"}, target \in 0 .. newest :
                Start(c, kind, target)
           \/ Ask(c) \/ Silent(c) \/ UpdateEnds(c)
           \/ \E yes \in BOOLEAN : Reply(c, yes) \/ Confirm(c, yes)
           \/ TakeLock(c) \/ LockTaken(c) \/ Download(c) \/ Verified(c)
           \/ \E left \in {"none", "part"} : DownloadFails(c, left)
           \/ Install(c) \/ InstallFails(c) \/ Restart(c) \/ StaysOff(c)
    PROVE  UpdateInv'
    <1> DEFINE Fixed == UNCHANGED <<newest, withdrawn, host, cache, announced, excused>>
               Steady  == UNCHANGED <<lockedBy, asset, ranOn>> /\ installed' \in Nat
               Idle  == {"gone", "check", "fetch", "ask", "lock", "after"}
    <1>0. /\ UpdateTyped /\ LockedInv /\ ranOn \subseteq {"good"} /\ cli[c] \in Processes
          /\ installed \in Nat /\ newest \in Nat /\ cache.told \in Nat
        BY DEF UpdateInv, InstalledIsVerified, UpdateTyped, Versions, Infos
    <1>1. ASSUME Fixed, Steady, NEW s \in Idle, Goto(c, s) PROVE UpdateInv'
        <2>1. s \in Spots BY DEF Spots
        <2>2. PICK r \in Processes : cli' = [cli EXCEPT ![c] = r] /\ r.at = s BY <1>0, <1>1, <2>1, GotoMoves
        <2> QED BY <1>0, <1>1, <2>2, ProcessMoves
    <1>2. ASSUME Fixed, Steady, NEW r \in Processes, r.at \in Idle, cli' = [cli EXCEPT ![c] = r] PROVE UpdateInv'
        BY <1>0, <1>2, ProcessMoves
    <1>3. ASSUME NEW v \in Nat, NEW kind \in {"agent", "gateway", "update", "upgrade"}, NEW t \in Nat
          PROVE  Process(kind, t, v) \in Processes /\ Process(kind, t, v).at = "check"
        BY DEF Process, NoProcess, Processes, Spots, Nothing, Infos
    <1>4. ASSUME NEW kind \in {"agent", "gateway", "update", "upgrade"}, NEW target \in 0 .. newest,
                 Start(c, kind, target)
          PROVE  UpdateInv'
        <2>1. Fixed /\ Steady /\ cli' = [cli EXCEPT ![c] = Process(kind, target, installed)]
            BY <1>0, <1>4 DEF Start, indexVars, tellVars, runVars
        <2>2. target \in Nat BY <1>0
        <2>3. Process(kind, target, installed) \in Processes /\ Process(kind, target, installed).at = "check" BY <1>0, <1>3, <2>2
        <2> HIDE DEF Fixed, Steady
        <2> QED BY <1>2, <2>1, <2>3
    <1>5. CASE Restart(c)
        <2>1. Fixed /\ Steady /\ cli' = [cli EXCEPT ![c] = Process(cli[c].kind, cli[c].target, installed)]
            BY <1>0, <1>5 DEF Restart, indexVars, tellVars, runVars
        <2>2. cli[c].kind \in {"agent", "gateway", "update", "upgrade"} /\ cli[c].target \in Nat BY <1>0 DEF Processes
        <2>3. Process(cli[c].kind, cli[c].target, installed) \in Processes /\ Process(cli[c].kind, cli[c].target, installed).at = "check" BY SMTT(30), <1>0, <1>3, <2>2
        <2> HIDE DEF Fixed, Steady
        <2> QED BY <1>2, <2>1, <2>3
    <1>6. CASE Ask(c)
        <2> DEFINE r == [cli[c] EXCEPT !.was = Carried(c), !.at = "fetch"]
        <2>1. Carried(c) \in Nat BY <1>0 DEF Carried
        <2>2. r \in Processes /\ r.at = "fetch" BY <1>0, <2>1 DEF Processes, Spots
        <2>3. cli' = [cli EXCEPT ![c] = r] BY <1>6 DEF Ask
        <2>4. Fixed /\ Steady BY <1>0, <1>6 DEF Ask, indexVars, tellVars, runVars
        <2> HIDE DEF r, Fixed, Steady
        <2> QED BY <1>2, <2>2, <2>3, <2>4
    <1>7. CASE Silent(c)
        BY <1>0, <1>1, <1>7 DEF Silent, indexVars, tellVars, runVars
    <1>8. CASE UpdateEnds(c)
        BY <1>0, <1>1, <1>8 DEF UpdateEnds, indexVars, tellVars, runVars
    <1>9. ASSUME NEW yes \in BOOLEAN, Reply(c, yes) \/ Confirm(c, yes) PROVE UpdateInv'
        <2>1. Fixed /\ Steady /\ Goto(c, IF yes THEN "lock" ELSE "gone")
            BY <1>0, <1>9 DEF Reply, Confirm, indexVars, tellVars, runVars
        <2> HIDE DEF Fixed, Steady
        <2> QED BY <1>1, <2>1
    <1>10. CASE LockTaken(c)
        BY <1>0, <1>1, <1>10 DEF LockTaken, indexVars, tellVars, runVars
    <1>11. CASE StaysOff(c)
        BY <1>0, <1>1, <1>11 DEF StaysOff, indexVars, tellVars, runVars
    <1>12. CASE TakeLock(c)
        <2>1. Fixed /\ lockedBy = 0 /\ lockedBy' = c /\ UNCHANGED <<asset, ranOn, installed>>
              /\ Goto(c, IF InstallMethod \in Downloaded THEN "download" ELSE "install")
            BY <1>12 DEF TakeLock, LockFree, indexVars, tellVars, runVars
        <2>2. PICK s \in {"download", "install"} : Goto(c, s) /\ (s = "install" => InstallMethod \notin Downloaded) BY <2>1
        <2>3. s \in Spots BY DEF Spots
        <2>4. PICK r \in Processes : cli' = [cli EXCEPT ![c] = r] /\ r.at = s BY <1>0, <2>2, <2>3, GotoMoves
        <2> QED BY <1>0, <2>1, <2>2, <2>4, ProcessMoves
    <1>13. ASSUME Fixed, cli[c].at \in {"download", "verify", "install"}, NEW s \in Spots \ {"decide", "install"},
                  Goto(c, s), s \in {"download", "verify"} => UNCHANGED lockedBy, lockedBy' \in {lockedBy, 0},
                  ranOn' \subseteq {"good"}, installed' \in Nat
           PROVE  UpdateInv'
        <2>1. lockedBy = c BY <1>0, <1>13 DEF LockedInv
        <2>2. PICK r \in Processes : cli' = [cli EXCEPT ![c] = r] /\ r.at = s BY <1>0, <1>13, GotoMoves
        <2> QED BY <1>0, <1>13, <2>1, <2>2, ProcessMoves
    <1>14. CASE Download(c)
        <2>1. Fixed /\ cli[c].at = "download" /\ Goto(c, "verify") /\ UNCHANGED <<lockedBy, ranOn, installed>>
            BY <1>14 DEF Download, At, indexVars, tellVars, runVars
        <2>2. "verify" \in Spots \ {"decide", "install"} BY DEF Spots
        <2> HIDE DEF Fixed
        <2> QED BY <1>0, <1>13, <2>1, <2>2
    <1>15. CASE Verified(c)
        <2>1. Fixed /\ cli[c].at = "verify" /\ Goto(c, "install") /\ UNCHANGED <<lockedBy, ranOn, installed>> /\ asset' = "good"
            BY <1>15 DEF Verified, At, indexVars, tellVars, runVars
        <2>2. lockedBy = c BY <1>0, <2>1 DEF LockedInv
        <2>3. "install" \in Spots BY DEF Spots
        <2>4. PICK r \in Processes : cli' = [cli EXCEPT ![c] = r] /\ r.at = "install" BY <1>0, <2>1, <2>3, GotoMoves
        <2> QED BY <1>0, <2>1, <2>2, <2>4, ProcessMoves
    <1>16. ASSUME NEW left \in {"none", "part"}, DownloadFails(c, left) PROVE UpdateInv'
        <2>1. Fixed /\ cli[c].at = "verify" /\ Goto(c, "gone") /\ lockedBy' = 0 /\ UNCHANGED <<ranOn, installed>>
            BY <1>16 DEF DownloadFails, At, indexVars, tellVars, runVars
        <2>2. "gone" \in Spots \ {"decide", "install"} BY DEF Spots
        <2> HIDE DEF Fixed
        <2> QED BY <1>0, <1>13, <2>1, <2>2
    <1>17. ASSUME cli[c].at = "install",
                  ranOn' = IF InstallMethod \in Downloaded THEN ranOn \cup {asset} ELSE ranOn
           PROVE  ranOn' \subseteq {"good"}
        <2>1. InstallMethod \in Downloaded => asset = "good" BY <1>0, <1>17 DEF LockedInv
        <2> HIDE DEF InstallMethod
        <2> QED BY <1>0, <1>17, <2>1
    <1>18. CASE Install(c)
        <2>1. Fixed /\ cli[c].at = "install" /\ Goto(c, "after") /\ lockedBy' = 0 /\ ranOn' \subseteq {"good"}
            BY <1>17, <1>18 DEF Install, At, indexVars, tellVars
        <2>2. Latest \in Nat
            <3>1. Acceptable \in SUBSET (1..newest) BY DEF Acceptable
            <3>2. Latest = Greatest(Acceptable) BY DEF Latest, Greatest
            <3> QED BY <1>0, <3>1, <3>2, GreatestIs
        <2>3. cli[c].target \in Nat /\ cli[c].know.latest \in Nat BY <1>0 DEF Processes, Infos
        <2>4. installed' \in Nat BY <1>0, <1>18, <2>2, <2>3 DEF Install, Installs
        <2>5. "after" \in Spots \ {"decide", "install"} BY DEF Spots
        <2> HIDE DEF Fixed
        <2> QED BY <1>0, <1>13, <2>1, <2>4, <2>5
    <1>19. CASE InstallFails(c)
        <2>1. /\ Fixed /\ cli[c].at = "install" /\ Goto(c, "gone") /\ lockedBy' = 0 /\ ranOn' \subseteq {"good"}
              /\ UNCHANGED installed
            BY <1>17, <1>19 DEF InstallFails, At, indexVars, tellVars
        <2>2. "gone" \in Spots \ {"decide", "install"} BY DEF Spots
        <2> HIDE DEF Fixed
        <2> QED BY <1>0, <1>13, <2>1, <2>2
    <1> QED BY <1>4, <1>5, <1>6, <1>7, <1>8, <1>9, <1>10, <1>11, <1>12, <1>14, <1>15, <1>16, <1>18, <1>19

\* A process goes to decide: what it knows is what the cache holds from now on.
LEMMA Decides ==
    ASSUME UpdateInv, NEW c \in Clis, NEW info \in Infos, NEW n \in Nat, cli[c].at \in {"check", "fetch"},
           cli' = [cli EXCEPT ![c] = [cli[c] EXCEPT !.know = info, !.was = n, !.at = "decide"]],
           cache' = info, excused' \in BOOLEAN, excused => excused',
           ~excused' => /\ info.told = cache.told /\ cache.latest <= info.latest /\ info.latest <= Latest,
           UNCHANGED <<newest, withdrawn, host, installed, announced, lockedBy, asset, ranOn>>
    PROVE  UpdateInv'
    <1> DEFINE r == [cli[c] EXCEPT !.know = info, !.was = n, !.at = "decide"]
    <1>1. UpdateTyped /\ LockedInv /\ (~excused => MarkInv) /\ cli[c] \in Processes
        BY DEF UpdateInv, UpdateTyped
    <1>2. r \in Processes /\ r.at = "decide" /\ r.know = info BY <1>1 DEF Processes, Spots
    <1> HIDE DEF r
    <1>3. cli' = [cli EXCEPT ![c] = r] BY DEF r
    <1>4. UpdateTyped' BY <1>1, <1>2, <1>3 DEF UpdateTyped
    <1>5. LockedInv' BY <1>1, <1>2, <1>3, LockMoves
    <1>6. ASSUME ~excused' PROVE MarkInv'
        <2>1. MarkInv /\ info.told = cache.told /\ cache.latest <= info.latest /\ info.latest <= Latest
            BY <1>1, <1>6 DEF UpdateTyped
        <2>2. Latest' = Latest BY DEF Latest, Acceptable
        <2>3. \A d \in Clis : cli'[d] = (IF d = c THEN r ELSE cli[d]) BY <1>1, <1>3 DEF UpdateTyped
        <2>4. cache.told \in Nat /\ cache.latest \in Nat /\ info.latest \in Nat BY <1>1 DEF UpdateTyped, Infos
        <2>5. ASSUME NEW d \in Clis, cli'[d].at = "decide"
              PROVE  /\ cli'[d].know.told = info.told /\ info.told <= cli'[d].know.latest
                     /\ cli'[d].know.latest <= info.latest
            <3>1. CASE d = c BY <1>2, <2>1, <2>3, <2>4, <3>1 DEF MarkInv
            <3>2. CASE d # c
                <4>1. cli[d].at = "decide" /\ cli'[d] = cli[d] BY <2>3, <2>5, <3>2
                <4>2. cli[d].know.told = cache.told /\ cache.told <= cli[d].know.latest /\ cli[d].know.latest <= cache.latest
                    BY <2>1, <4>1 DEF MarkInv
                <4>3. cli[d].know.latest \in Nat BY <1>1 DEF UpdateTyped, Processes, Infos
                <4> QED BY <2>1, <2>4, <4>1, <4>2, <4>3
            <3> QED BY <3>1, <3>2
        <2>6. cache.told <= cache.latest BY <2>1 DEF MarkInv
        <2>7. info.told <= info.latest BY <2>1, <2>4, <2>6
        <2> QED BY <2>1, <2>2, <2>5, <2>7 DEF MarkInv
    <1> QED BY <1>4, <1>5, <1>6 DEF UpdateInv, InstalledIsVerified

LEMMA DecidingSteps ==
    ASSUME UpdateInv, NEW c \in Clis, FromCache(c) \/ Fetch(c) \/ FetchFails(c)
    PROVE  UpdateInv'
    <1>1. UpdateTyped /\ (~excused => MarkInv) /\ cli[c] \in Processes /\ cache \in Infos /\ excused \in BOOLEAN
        BY DEF UpdateInv, UpdateTyped
    <1>2. CASE FromCache(c)
        <2>1. cli[c].at = "check" /\ cli' = [cli EXCEPT ![c] = [cli[c] EXCEPT !.know = cache, !.at = "decide"]]
            BY <1>2 DEF FromCache, At
        <2>2. cli[c].was \in Nat BY <1>1 DEF Processes
        <2>3. cli' = [cli EXCEPT ![c] = [cli[c] EXCEPT !.know = cache, !.was = cli[c].was, !.at = "decide"]]
            BY <1>1, <2>1 DEF Processes
        <2>4. cache.latest \in Nat BY <1>1 DEF Infos
        <2>5. ~excused => cache.latest <= Latest BY <1>1 DEF MarkInv
        <2>6. UNCHANGED <<newest, withdrawn, host, installed, announced, lockedBy, asset, ranOn, cache, excused>>
            BY <1>2 DEF FromCache, indexVars, tellVars, runVars
        <2>7. cache.latest <= cache.latest BY <2>4
        <2>8. /\ cache' = cache /\ excused' \in BOOLEAN /\ (excused => excused')
              /\ ~excused' => cache.told = cache.told /\ cache.latest <= cache.latest /\ cache.latest <= Latest
            BY <1>1, <2>5, <2>6, <2>7
        <2> QED BY <1>1, <2>1, <2>2, <2>3, <2>6, <2>8, Decides
    <1>3. Latest \in Nat
        <2>1. Acceptable \in SUBSET (1..newest) /\ newest \in Nat BY <1>1 DEF Acceptable, UpdateTyped, Versions
        <2>2. Latest = Greatest(Acceptable) BY DEF Latest, Greatest
        <2> QED BY <2>1, <2>2, GreatestIs
    <1>4. ASSUME NEW info \in Infos, At(c, "fetch"), Persisted(c, info), info.told = cli[c].was, info.ok => info.latest = Latest
          PROVE  UpdateInv'
        <2>1. cli' = [cli EXCEPT ![c] = [cli[c] EXCEPT !.know = info, !.was = 0, !.at = "decide"]]
            BY <1>4 DEF Persisted
        <2>2. cache' = info /\ cli[c].at = "fetch" BY <1>4 DEF Persisted, WriteCache, At
        <2>3. excused' = (excused \/ ~info.ok \/ Forces(cli[c].kind) \/ cli[c].was # cache.told)
            BY <1>4 DEF Persisted
        <2>4. excused' \in BOOLEAN /\ (excused => excused') BY <1>1, <2>3
        <2>5. ~excused' => MarkInv /\ info.ok /\ info.told = cache.told BY <1>1, <1>4, <2>3
        <2>6. ~excused' => info.told = cache.told /\ cache.latest <= info.latest /\ info.latest <= Latest
            BY <1>3, <1>4, <2>5 DEF MarkInv
        <2>7. UNCHANGED <<newest, withdrawn, host, installed, announced, lockedBy, asset, ranOn>>
            BY <1>4 DEF Persisted, indexVars, runVars
        <2> QED BY <2>1, <2>2, <2>4, <2>6, <2>7, Decides
    <1>5. CASE Fetch(c)
        <2>1. Found(c) \in Infos /\ Found(c).told = cli[c].was /\ Found(c).latest = Latest
            BY <1>1, <1>3 DEF Found, Infos, Processes
        <2> QED BY <1>4, <1>5, <2>1 DEF Fetch
    <1>6. CASE FetchFails(c)
        <2> DEFINE info == [Nothing EXCEPT !.current = cli[c].mine, !.fresh = TRUE]
        <2>1. info \in Infos /\ ~info.ok BY <1>1 DEF Nothing, Infos, Processes
        <2>2. Persisted(c, info) /\ cli[c].at = "fetch" BY <1>6 DEF FetchFails, At
        <2> HIDE DEF info
        <2>3. cli' = [cli EXCEPT ![c] = [cli[c] EXCEPT !.know = info, !.was = 0, !.at = "decide"]]
            BY <2>2 DEF Persisted
        <2>4. cache' = info /\ excused' = TRUE BY <2>1, <2>2 DEF Persisted, WriteCache
        <2>5. UNCHANGED <<newest, withdrawn, host, installed, announced, lockedBy, asset, ranOn>>
            BY <2>2 DEF Persisted, indexVars, runVars
        <2> QED BY <2>1, <2>2, <2>3, <2>4, <2>5, Decides
    <1> QED BY <1>2, <1>5, <1>6

\* The announcement: what is told for the first time is above the mark, and becomes the mark.
LEMMA Announces ==
    ASSUME UpdateInv, NEW c \in Clis, Announce(c)
    PROVE  UpdateInv'
    <1> DEFINE info == cli[c].know
    <1>1. /\ UpdateTyped /\ LockedInv /\ (~excused => MarkInv) /\ cli[c] \in Processes /\ info \in Infos
          /\ cache \in Infos /\ excused \in BOOLEAN /\ announced \in [0..MaxRelease -> Nat] /\ MaxRelease \in Nat
        BY UpdateAssumption DEF UpdateInv, UpdateTyped, Processes
    <1>2. /\ cli[c].at = "decide" /\ Worth(info) /\ ~Suppressed(info)
          /\ announced' = [announced EXCEPT ![info.latest] = IF info.yanked \/ @ = 2 THEN @ ELSE @ + 1]
          /\ IF info.latest = 0 THEN UNCHANGED cache ELSE cache' = [cache EXCEPT !.told = info.latest]
          /\ excused' = (excused \/ \E d \in Clis \ {c} : cli[d].at \in {"check", "fetch", "decide"})
          /\ UNCHANGED <<newest, withdrawn, host, installed, lockedBy, asset, ranOn>>
        BY DEF Announce, At, WriteCache, indexVars, runVars
    <1>3. PICK s \in {"ask", "gone"} : Goto(c, s) BY DEF Announce
    <1>4. PICK r \in Processes : cli' = [cli EXCEPT ![c] = r] /\ r.at = s
        <2>1. s \in Spots BY DEF Spots
        <2> QED BY <1>1, <1>3, <2>1, GotoMoves
    <1> HIDE DEF info
    <1>5. \A v \in 0..MaxRelease : announced'[v] =
              IF v = info.latest THEN (IF info.yanked \/ announced[v] = 2 THEN announced[v] ELSE announced[v] + 1)
              ELSE announced[v]
        BY <1>1, <1>2
    <1>6. announced' \in [0..MaxRelease -> Nat]
        <2>1. \A v \in 0..MaxRelease : announced[v] \in Nat BY <1>1
        <2>2. \A v \in 0..MaxRelease : announced'[v] \in Nat BY <1>5, <2>1
        <2>3. DOMAIN announced' = 0..MaxRelease /\ announced' = [v \in 0..MaxRelease |-> announced'[v]] BY <1>1, <1>2
        <2> QED BY <2>2, <2>3
    <1>7. cache' \in Infos BY <1>1, <1>2 DEF Infos
    <1>8. excused' \in BOOLEAN BY <1>1, <1>2
    <1>9. UpdateTyped' BY <1>1, <1>2, <1>4, <1>6, <1>7, <1>8 DEF UpdateTyped
    <1>10. LockedInv' BY <1>1, <1>2, <1>3, <1>4, LockMoves
    <1>11. ASSUME ~excused' PROVE MarkInv'
        <2>1. MarkInv /\ \A d \in Clis \ {c} : cli[d].at # "decide" BY <1>1, <1>2, <1>11
        <2>2. \A d \in Clis : cli'[d].at # "decide" BY <1>1, <1>3, <1>4, <2>1 DEF UpdateTyped
        <2>3. Latest' = Latest BY <1>2 DEF Latest, Acceptable
        <2>4. /\ cache.told \in Nat /\ cache.latest \in Nat /\ info.latest \in Nat /\ info.yanked \in BOOLEAN
            BY <1>1 DEF Infos
        <2>5. /\ info.told = cache.told /\ cache.told <= info.latest /\ info.latest <= cache.latest
              /\ cache.told <= cache.latest /\ cache.latest <= Latest
            BY <1>2, <2>1 DEF MarkInv, info
        <2>6. cache'.latest = cache.latest /\ (info.latest # 0 => cache'.told = info.latest)
              /\ (info.latest = 0 => cache'.told = cache.told)
            BY <1>1, <1>2 DEF Infos
        <2>7. cache'.told = info.latest BY <2>4, <2>5, <2>6
        <2>8. cache'.told <= cache'.latest /\ cache'.latest <= Latest' BY <2>3, <2>5, <2>6, <2>7
        <2>9. ASSUME NEW v \in Versions
              PROVE  announced'[v] <= 1 /\ (announced'[v] = 1 => v <= info.latest)
            <3>1. v \in 0..MaxRelease /\ v \in Nat /\ announced[v] \in Nat BY <1>1 DEF Versions
            <3>2. announced[v] <= 1 /\ (announced[v] = 1 => v <= cache.told) BY <2>1 DEF MarkInv
            <3>3. CASE v # info.latest \/ info.yanked
                <4>1. announced'[v] = announced[v] BY <1>5, <3>1, <3>3
                <4> QED BY <2>4, <2>5, <3>1, <3>2, <4>1
            <3>4. CASE v = info.latest /\ ~info.yanked
                <4>1. info.latest # info.told \/ info.latest = 0 BY <1>2, <3>4 DEF Suppressed
                <4>2. announced[v] = 0 BY <2>4, <2>5, <3>1, <3>2, <3>4, <4>1 DEF Versions
                <4>3. announced'[v] = 1 BY <1>5, <3>1, <3>4, <4>2
                <4> QED BY <3>1, <3>4, <4>3
            <3> QED BY <3>3, <3>4
        <2> QED BY <2>2, <2>7, <2>8, <2>9 DEF MarkInv
    <1> QED BY <1>2, <1>9, <1>10, <1>11 DEF UpdateInv, InstalledIsVerified

\* What the index and time do.
LEMMA IndexSteps ==
    ASSUME UpdateInv, Publish \/ CacheExpires \/ \E v \in Versions : Yank(v)
    PROVE  UpdateInv'
    <1>1. /\ UpdateTyped /\ LockedInv /\ (~excused => MarkInv) /\ newest \in Nat /\ MaxRelease \in Nat
        BY UpdateAssumption DEF UpdateInv, UpdateTyped, Versions
    <1>2. InstallMethod' = InstallMethod BY DEF InstallMethod, FrozenMethod, Publish, CacheExpires, Yank
    <1>3. LockedInv' BY <1>1, <1>2 DEF LockedInv, Downloaded, NativeMethods, Publish, CacheExpires, Yank
    <1>4. UpdateTyped'
        <2>1. CASE Publish
            BY <1>1, <2>1 DEF UpdateTyped, Publish, Versions, indexVars, tellVars, runVars
        <2>2. CASE CacheExpires
            BY <1>1, <2>2 DEF UpdateTyped, CacheExpires, Infos, indexVars, tellVars, runVars
        <2>3. ASSUME NEW v \in Versions, Yank(v) PROVE UpdateTyped'
            BY <1>1, <2>3 DEF UpdateTyped, Yank, Acceptable, indexVars, tellVars, runVars
        <2> QED BY <2>1, <2>2, <2>3
    <1>5. ~excused' => MarkInv'
        <2>1. CASE Publish BY <1>1, <2>1, IndexKeeps DEF Publish, tellVars
        <2>2. CASE CacheExpires
            <3>1. cache'.told = cache.told /\ cache'.latest = cache.latest
                BY <1>1, <2>2 DEF CacheExpires, UpdateTyped, Infos
            <3>2. Latest' = Latest /\ UNCHANGED <<cli, announced, excused>>
                BY <2>2 DEF CacheExpires, Latest, Acceptable, indexVars, tellVars
            <3> QED BY <1>1, <3>1, <3>2 DEF MarkInv
        <2>3. ASSUME NEW v \in Versions, Yank(v), ~excused' PROVE MarkInv'
            <3>1. v \in Acceptable /\ v # Latest /\ ~excused /\ withdrawn' = withdrawn \cup {v}
                  /\ UNCHANGED <<newest, cache, cli, announced>>
                BY <1>1, <2>3 DEF Yank, UpdateTyped
            <3> QED BY <1>1, <3>1, IndexKeeps
        <2> QED BY <2>1, <2>2, <2>3
    <1>6. ranOn' = ranOn BY DEF Publish, CacheExpires, Yank, runVars
    <1> QED BY <1>3, <1>4, <1>5, <1>6 DEF UpdateInv, InstalledIsVerified

LEMMA UpdateStarts == UpdateInit => UpdateInv
    <1> SUFFICES ASSUME UpdateInit PROVE UpdateInv OBVIOUS
    <1>0. MaxRelease \in Nat \ {0} BY UpdateAssumption
    <1>1. Nothing \in Infos /\ NoProcess \in Processes /\ Nothing.told = 0 /\ Nothing.latest = 0
        BY DEF Nothing, Infos, NoProcess, Processes, Spots
    <1>2. newest \in Versions BY <1>0 DEF UpdateInit, Versions
    <1>3. UpdateTyped BY <1>1, <1>2 DEF UpdateInit, UpdateTyped
    <1>4. \A c \in Clis : cli[c].at = "gone" BY DEF UpdateInit, NoProcess
    <1>5. LockedInv BY <1>4 DEF LockedInv
    <1>6. Latest \in Nat
        <2>1. Acceptable \in SUBSET (1..newest) /\ newest \in Nat BY <1>2 DEF Acceptable, Versions
        <2>2. Latest = Greatest(Acceptable) BY DEF Latest, Greatest
        <2> QED BY <2>1, <2>2, GreatestIs
    <1>7. \A v \in Versions : announced[v] = 0 BY <1>0 DEF UpdateInit, Versions
    <1>8. cache = Nothing /\ 0 <= 0 /\ 0 <= Latest /\ 0 <= 1 BY <1>6 DEF UpdateInit
    <1>9. MarkInv BY <1>1, <1>4, <1>7, <1>8 DEF MarkInv
    <1> QED BY <1>3, <1>5, <1>9 DEF UpdateInv, InstalledIsVerified, UpdateInit

\* No version is announced twice unless its mark was lost for a reason the code accepts, and an
\* installer only ever runs on a file whose digest was checked, however many processes check,
\* announce and download at once: notify_if_update_available with its cache, and the upgrade
\* under update/.lock.
THEOREM UpdateKept == UpdateSpec => []UpdateSound
    <1>1. UpdateInv /\ [UpdateNext]_updateVars => UpdateInv'
        <2> SUFFICES ASSUME UpdateInv, [UpdateNext]_updateVars PROVE UpdateInv' OBVIOUS
        <2>1. CASE UNCHANGED updateVars
            <3>1. Latest' = Latest /\ InstallMethod' = InstallMethod
                BY <2>1 DEF updateVars, Latest, Acceptable, InstallMethod, FrozenMethod
            <3>2. UpdateTyped' BY <2>1 DEF UpdateInv, UpdateTyped, updateVars
            <3>3. LockedInv' BY <2>1, <3>1 DEF UpdateInv, LockedInv, updateVars
            <3>4. (~excused => MarkInv)' BY <2>1, <3>1 DEF UpdateInv, MarkInv, updateVars
            <3>5. InstalledIsVerified' BY <2>1 DEF UpdateInv, InstalledIsVerified, updateVars
            <3> QED BY <3>2, <3>3, <3>4, <3>5 DEF UpdateInv
        <2>2. CASE Publish \/ CacheExpires \/ \E v \in Versions : Yank(v) BY <2>2, IndexSteps
        <2>3. ASSUME NEW c \in Clis, UpdateStep(c) PROVE UpdateInv'
            BY <2>3, OtherSteps, DecidingSteps, Announces DEF UpdateStep
        <2> QED BY <2>1, <2>2, <2>3 DEF UpdateNext
    <1>2. UpdateInv => UpdateSound
        <2> SUFFICES ASSUME UpdateInv PROVE UpdateSound OBVIOUS
        <2>1. ASSUME NEW v \in Versions, announced[v] > 1 PROVE excused
            <3>1. announced[v] \in Nat BY UpdateAssumption DEF UpdateInv, UpdateTyped, Versions
            <3>2. ~MarkInv BY <2>1, <3>1 DEF MarkInv
            <3> QED BY <3>2 DEF UpdateInv
        <2> QED BY <2>1 DEF UpdateSound, AnnouncedOnce, UpdateInv
    <1> QED BY UpdateStarts, <1>1, <1>2, PTL DEF UpdateSpec

----------------------------------------------------------------------------
(* The scheduler: its store, its file and its log against what jobs were added, removed and run. *)

\* What the log and the store hold, and what a tick is.
Entries == [op : {"add", "del"}, job : CronJobs, next : Nat]
Stores == UNION {[S -> Nat] : S \in SUBSET CronJobs}
Tasks == [pc : {"free", "sleep", "exec", "cut"}, wake : Nat, todo : SUBSET CronJobs, cur : CronJobs \cup {""},
          occ : Nat, stale : BOOLEAN]

\* What the log says of a job.
Added(log, j) == \E i \in DOMAIN log : log[i].op = "add" /\ log[i].job = j
Deleted(log, j) == \E i \in DOMAIN log : log[i].op = "del" /\ log[i].job = j

\* A log that another process wrote: the addition of a job is the first that is said of it.
AddsFirst(log) == \A i, k \in DOMAIN log : i < k /\ log[k].op = "add" => log[i].job # log[k].job

\* What the variables hold.
CronTyped ==
    /\ clock \in 1..MaxClock /\ up \in BOOLEAN /\ torn \in BOOLEAN /\ timerActive \in BOOLEAN
    /\ store \in Stores /\ diskJobs \in Stores /\ actions \in Seq(Entries)
    /\ tick \in [Ticks -> Tasks] /\ timer \in Ticks \cup {NoTick}
    /\ known \subseteq CronJobs /\ gone \subseteq known /\ done \subseteq known \X Nat

\* Only the timer sleeps or executes, and a gateway that is down has none.
TimerInv ==
    /\ up = (timer # NoTick)
    /\ up => tick[timer].pc \in {"sleep", "exec"}
    /\ \A t \in Ticks : tick[t].pc \in {"sleep", "exec"} => t = timer
    /\ \A t \in Ticks : tick[t].pc = "sleep" => ~tick[t].stale
    /\ ~up => DOMAIN store = {} /\ ~timerActive

\* While no job is executed, what memory holds is saved.
SavedInv == up /\ (\A t \in Ticks : tick[t].pc # "exec") => ~torn /\ store = diskJobs

\* Store, file and log name jobs that are known; one that is added in the log is not yet in store or file,
\* nor is it with a tick or was ever run; one that is deleted in the log is gone.
LogInv ==
    /\ AddsFirst(actions)
    /\ \A i \in DOMAIN actions : actions[i].job \in known /\ (actions[i].op = "del" => actions[i].job \in gone)
    /\ DOMAIN store \subseteq known /\ DOMAIN diskJobs \subseteq known
    /\ \A t \in Ticks : tick[t].pc = "exec" => tick[t].cur \in known /\ tick[t].todo \subseteq known
    /\ \A j \in known : Added(actions, j) =>
          /\ j \notin DOMAIN store \cup DOMAIN diskJobs
          /\ \A t \in Ticks : tick[t].pc = "exec" => j \notin tick[t].todo \cup {tick[t].cur}
          /\ \A d \in done : d[1] # j

\* A job that is known and not gone is in the file and in memory, or is yet to be merged.
KeptInv ==
    \/ damaged
    \/ /\ ~torn
       /\ \A j \in known \ gone : Added(actions, j) \/ (j \in DOMAIN diskJobs /\ (up => j \in DOMAIN store))

\* One that is gone is in neither, or its removal is yet to be merged.
GoneInv ==
    /\ gone \cap SystemJobs \subseteq Shots
    /\ \/ damaged
       \/ \A j \in gone \ Shots :
             Deleted(actions, j) \/ (j \notin DOMAIN store \cup DOMAIN diskJobs /\ ~Added(actions, j))

\* What the next run of a job is has not been run; a tick that executes has its jobs due in the store.
RunInv ==
    \/ overlap
    \/ /\ redone = {} /\ \A d \in done : d[2] <= clock
       /\ \A j \in DOMAIN store : store[j] # Never => <<j, store[j]>> \notin done
       /\ \A t \in Ticks : tick[t].pc = "exec" =>
             /\ timerActive /\ ~tick[t].stale /\ \A u \in Ticks : tick[u].pc # "cut"
             /\ tick[t].cur \in DueIn(store) \ tick[t].todo /\ tick[t].todo \subseteq DueIn(store)
             /\ tick[t].occ = store[tick[t].cur]

\* The inductive invariant.
CronInv == CronTyped /\ TimerInv /\ SavedInv /\ LogInv /\ KeptInv /\ GoneInv /\ RunInv

----------------------------------------------------------------------------
(* The log over the file. *)

\* The last action on a job: its removal if there was one, else its addition.
LEMMA LatestIs ==
    ASSUME NEW log \in Seq(Entries), AddsFirst(log), NEW j
    PROVE  /\ Deleted(log, j) => \E i \in LastSaid(log, j) : log[i].op # "add"
           /\ ~Deleted(log, j) /\ Added(log, j) => \E i \in DOMAIN log : LastSaid(log, j) = {i} /\ log[i].op = "add"
           /\ ~Deleted(log, j) /\ ~Added(log, j) => LastSaid(log, j) = {} /\ \A i \in DOMAIN log : log[i].job # j
    <1>1. /\ DOMAIN log = 1..Len(log) /\ Len(log) \in Nat
          /\ \A i \in DOMAIN log : log[i] \in Entries /\ i \in Nat /\ i <= Len(log)
        OBVIOUS
    <1>2. \A i \in DOMAIN log : log[i].op = "add" \/ log[i].op = "del" BY <1>1 DEF Entries
    <1>3. ASSUME Deleted(log, j) PROVE \E i \in LastSaid(log, j) : log[i].op # "add"
        <2> DEFINE S == {Len(log) - i : i \in {k \in DOMAIN log : log[k].job = j}}
        <2>1. PICK d \in DOMAIN log : log[d].op = "del" /\ log[d].job = j BY <1>3 DEF Deleted
        <2>2. S \in SUBSET Nat /\ S # {} BY <1>1, <2>1
        <2> HIDE DEF S
        <2>3. PICK m \in S : \A x \in S : m <= x BY <2>2, LeastNumber
        <2> USE DEF S
        <2>4. PICK i \in DOMAIN log : log[i].job = j /\ m = Len(log) - i BY <2>3
        <2>5. ASSUME NEW k \in DOMAIN log, log[k].job = j PROVE k <= i
            <3>1. Len(log) - k \in S BY <2>5
            <3> HIDE DEF S
            <3>2. Len(log) - i <= Len(log) - k BY <2>3, <2>4, <3>1
            <3> QED BY <1>1, <3>2
        <2> HIDE DEF S
        <2>6. i \in LastSaid(log, j) BY <2>4, <2>5 DEF LastSaid
        <2>7. log[i].op # "add"
            <3> SUFFICES ASSUME log[i].op = "add" PROVE FALSE OBVIOUS
            <3>1. d <= i /\ d # i BY <2>1, <2>5
            <3>2. d < i BY <1>1, <3>1
            <3> QED BY <2>1, <2>4, <3>2 DEF AddsFirst
        <2> QED BY <2>6, <2>7
    <1>4. ASSUME ~Deleted(log, j), Added(log, j)
          PROVE  \E i \in DOMAIN log : LastSaid(log, j) = {i} /\ log[i].op = "add"
        <2>1. PICK i \in DOMAIN log : log[i].op = "add" /\ log[i].job = j BY <1>4 DEF Added
        <2>2. ASSUME NEW k \in DOMAIN log, log[k].job = j PROVE k = i
            <3>1. log[k].op = "add" BY <1>2, <1>4, <2>2 DEF Deleted
            <3>2. k < i \/ i < k \/ i = k BY <1>1
            <3> QED BY <2>1, <2>2, <3>1, <3>2 DEF AddsFirst
        <2>3. LastSaid(log, j) = {i}
            <3>1. i <= i BY <1>1
            <3> QED BY <2>1, <2>2, <3>1 DEF LastSaid
        <2> QED BY <2>1, <2>3
    <1>5. ASSUME ~Deleted(log, j), ~Added(log, j) PROVE LastSaid(log, j) = {} /\ \A i \in DOMAIN log : log[i].job # j
        <2>1. \A i \in DOMAIN log : log[i].job # j BY <1>2, <1>5 DEF Deleted, Added
        <2> QED BY <2>1 DEF LastSaid
    <1> QED BY <1>3, <1>4, <1>5

\* What the merge leaves: what was not deleted, of the file or added.
LEMMA MergeIs ==
    ASSUME NEW st \in Stores, NEW log \in Seq(Entries), AddsFirst(log)
    PROVE  /\ Merge(st, log) \in Stores
           /\ \A j : j \in DOMAIN Merge(st, log) <=> ~Deleted(log, j) /\ (j \in DOMAIN st \/ Added(log, j))
           /\ \A j \in DOMAIN Merge(st, log) : Added(log, j) \/ (j \in DOMAIN st /\ Merge(st, log)[j] = st[j])
    <1> DEFINE D == {k \in DOMAIN st \cup {a.job : a \in Range(log)} : \A i \in LastSaid(log, k) : log[i].op = "add"}
               V(j) == IF LastSaid(log, j) = {} THEN st[j] ELSE log[CHOOSE i \in LastSaid(log, j) : TRUE].next
    <1>1. Merge(st, log) = [j \in D |-> V(j)] BY DEF Merge
    <1>2. DOMAIN st \subseteq CronJobs /\ \A j \in DOMAIN st : st[j] \in Nat BY DEF Stores
    <1>3. \A i \in DOMAIN log : log[i] \in Entries OBVIOUS
    <1>4. Range(log) = {log[i] : i \in DOMAIN log} BY DEF Range
    <1>5. \A j : j \in D <=> ~Deleted(log, j) /\ (j \in DOMAIN st \/ Added(log, j))
        <2> SUFFICES ASSUME NEW j PROVE j \in D <=> ~Deleted(log, j) /\ (j \in DOMAIN st \/ Added(log, j)) OBVIOUS
        <2>1. CASE Deleted(log, j) BY <2>1, LatestIs
        <2>2. CASE ~Deleted(log, j) /\ Added(log, j)
            <3>1. PICK i \in DOMAIN log : LastSaid(log, j) = {i} /\ log[i].op = "add" BY <2>2, LatestIs
            <3>2. log[i].job = j /\ log[i] \in Range(log) BY <1>4, <3>1 DEF LastSaid
            <3> QED BY <2>2, <3>1, <3>2
        <2>3. CASE ~Deleted(log, j) /\ ~Added(log, j)
            <3>1. LastSaid(log, j) = {} /\ \A i \in DOMAIN log : log[i].job # j BY <2>3, LatestIs
            <3>2. j \notin {a.job : a \in Range(log)} BY <1>4, <3>1
            <3> QED BY <2>3, <3>1, <3>2
        <2> QED BY <2>1, <2>2, <2>3
    <1>6. \A j \in D : V(j) \in Nat /\ j \in CronJobs /\ (Added(log, j) \/ (j \in DOMAIN st /\ V(j) = st[j]))
        <2> SUFFICES ASSUME NEW j \in D
                     PROVE  V(j) \in Nat /\ j \in CronJobs /\ (Added(log, j) \/ (j \in DOMAIN st /\ V(j) = st[j]))
            OBVIOUS
        <2>1. ~Deleted(log, j) /\ (j \in DOMAIN st \/ Added(log, j)) BY <1>5
        <2> HIDE DEF D
        <2>2. CASE Added(log, j)
            <3>1. PICK i \in DOMAIN log : LastSaid(log, j) = {i} /\ log[i].op = "add" BY <2>1, <2>2, LatestIs
            <3>2. log[i].next \in Nat /\ log[i].job \in CronJobs BY <1>3 DEF Entries
            <3>3. log[i].job = j BY <3>1 DEF LastSaid
            <3>4. (CHOOSE k \in LastSaid(log, j) : TRUE) = i BY <3>1
            <3> QED BY <2>2, <3>1, <3>2, <3>3, <3>4
        <2>3. CASE ~Added(log, j)
            <3>1. LastSaid(log, j) = {} BY <2>1, <2>3, LatestIs
            <3> QED BY <1>2, <2>1, <2>3, <3>1
        <2> QED BY <2>2, <2>3
    <1> HIDE DEF D, V
    <1>7. Merge(st, log) \in [D -> Nat] /\ DOMAIN Merge(st, log) = D /\ D \subseteq CronJobs BY <1>1, <1>6
    <1> QED BY <1>1, <1>5, <1>6, <1>7 DEF Stores

\* A log without a change adds nothing, and leaves the file as it is.
LEMMA MergeOfNone ==
    ASSUME NEW st \in Stores, NEW log \in Seq(Entries), AddsFirst(log), NoChange(log, st)
    PROVE  Merge(st, log) = st /\ \A j : ~Added(log, j)
    <1>1. \A j : ~Added(log, j) /\ (Deleted(log, j) => j \notin DOMAIN st) BY DEF NoChange, Added, Deleted
    <1>2. /\ Merge(st, log) \in Stores
          /\ \A j : j \in DOMAIN Merge(st, log) <=> ~Deleted(log, j) /\ (j \in DOMAIN st \/ Added(log, j))
          /\ \A j \in DOMAIN Merge(st, log) : Added(log, j) \/ (j \in DOMAIN st /\ Merge(st, log)[j] = st[j])
        BY MergeIs
    <1> DEFINE M == Merge(st, log)
    <1> HIDE DEF M
    <1>3. M \in Stores /\ DOMAIN M = DOMAIN st /\ \A j \in DOMAIN st : M[j] = st[j] BY <1>1, <1>2 DEF M
    <1>4. M = [j \in DOMAIN M |-> M[j]] /\ st = [j \in DOMAIN st |-> st[j]] BY <1>3 DEF Stores
    <1>5. M = st BY <1>3, <1>4
    <1> QED BY <1>1, <1>5 DEF M

\* When nothing is merged and no job is executed, the log adds nothing.
LEMMA NoChangeIs ==
    ASSUME CronInv, ~timerActive, ~Merges
    PROVE  OnFile = FileJobs /\ \A j : ~Added(actions, j)
    <1>1. Empty \in Stores
        <2>1. Empty \in [{} -> Nat] BY DEF Empty
        <2> QED BY <2>1 DEF Stores
    <1>2. FileJobs \in Stores BY <1>1 DEF FileJobs, CronInv, CronTyped
    <1>3. actions \in Seq(Entries) /\ AddsFirst(actions) BY DEF CronInv, CronTyped, LogInv
    <1>4. NoChange(actions, FileJobs) BY DEF Merges
    <1> QED BY <1>2, <1>3, <1>4, MergeOfNone DEF OnFile

\* The smallest of a set of numbers is one of them.
LEMMA MinIsIn == ASSUME NEW S \in SUBSET Nat, S # {} PROVE Min(S) \in S
    <1>1. \E x \in S : \A y \in S : x <= y BY LeastNumber
    <1> QED BY <1>1 DEF Min

\* The next run of a job is never, or later than now.
LEMMA NextRunIs == ASSUME CronTyped, CronAssumption, NEW j PROVE NextRun(j) \in Nat /\ (NextRun(j) = Never \/ NextRun(j) > clock)
    <1>1. clock \in Nat /\ ShotTime \in Nat /\ Every \in Nat /\ Every > 0 BY DEF CronTyped, CronAssumption
    <1> QED BY <1>1 DEF NextRun, Never

\* A timer that is armed sleeps, and it is the only one that does; nothing is executed.
LEMMA ArmIs ==
    ASSUME CronTyped, CronAssumption, NEW tk \in [Ticks -> Tasks], NEW st \in Stores, Arm(tk, st),
           \A t \in Ticks : tk[t].pc \in {"sleep", "exec"} => t = timer
    PROVE  /\ timer' \in Ticks /\ timer' # NoTick /\ tick' \in [Ticks -> Tasks] /\ tick'[timer'].pc = "sleep"
           /\ \A t \in Ticks : tick'[t].pc # "exec" /\ (tick'[t].pc = "sleep" => t = timer' /\ ~tick'[t].stale)
    <1> DEFINE cut == [t \in Ticks |->
                          IF t # timer THEN tk[t]
                          ELSE IF tk[t].pc = "exec" THEN [tk[t] EXCEPT !.pc = "cut"] ELSE NoTask]
               next == {IF st[j] > clock THEN st[j] ELSE clock : j \in {i \in DOMAIN st : st[i] # Never}}
               wake == Min({clock + MaxSleep} \cup next)
    <1>1. PICK t \in Ticks : tick' = [cut EXCEPT ![t] = [NoTask EXCEPT !.pc = "sleep", !.wake = wake]] /\ timer' = t
        BY DEF Arm
    <1>2. wake \in Nat
        <2>1. clock \in Nat /\ MaxSleep \in Nat BY DEF CronTyped, CronAssumption
        <2>2. \A j \in DOMAIN st : st[j] \in Nat BY DEF Stores
        <2>3. next \subseteq Nat BY <2>1, <2>2
        <2> HIDE DEF next
        <2>4. {clock + MaxSleep} \cup next \in SUBSET Nat /\ {clock + MaxSleep} \cup next # {} BY <2>1, <2>3
        <2> QED BY <2>4, MinIsIn
    <1>3. NoTask \in Tasks /\ NoTask.pc = "free" BY DEF NoTask, Tasks, Never
    <1>4. cut \in [Ticks -> Tasks] /\ \A u \in Ticks : cut[u].pc \notin {"sleep", "exec"}
        <2> SUFFICES ASSUME NEW u \in Ticks
                     PROVE  cut[u] \in Tasks /\ cut[u].pc \notin {"sleep", "exec"}
            OBVIOUS
        <2>1. tk[u] \in Tasks OBVIOUS
        <2>2. [tk[u] EXCEPT !.pc = "cut"] \in Tasks /\ [tk[u] EXCEPT !.pc = "cut"].pc = "cut" BY <2>1 DEF Tasks
        <2>3. tk[u].pc \in {"free", "sleep", "exec", "cut"} BY <2>1 DEF Tasks
        <2> QED BY <1>3, <2>1, <2>2, <2>3
    <1> DEFINE new == [NoTask EXCEPT !.pc = "sleep", !.wake = wake]
    <1>5. new \in Tasks /\ new.pc = "sleep" /\ ~new.stale
        <2> HIDE DEF wake
        <2> QED BY <1>2 DEF NoTask, Tasks, Never
    <1>6. tick' = [cut EXCEPT ![t] = new] BY <1>1
    <1> HIDE DEF cut, new, wake
    <1>7. tick' \in [Ticks -> Tasks] /\ tick'[t] = new /\ \A u \in Ticks \ {t} : tick'[u] = cut[u] BY <1>4, <1>5, <1>6
    <1>8. t # NoTick BY DEF Ticks, NoTick
    <1> QED BY <1>1, <1>4, <1>5, <1>7, <1>8

\* A reload marks tasks, and changes nothing else of them.
LEMMA StaledIs ==
    ASSUME CronTyped
    PROVE  /\ Staled \in [Ticks -> Tasks]
           /\ \A t \in Ticks : Staled[t].pc = tick[t].pc /\ Staled[t].todo = tick[t].todo /\ Staled[t].cur = tick[t].cur
           /\ \A t \in Ticks : tick[t].pc = "sleep" => Staled[t].stale = tick[t].stale
           /\ timerActive => Staled = tick
    <1>1. tick \in [Ticks -> Tasks] BY DEF CronTyped
    <1>2. ASSUME NEW t \in Ticks
          PROVE  /\ [tick[t] EXCEPT !.stale = TRUE] \in Tasks
                 /\ [tick[t] EXCEPT !.stale = TRUE].pc = tick[t].pc
                 /\ [tick[t] EXCEPT !.stale = TRUE].todo = tick[t].todo
                 /\ [tick[t] EXCEPT !.stale = TRUE].cur = tick[t].cur
        BY <1>1 DEF Tasks
    <1>3. ASSUME NEW t \in Ticks
          PROVE  /\ Staled[t] \in Tasks /\ Staled[t].pc = tick[t].pc
                 /\ Staled[t].todo = tick[t].todo /\ Staled[t].cur = tick[t].cur
        <2>1. Staled[t] = tick[t] \/ Staled[t] = [tick[t] EXCEPT !.stale = TRUE] BY DEF Staled
        <2> QED BY <1>1, <1>2, <2>1
    <1>4. Staled \in [Ticks -> Tasks]
        <2>1. Staled = [t \in Ticks |-> Staled[t]] BY DEF Staled
        <2> QED BY <1>3, <2>1
    <1>5. timerActive => Staled = tick BY <1>1 DEF Staled
    <1>6. \A t \in Ticks : tick[t].pc = "sleep" => Staled[t].stale = tick[t].stale BY DEF Staled
    <1> QED BY <1>3, <1>4, <1>5, <1>6

\* What of the log is left when the store has been read: nothing, but in the middle of a tick or of
\* a log without a change.
Left == IF Merges THEN <<>> ELSE actions

\* What is read: the store in memory in the middle of a tick, else the file with the log merged.
LEMMA LoadedIs ==
    ASSUME CronInv
    PROVE  /\ Loaded \in Stores /\ DOMAIN Loaded \subseteq known
           /\ ~timerActive => (damaged \/ \A j \in known \ gone : j \in DOMAIN Loaded)
                              /\ (damaged \/ \A j \in gone \ Shots : j \notin DOMAIN Loaded)
           /\ \A j \in DOMAIN Loaded : ~Added(Left, j)
           /\ damaged \/ \A j \in known \ gone : j \in DOMAIN Loaded \/ Added(Left, j)
           /\ damaged \/ \A j \in gone \ Shots : Deleted(Left, j) \/ (j \notin DOMAIN Loaded /\ ~Added(Left, j))
           /\ overlap \/ ~up \/ \A j \in DOMAIN Loaded : Loaded[j] # Never => <<j, Loaded[j]>> \notin done
    <1>1. CronTyped /\ TimerInv /\ SavedInv /\ LogInv /\ KeptInv /\ GoneInv /\ RunInv BY DEF CronInv
    <1>2. CASE timerActive
        <2>1. Loaded = store /\ Left = actions /\ up BY <1>1, <1>2 DEF Loaded, Left, Merges, TimerInv
        <2>2. store \in Stores /\ DOMAIN store \subseteq known BY <1>1 DEF CronTyped, LogInv
        <2>3. \A j \in DOMAIN store : ~Added(actions, j) BY <1>1, <2>2 DEF LogInv
        <2>4. damaged \/ \A j \in known \ gone : j \in DOMAIN store \/ Added(actions, j) BY <1>1, <2>1 DEF KeptInv
        <2>5. damaged \/ \A j \in gone \ Shots : Deleted(actions, j) \/ (j \notin DOMAIN store /\ ~Added(actions, j))
            BY <1>1 DEF GoneInv
        <2>6. overlap \/ \A j \in DOMAIN store : store[j] # Never => <<j, store[j]>> \notin done BY <1>1 DEF RunInv
        <2> QED BY <1>2, <2>1, <2>2, <2>3, <2>4, <2>5, <2>6
    <1>3. CASE ~timerActive
        <2> DEFINE file == FileJobs
                   M == Merge(file, actions)
        <2>1. Loaded = M BY <1>3 DEF Loaded, OnFile
        <2>2. \A j : ~Added(Left, j)
            <3>1. \A j : ~Added(<<>>, j) BY DEF Added
            <3> QED BY <1>3, <3>1, NoChangeIs DEF Left
        <2>3. Empty \in Stores /\ DOMAIN Empty = {}
            <3>1. Empty \in [{} -> Nat] BY DEF Empty
            <3> QED BY <3>1 DEF Stores
        <2>4. file \in Stores /\ DOMAIN file \subseteq DOMAIN diskJobs /\ (~torn => file = diskJobs)
            BY <1>1, <2>3 DEF FileJobs, CronTyped
        <2>5. actions \in Seq(Entries) /\ AddsFirst(actions) BY <1>1 DEF CronTyped, LogInv
        <2> HIDE DEF file
        <2>6. /\ M \in Stores
              /\ \A j : j \in DOMAIN M <=> ~Deleted(actions, j) /\ (j \in DOMAIN file \/ Added(actions, j))
              /\ \A j \in DOMAIN M : Added(actions, j) \/ (j \in DOMAIN file /\ M[j] = file[j])
            BY <2>4, <2>5, MergeIs
        <2> HIDE DEF M
        <2>7. \A j : Added(actions, j) => j \in known BY <1>1 DEF LogInv, Added
        <2>8. \A j : Deleted(actions, j) => j \in gone BY <1>1 DEF LogInv, Deleted
        <2>9. DOMAIN M \subseteq known BY <1>1, <2>4, <2>6, <2>7 DEF LogInv
        <2>10. damaged \/ \A j \in known \ gone : j \in DOMAIN M BY <1>1, <2>4, <2>6, <2>8 DEF KeptInv
        <2>11. damaged \/ \A j \in gone \ Shots : j \notin DOMAIN M BY <1>1, <2>4, <2>6 DEF GoneInv
        <2>12. overlap \/ ~up \/ \A j \in DOMAIN M : M[j] # Never => <<j, M[j]>> \notin done
            <3> SUFFICES ASSUME ~overlap, up, NEW j \in DOMAIN M, M[j] # Never PROVE <<j, M[j]>> \notin done OBVIOUS
            <3>1. CASE Added(actions, j)
                <4>1. \A d \in done : d[1] # j BY <1>1, <2>7, <3>1 DEF LogInv
                <4> QED BY <4>1
            <3>2. CASE ~Added(actions, j)
                <4>1. \A t \in Ticks : tick[t].pc # "exec" BY <1>1, <1>3 DEF RunInv
                <4>2. ~torn /\ store = diskJobs BY <1>1, <4>1 DEF SavedInv
                <4>3. j \in DOMAIN store /\ M[j] = store[j] BY <2>4, <2>6, <3>2, <4>2
                <4> QED BY <1>1, <4>3 DEF RunInv
            <3> QED BY <3>1, <3>2
        <2> QED BY <1>3, <2>1, <2>2, <2>6, <2>9, <2>10, <2>11, <2>12
    <1> QED BY <1>2, <1>3

\* A store is saved and the timer armed: with what has been read, a job more or less, or after a run.
LEMMA SavedKeeps ==
    ASSUME CronInv, CronAssumption, NEW st \in Stores, NEW tk \in [Ticks -> Tasks],
           clock' = clock, up', overlap' = overlap, redone' = redone, damaged' = damaged, timerActive' \in BOOLEAN,
           store' = st, diskJobs' = st, ~torn', Arm(tk, st),
           \A t \in Ticks : tk[t].pc \in {"sleep", "exec"} => t = timer,
           up' \in BOOLEAN, torn' \in BOOLEAN,
           actions' \in {actions, <<>>},
           known \subseteq known', known' \subseteq CronJobs, DOMAIN st \subseteq known',
           gone \subseteq gone', gone' \subseteq known', gone' \cap SystemJobs \subseteq Shots,
           done' \subseteq known' \X Nat,
           \A j \in DOMAIN st : ~Added(actions', j),
           \A j : Added(actions', j) => \A d \in done' : d[1] # j,
           damaged \/ \A j \in known' \ gone' : j \in DOMAIN st \/ Added(actions', j),
           damaged \/ \A j \in gone' \ Shots : Deleted(actions', j) \/ (j \notin DOMAIN st /\ ~Added(actions', j)),
           overlap \/ \A d \in done' : d[2] <= clock,
           overlap \/ \A j \in DOMAIN st : st[j] # Never => <<j, st[j]>> \notin done'
    PROVE  CronInv'
    <1>1. CronTyped /\ TimerInv /\ SavedInv /\ LogInv /\ KeptInv /\ GoneInv /\ RunInv BY DEF CronInv
    <1>2. /\ timer' \in Ticks /\ timer' # NoTick /\ tick' \in [Ticks -> Tasks] /\ tick'[timer'].pc = "sleep"
          /\ \A t \in Ticks : tick'[t].pc # "exec" /\ (tick'[t].pc = "sleep" => t = timer' /\ ~tick'[t].stale)
        BY <1>1, ArmIs
    <1>3. actions' \in Seq(Entries) /\ AddsFirst(actions')
          /\ \A i \in DOMAIN actions' : actions'[i].job \in known' /\ (actions'[i].op = "del" => actions'[i].job \in gone')
        <2>1. CASE actions' = actions BY <1>1, <2>1 DEF CronTyped, LogInv
        <2>2. CASE actions' = <<>> BY <2>2 DEF AddsFirst
        <2> QED BY <2>1, <2>2
    <1>4. CronTyped' BY <1>1, <1>2, <1>3 DEF CronTyped
    <1>5. TimerInv' BY <1>2 DEF TimerInv
    <1>6. SavedInv' BY DEF SavedInv
    <1>7. LogInv' BY <1>2, <1>3 DEF LogInv
    <1>8. KeptInv' BY DEF KeptInv
    <1>9. GoneInv' BY DEF GoneInv
    <1>10. RunInv' BY <1>1, <1>2 DEF RunInv
    <1> QED BY <1>4, <1>5, <1>6, <1>7, <1>8, <1>9, <1>10 DEF CronInv

\* What a job that is begun leaves: its task, and whether a run was begun again or beside a cancelled one.
Began(tk, t, todo, st) ==
    /\ tick' \in [Ticks -> Tasks] /\ \A u \in Ticks \ {t} : tick'[u] = tk[u]
    /\ \E j \in todo :
          /\ tick'[t].pc = "exec" /\ tick'[t].todo = todo \ {j} /\ tick'[t].cur = j
          /\ tick'[t].stale = tk[t].stale /\ (j \in DOMAIN st => tick'[t].occ = st[j])
          /\ (j \in DOMAIN st /\ <<j, st[j]>> \in done) \/ redone' = redone
    /\ overlap => overlap'
    /\ (\E u \in Ticks \ {t} : tk[u].pc = "cut") => overlap'

\* A tick that begins its next job has it and those left due in the store, and none of them run.
LEMMA BeginIs ==
    ASSUME NEW tk \in [Ticks -> Tasks], NEW t \in Ticks, NEW todo \in SUBSET CronJobs, NEW st \in Stores,
           Begin(tk, t, todo, st)
    PROVE  Began(tk, t, todo, st)
    <1> DEFINE occ(j) == IF j \in DOMAIN st THEN st[j] ELSE Never
               new(j) == [tk[t] EXCEPT !.pc = "exec", !.todo = todo \ {j}, !.cur = j, !.occ = occ(j)]
    <1>1. PICK j \in todo :
             /\ tick' = [tk EXCEPT ![t] = new(j)]
             /\ redone' = redone \cup {i \in {j} : j \in DOMAIN st /\ <<j, st[j]>> \in done}
             /\ overlap' = (overlap \/ \E u \in Ticks \ {t} : tk[u].pc = "cut")
        BY DEF Begin
    <1>2. occ(j) \in Nat /\ (j \in DOMAIN st => occ(j) = st[j]) BY DEF Stores, Never
    <1> HIDE DEF occ
    <1>3. /\ new(j) \in Tasks /\ new(j).pc = "exec" /\ new(j).todo = todo \ {j} /\ new(j).cur = j
          /\ new(j).occ = occ(j) /\ new(j).stale = tk[t].stale
        BY <1>2 DEF Tasks
    <1> HIDE DEF new
    <1>4. tick' \in [Ticks -> Tasks] /\ tick'[t] = new(j) /\ \A u \in Ticks \ {t} : tick'[u] = tk[u] BY <1>1, <1>3
    <1>5. (j \in DOMAIN st /\ <<j, st[j]>> \in done) \/ redone' = redone BY <1>1
    <1> QED BY <1>1, <1>2, <1>3, <1>4, <1>5 DEF Began

\* Time passes.
LEMMA AdvanceKeeps == ASSUME CronInv, CronAssumption, Advance PROVE CronInv'
    <1>1. CronTyped /\ TimerInv /\ SavedInv /\ LogInv /\ KeptInv /\ GoneInv /\ RunInv BY DEF CronInv
    <1>2. /\ clock' \in 1..MaxClock /\ clock < clock' /\ clock \in Nat
          /\ UNCHANGED <<up, store, timerActive, tick, timer, diskJobs, torn, actions>>
          /\ UNCHANGED <<known, gone, done, redone, overlap, damaged>>
        BY <1>1 DEF Advance, CronTyped, CronAssumption, memory, files, cronHistory
    <1>3. CronTyped' BY <1>1, <1>2 DEF CronTyped
    <1>4. TimerInv' /\ SavedInv' /\ KeptInv' /\ GoneInv' BY <1>1, <1>2 DEF TimerInv, SavedInv, KeptInv, GoneInv
    <1>5. LogInv' BY <1>1, <1>2 DEF LogInv
    <1>6. RunInv'
        <2>1. \A d \in done : d[2] \in Nat BY <1>1 DEF CronTyped
        <2>2. \A d \in done : d[2] <= clock => d[2] <= clock' BY <1>2, <2>1
        <2>3. DueIn(store) \subseteq DueIn(store)'
            <3>1. \A j \in DOMAIN store : store[j] \in Nat BY <1>1 DEF CronTyped, Stores
            <3> QED BY <1>2, <3>1 DEF DueIn
        <2>4. overlap \/ \A d \in done : d[2] <= clock BY <1>1 DEF RunInv
        <2>5. overlap \/ \A d \in done' : d[2] <= clock' BY <1>2, <2>2, <2>4
        <2>6. overlap \/ \A t \in Ticks : tick[t].pc = "exec" =>
                 /\ timerActive /\ ~tick[t].stale /\ \A u \in Ticks : tick[u].pc # "cut"
                 /\ tick[t].cur \in DueIn(store) \ tick[t].todo /\ tick[t].todo \subseteq DueIn(store)
                 /\ tick[t].occ = store[tick[t].cur]
            BY <1>1 DEF RunInv
        <2> HIDE DEF DueIn
        <2> QED BY <1>1, <1>2, <2>3, <2>5, <2>6 DEF RunInv
    <1> QED BY <1>3, <1>4, <1>5, <1>6 DEF CronInv

\* A system job is one, and the gateway starts with every next run computed anew.
LEMMA BootKeeps == ASSUME CronInv, CronAssumption, Boot PROVE CronInv'
    <1> DEFINE jobs == DOMAIN OnFile \cup SystemJobs
               st == [j \in jobs |-> NextRun(j)]
    <1>1. CronTyped /\ TimerInv /\ LogInv /\ GoneInv /\ RunInv BY DEF CronInv
    <1>2. /\ ~up /\ up' = TRUE /\ store' = st /\ diskJobs' = st /\ torn' = FALSE
          /\ actions' = IF NoChange(actions, st) THEN actions ELSE <<>>
          /\ Arm(tick, st) /\ known' = known \cup SystemJobs
          /\ UNCHANGED <<clock, timerActive, gone, done, redone, overlap, damaged>>
        BY DEF Boot
    <1>3. ~timerActive BY <1>1, <1>2 DEF TimerInv
    <1>4. OnFile = Loaded BY <1>3 DEF Loaded
    <1>5. actions' \in {actions, <<>>} /\ \A j : ~Added(actions', j)
        <2>1. \A j : ~Added(<<>>, j) BY DEF Added
        <2>2. NoChange(actions, st) => \A j : ~Added(actions, j) BY DEF NoChange, Added
        <2> QED BY <1>2, <2>1, <2>2
    <1>6. /\ DOMAIN OnFile \subseteq known
          /\ damaged \/ \A j \in known \ gone : j \in DOMAIN OnFile
          /\ damaged \/ \A j \in gone \ Shots : j \notin DOMAIN OnFile
        BY <1>3, <1>4, LoadedIs
    <1>7. SystemJobs \subseteq CronJobs /\ known \subseteq CronJobs BY <1>1 DEF CronJobs, CronTyped
    <1>8. jobs \subseteq known' /\ jobs \subseteq CronJobs BY <1>2, <1>6, <1>7
    <1>9. \A j \in jobs : NextRun(j) \in Nat /\ (NextRun(j) = Never \/ NextRun(j) > clock) BY <1>1, NextRunIs
    <1>10. damaged \/ \A j \in known' \ gone : j \in jobs BY <1>2, <1>6
    <1>11. damaged \/ \A j \in gone \ Shots : j \notin jobs BY <1>1, <1>6 DEF GoneInv
    <1>12. DOMAIN st = jobs /\ \A j \in jobs : st[j] = NextRun(j) OBVIOUS
    <1> HIDE DEF jobs
    <1>13. st \in Stores BY <1>8, <1>9 DEF Stores
    <1>14. overlap \/ \A d \in done : d[2] <= clock BY <1>1 DEF RunInv
    <1>15. overlap \/ \A j \in DOMAIN st : st[j] # Never => <<j, st[j]>> \notin done
        <2> SUFFICES ASSUME ~overlap, NEW j \in jobs, st[j] # Never, <<j, st[j]>> \in done PROVE FALSE BY <1>12
        <2>1. st[j] > clock /\ st[j] \in Nat /\ st[j] <= clock BY <1>9, <1>12, <1>14
        <2>2. clock \in Nat BY <1>1 DEF CronTyped
        <2> QED BY <2>1, <2>2
    <1> HIDE DEF st
    <1>16. done \subseteq known' \X Nat BY <1>1, <1>2 DEF CronTyped
    <1>17. gone \subseteq known' /\ gone \cap SystemJobs \subseteq Shots /\ known' \subseteq CronJobs /\ timerActive \in BOOLEAN
        BY <1>1, <1>2, <1>7 DEF CronTyped, GoneInv
    <1>18. tick \in [Ticks -> Tasks] /\ \A t \in Ticks : tick[t].pc \in {"sleep", "exec"} => t = timer
        BY <1>1 DEF CronTyped, TimerInv
    <1>19. UNCHANGED <<clock, gone, done, redone, overlap, damaged>> /\ timerActive' \in BOOLEAN BY <1>2, <1>17
    <1> QED BY <1>2, <1>5, <1>8, <1>10, <1>11, <1>12, <1>13, <1>14, <1>15, <1>16, <1>17, <1>18, <1>19, SavedKeeps

\* The store is read, and what was merged is written.
LEMMA ReadKeeps ==
    ASSUME CronInv, up, up', store' = Loaded, ReadFiles, UNCHANGED <<known, gone, done, damaged>>
    PROVE  /\ store' \in Stores /\ diskJobs' \in Stores /\ actions' \in Seq(Entries) /\ torn' \in BOOLEAN
           /\ AddsFirst(actions')
           /\ \A i \in DOMAIN actions' : actions'[i].job \in known /\ (actions'[i].op = "del" => actions'[i].job \in gone)
           /\ DOMAIN store' \subseteq known /\ DOMAIN diskJobs' \subseteq known
           /\ \A j : Added(actions', j) => Added(actions, j) /\ timerActive /\ j \notin DOMAIN store' \cup DOMAIN diskJobs'
           /\ KeptInv' /\ GoneInv'
           /\ (\A t \in Ticks : tick[t].pc # "exec") => ~torn' /\ store' = diskJobs'
           /\ overlap \/ \A j \in DOMAIN store' : store'[j] # Never => <<j, store'[j]>> \notin done
    <1>1. CronTyped /\ TimerInv /\ SavedInv /\ LogInv /\ KeptInv /\ GoneInv /\ RunInv BY DEF CronInv
    <1>2. /\ Loaded \in Stores /\ DOMAIN Loaded \subseteq known
          /\ \A j \in DOMAIN Loaded : ~Added(Left, j)
          /\ ~timerActive => (damaged \/ \A j \in known \ gone : j \in DOMAIN Loaded)
                             /\ (damaged \/ \A j \in gone \ Shots : j \notin DOMAIN Loaded)
          /\ overlap \/ \A j \in DOMAIN Loaded : Loaded[j] # Never => <<j, Loaded[j]>> \notin done
        BY LoadedIs
    <1>3. \A j : ~Added(<<>>, j) BY DEF Added
    <1>4. actions \in Seq(Entries) /\ AddsFirst(actions) BY <1>1 DEF CronTyped, LogInv
    <1>5. CASE timerActive
        <2>1. Loaded = store /\ Left = actions /\ UNCHANGED <<diskJobs, torn, actions>>
            BY <1>5 DEF Loaded, Left, Merges, ReadFiles, files
        <2>2. \A j : Added(actions, j) => j \in known BY <1>1 DEF LogInv, Added
        <2>3. \A j : Added(actions, j) => j \notin DOMAIN store \cup DOMAIN diskJobs BY <1>1, <2>2 DEF LogInv
        <2>4. KeptInv' BY <1>1, <2>1 DEF KeptInv
        <2>5. GoneInv' BY <1>1, <2>1 DEF GoneInv
        <2>6. (\A t \in Ticks : tick[t].pc # "exec") => ~torn' /\ store' = diskJobs' BY <1>1, <2>1 DEF SavedInv
        <2>7. diskJobs' \in Stores /\ torn' \in BOOLEAN BY <1>1, <2>1 DEF CronTyped
        <2>8. /\ \A i \in DOMAIN actions' : actions'[i].job \in known /\ (actions'[i].op = "del" => actions'[i].job \in gone)
              /\ DOMAIN diskJobs' \subseteq known
            BY <1>1, <2>1 DEF LogInv
        <2> QED BY <1>2, <1>4, <1>5, <2>1, <2>3, <2>4, <2>5, <2>6, <2>7, <2>8
    <1>6. CASE ~timerActive
        <2>1. Loaded = OnFile /\ actions' = Left BY <1>6 DEF Left, Loaded, ReadFiles, files
        <2>2. \A j : ~Added(actions', j)
            <3> QED BY <1>3, <1>6, <2>1, NoChangeIs DEF Left
        <2>3. \/ diskJobs' = Loaded /\ torn' = FALSE
              \/ diskJobs' = diskJobs /\ torn' = torn /\ Left = actions /\ OnFile = FileJobs
            BY <1>6, NoChangeIs DEF ReadFiles, Left, files
        <2>4. diskJobs' \in Stores /\ torn' \in BOOLEAN /\ DOMAIN diskJobs' \subseteq known
            BY <1>1, <1>2, <2>3 DEF CronTyped, LogInv
        <2>5. /\ actions' \in Seq(Entries) /\ AddsFirst(actions')
              /\ \A i \in DOMAIN actions' : actions'[i].job \in known /\ (actions'[i].op = "del" => actions'[i].job \in gone)
            <3>1. actions' = <<>> \/ actions' = actions BY <2>1 DEF Left
            <3>2. CASE actions' = <<>> BY <3>2 DEF AddsFirst
            <3>3. CASE actions' = actions BY <1>1, <1>4, <3>3 DEF LogInv
            <3> QED BY <3>1, <3>2, <3>3
        <2>6. KeptInv'
            <3> SUFFICES ASSUME ~damaged PROVE KeptInv' BY DEF KeptInv
            <3>1. ~torn' BY <1>1, <2>3 DEF KeptInv
            <3>2. \A j \in known \ gone : j \in DOMAIN store' BY <1>2, <1>6
            <3>3. \A j \in known \ gone : j \in DOMAIN diskJobs'
                <4>1. CASE diskJobs' = Loaded BY <3>2, <4>1
                <4>2. CASE diskJobs' = diskJobs /\ Left = actions
                    <5>1. \A j : ~Added(actions, j) BY <2>1, <2>2, <4>2
                    <5> QED BY <1>1, <4>2, <5>1 DEF KeptInv
                <4> QED BY <2>3, <4>1, <4>2
            <3> QED BY <3>1, <3>2, <3>3 DEF KeptInv
        <2>7. GoneInv'
            <3> SUFFICES ASSUME ~damaged, NEW j \in gone \ Shots
                         PROVE  Deleted(actions', j) \/ (j \notin DOMAIN store' \cup DOMAIN diskJobs' /\ ~Added(actions', j))
                BY <1>1 DEF GoneInv
            <3>1. j \notin DOMAIN store' BY <1>2, <1>6
            <3>2. CASE diskJobs' = Loaded BY <2>2, <3>1, <3>2
            <3>3. CASE diskJobs' = diskJobs /\ Left = actions
                <4>1. Deleted(actions, j) \/ j \notin DOMAIN diskJobs BY <1>1 DEF GoneInv
                <4> QED BY <2>1, <2>2, <3>1, <3>3, <4>1
            <3> QED BY <2>3, <3>2, <3>3
        <2>8. ASSUME \A t \in Ticks : tick[t].pc # "exec" PROVE ~torn' /\ store' = diskJobs'
            <3>1. ~torn BY <1>1, <2>8 DEF SavedInv
            <3>2. FileJobs = diskJobs BY <3>1 DEF FileJobs
            <3> QED BY <2>1, <2>3, <3>1, <3>2
        <2> QED BY <1>2, <2>2, <2>4, <2>5, <2>6, <2>7, <2>8
    <1> QED BY <1>5, <1>6

\* The timer goes off.
LEMMA FireKeeps == ASSUME CronInv, CronAssumption, NEW t \in Ticks, Fire(t) PROVE CronInv'
    <1>1. CronTyped /\ TimerInv /\ SavedInv /\ LogInv /\ KeptInv /\ GoneInv /\ RunInv BY DEF CronInv
    <1>2. tick[t].pc = "sleep" /\ UNCHANGED <<clock, up, known, gone, done, damaged>> BY DEF Fire
    <1>3. t = timer /\ up
        <2>1. t # NoTick BY DEF Ticks, NoTick
        <2>2. t = timer /\ up = (timer # NoTick) BY <1>1, <1>2 DEF TimerInv
        <2> QED BY <2>1, <2>2
    <1>4. /\ Staled \in [Ticks -> Tasks]
          /\ \A u \in Ticks : Staled[u].pc = tick[u].pc /\ Staled[u].todo = tick[u].todo /\ Staled[u].cur = tick[u].cur
          /\ Staled[t].stale = tick[t].stale
        BY <1>1, <1>2, StaledIs
    <1>5. CASE DueIn(Loaded) = {}
        <2> DEFINE tk == [Staled EXCEPT ![t] = NoTask]
        <2>1. /\ SaveStore(Loaded) /\ timerActive' = FALSE /\ Arm(tk, Loaded) /\ UNCHANGED <<redone, overlap>>
            BY <1>5 DEF Fire
        <2>2. store' = Loaded /\ diskJobs' = Loaded /\ torn' = FALSE /\ actions' = Left
            BY <2>1 DEF SaveStore, Left
        <2>3. NoTask \in Tasks /\ NoTask.pc = "free" BY DEF NoTask, Tasks, Never
        <2>4. tk \in [Ticks -> Tasks] /\ \A u \in Ticks : tk[u].pc \in {"sleep", "exec"} => u = timer
            BY <1>1, <1>3, <1>4, <2>3 DEF TimerInv
        <2> HIDE DEF tk
        <2>5. /\ Loaded \in Stores /\ DOMAIN Loaded \subseteq known
              /\ \A j \in DOMAIN Loaded : ~Added(Left, j)
              /\ damaged \/ \A j \in known \ gone : j \in DOMAIN Loaded \/ Added(Left, j)
              /\ damaged \/ \A j \in gone \ Shots : Deleted(Left, j) \/ (j \notin DOMAIN Loaded /\ ~Added(Left, j))
              /\ overlap \/ \A j \in DOMAIN Loaded : Loaded[j] # Never => <<j, Loaded[j]>> \notin done
            BY <1>3, LoadedIs
        <2>6. Left \in {actions, <<>>} /\ \A j : Added(Left, j) => Added(actions, j) /\ j \in known
            BY <1>1 DEF Left, Added, LogInv
        <2>7. \A j : Added(Left, j) => \A d \in done : d[1] # j BY <1>1, <2>6 DEF LogInv
        <2>8. /\ known \subseteq CronJobs /\ gone \subseteq known /\ gone \cap SystemJobs \subseteq Shots
              /\ done \subseteq known \X Nat /\ (overlap \/ \A d \in done : d[2] <= clock)
            BY <1>1 DEF CronTyped, GoneInv, RunInv
        <2> QED BY <1>2, <1>3, <2>1, <2>2, <2>4, <2>5, <2>6, <2>7, <2>8, SavedKeeps
    <1>6. CASE DueIn(Loaded) # {}
        <2>1. /\ store' = Loaded /\ timerActive' = TRUE /\ timer' = timer /\ Begin(Staled, t, DueIn(Loaded), Loaded)
              /\ ReadFiles
            BY <1>6 DEF Fire
        <2>2. /\ store' \in Stores /\ diskJobs' \in Stores /\ actions' \in Seq(Entries) /\ torn' \in BOOLEAN
              /\ AddsFirst(actions')
              /\ \A i \in DOMAIN actions' : actions'[i].job \in known /\ (actions'[i].op = "del" => actions'[i].job \in gone)
              /\ DOMAIN store' \subseteq known /\ DOMAIN diskJobs' \subseteq known
              /\ \A j : Added(actions', j) => Added(actions, j) /\ timerActive /\ j \notin DOMAIN store' \cup DOMAIN diskJobs'
              /\ KeptInv' /\ GoneInv'
              /\ overlap \/ \A j \in DOMAIN store' : store'[j] # Never => <<j, store'[j]>> \notin done
            BY <1>2, <1>3, <2>1, ReadKeeps
        <2> DEFINE due == DueIn(Loaded)
        <2>3. /\ due \subseteq DOMAIN Loaded /\ due \subseteq known /\ due \in SUBSET CronJobs
              /\ \A j \in due : Loaded[j] # Never
              /\ DueIn(store)' = due
            BY <1>1, <1>2, <2>1, <2>2 DEF DueIn, CronTyped
        <2>4. /\ Begin(Staled, t, due, Loaded) /\ Loaded \in Stores /\ Staled \in [Ticks -> Tasks]
              /\ due \in SUBSET CronJobs
            BY <1>4, <2>1, <2>2, <2>3
        <2> HIDE DEF due
        <2>5. Began(Staled, t, due, Loaded) BY <2>4, BeginIs
        <2>6. PICK j \in due :
                  /\ tick'[t].pc = "exec" /\ tick'[t].todo = due \ {j} /\ tick'[t].cur = j
                  /\ tick'[t].stale = Staled[t].stale /\ tick'[t].occ = Loaded[j]
                  /\ <<j, Loaded[j]>> \in done \/ redone' = redone
            BY <2>3, <2>5 DEF Began
        <2>7. \A u \in Ticks \ {t} : tick'[u].pc = tick[u].pc /\ tick'[u].pc \notin {"sleep", "exec"}
            BY <1>1, <1>3, <1>4, <2>5 DEF TimerInv, Began
        <2>8. CronTyped' BY <1>1, <1>2, <2>1, <2>2, <2>5 DEF CronTyped, Began
        <2>9. TimerInv' BY <1>1, <1>2, <1>3, <2>1, <2>6, <2>7 DEF TimerInv
        <2>10. SavedInv' BY <2>6 DEF SavedInv
        <2>11. LogInv'
            <3>1. \A u \in Ticks : tick'[u].pc = "exec" =>
                      tick'[u].cur \in known /\ tick'[u].todo \subseteq known /\ tick'[u].todo \cup {tick'[u].cur} \subseteq DOMAIN store'
                BY <2>1, <2>3, <2>6, <2>7
            <3>2. \A i \in known : Added(actions', i) => \A d \in done : d[1] # i BY <1>1, <2>2 DEF LogInv
            <3> QED BY <1>2, <2>2, <3>1, <3>2 DEF LogInv
        <2>12. RunInv'
            <3> SUFFICES ASSUME ~overlap' PROVE RunInv' BY DEF RunInv
            <3>1. ~overlap /\ \A u \in Ticks : tick'[u].pc # "cut" BY <1>4, <2>5, <2>6 DEF Began
            <3>2. ~tick'[t].stale BY <1>1, <1>2, <1>4, <2>6 DEF TimerInv
            <3>3. <<j, Loaded[j]>> \notin done BY <2>1, <2>2, <2>3, <2>6, <3>1
            <3>4. redone' = {} /\ \A d \in done' : d[2] <= clock' BY <1>1, <1>2, <2>6, <3>1, <3>3 DEF RunInv
            <3>5. \A i \in DOMAIN store' : store'[i] # Never => <<i, store'[i]>> \notin done' BY <1>2, <2>2, <3>1
            <3>6. \A u \in Ticks : tick'[u].pc = "exec" =>
                     /\ ~tick'[u].stale /\ tick'[u].cur \in due \ tick'[u].todo /\ tick'[u].todo \subseteq due
                     /\ tick'[u].occ = store'[tick'[u].cur]
                BY <2>1, <2>6, <2>7, <3>2
            <3> QED BY <2>1, <2>3, <3>1, <3>4, <3>5, <3>6 DEF RunInv
        <2> QED BY <2>2, <2>8, <2>9, <2>10, <2>11, <2>12 DEF CronInv
    <1> QED BY <1>5, <1>6

\* A job has ended: the next one is begun, or the store is saved.
LEMMA FinishKeeps == ASSUME CronInv, CronAssumption, NEW t \in Ticks, FinishJob(t) PROVE CronInv'
    <1> DEFINE cur == tick[t].cur
               todo == tick[t].todo
               stale == tick[t].stale
               st == IF cur \in Shots THEN Without1(store, cur)
                     ELSE IF stale \/ cur \notin DOMAIN store THEN store
                     ELSE [store EXCEPT ![cur] = NextRun(cur)]
    <1>1. CronTyped /\ TimerInv /\ SavedInv /\ LogInv /\ KeptInv /\ GoneInv /\ RunInv BY DEF CronInv
    <1>2. /\ tick[t].pc = "exec" /\ store' = st /\ done' = done \cup {<<cur, tick[t].occ>>}
          /\ gone' = gone \cup ({cur} \cap Shots) /\ UNCHANGED <<clock, up, known, damaged>>
        BY DEF FinishJob
    <1>3. t = timer /\ up
        <2>1. t # NoTick BY DEF Ticks, NoTick
        <2>2. t = timer /\ up = (timer # NoTick) BY <1>1, <1>2 DEF TimerInv
        <2> QED BY <2>1, <2>2
    <1>4. tick[t] \in Tasks /\ tick[t].occ \in Nat /\ todo \subseteq CronJobs /\ cur \in known /\ todo \subseteq known
        <2>1. tick[t] \in Tasks BY <1>1 DEF CronTyped
        <2>2. tick[t].occ \in Nat /\ todo \subseteq CronJobs BY <2>1 DEF Tasks
        <2> QED BY <1>1, <1>2, <2>1, <2>2 DEF LogInv
    <1>5. store \in Stores /\ NextRun(cur) \in Nat /\ (NextRun(cur) = Never \/ NextRun(cur) > clock)
        BY <1>1, NextRunIs DEF CronTyped
    <1>6. /\ st \in Stores /\ DOMAIN st \subseteq DOMAIN store
          /\ \A j \in DOMAIN st : j # cur => st[j] = store[j]
          /\ cur \in Shots => DOMAIN st = DOMAIN store \ {cur}
          /\ cur \notin Shots => DOMAIN st = DOMAIN store
          /\ ~stale /\ cur \in DOMAIN st => st[cur] = NextRun(cur)
        <2> HIDE DEF cur, stale
        <2>1. store \in [DOMAIN store -> Nat] /\ DOMAIN store \subseteq CronJobs BY <1>5 DEF Stores
        <2>2. CASE cur \in Shots
            <3>1. st = [j \in DOMAIN store \ {cur} |-> store[j]] BY <2>2 DEF Without1, Restrict
            <3> HIDE DEF st
            <3>2. st \in [DOMAIN store \ {cur} -> Nat] /\ DOMAIN store \ {cur} \in SUBSET CronJobs BY <2>1, <3>1
            <3> QED BY <2>2, <3>1, <3>2 DEF Stores
        <2>3. CASE cur \notin Shots /\ (stale \/ cur \notin DOMAIN store)
            <3>1. st = store BY <2>3
            <3> HIDE DEF st
            <3> QED BY <1>5, <2>3, <3>1
        <2>4. CASE cur \notin Shots /\ ~stale /\ cur \in DOMAIN store
            <3>1. st = [store EXCEPT ![cur] = NextRun(cur)] BY <2>4
            <3> HIDE DEF st
            <3>2. st \in [DOMAIN store -> Nat] /\ DOMAIN store \in SUBSET CronJobs BY <1>5, <2>1, <3>1
            <3> QED BY <1>5, <2>1, <2>4, <3>1, <3>2 DEF Stores
        <2> QED BY <2>2, <2>3, <2>4
    <1> HIDE DEF st
    <1>7. done' \subseteq known \X Nat BY <1>1, <1>2, <1>4 DEF CronTyped
    <1>8. \A j : Added(actions, j) => j \in known /\ j # cur /\ j \notin todo /\ j \notin DOMAIN store \cup DOMAIN diskJobs
                                      /\ \A d \in done' : d[1] # j
        <2> SUFFICES ASSUME NEW j, Added(actions, j)
                     PROVE  j \in known /\ j # cur /\ j \notin todo /\ j \notin DOMAIN store \cup DOMAIN diskJobs
                            /\ \A d \in done' : d[1] # j
            OBVIOUS
        <2>1. j \in known BY <1>1 DEF LogInv, Added
        <2>2. /\ j \notin DOMAIN store \cup DOMAIN diskJobs /\ j \notin todo \cup {cur} /\ \A d \in done : d[1] # j
            BY <1>1, <1>2, <2>1 DEF LogInv
        <2> HIDE DEF cur, todo
        <2> QED BY <1>2, <2>1, <2>2
    <1>9. damaged \/ \A j \in known \ gone' : (j \in DOMAIN st /\ j \in DOMAIN diskJobs) \/ Added(actions, j)
        <2>1. damaged \/ \A j \in known \ gone : (j \in DOMAIN store /\ j \in DOMAIN diskJobs) \/ Added(actions, j)
            BY <1>1, <1>3 DEF KeptInv
        <2> QED BY <1>2, <1>6, <2>1
    <1>10. /\ gone \subseteq gone' /\ gone' \subseteq known /\ gone' \cap SystemJobs \subseteq Shots
           /\ gone' \ Shots = gone \ Shots
        BY <1>1, <1>2, <1>4 DEF GoneInv, CronTyped
    <1>11. \/ damaged
           \/ \A j \in gone' \ Shots : \/ Deleted(actions, j)
                                       \/ j \notin DOMAIN st \cup DOMAIN diskJobs /\ ~Added(actions, j)
        BY <1>1, <1>6, <1>10 DEF GoneInv
    <1>12. ASSUME ~overlap
           PROVE  /\ timerActive /\ ~stale /\ \A u \in Ticks : tick[u].pc # "cut"
                  /\ cur \in DueIn(store) \ todo /\ todo \subseteq DueIn(store) /\ tick[t].occ = store[cur] /\ redone = {}
                  /\ \A d \in done' : d[2] <= clock
                  /\ \A j \in DOMAIN st : st[j] # Never => <<j, st[j]>> \notin done'
        <2>1. /\ timerActive /\ ~stale /\ \A u \in Ticks : tick[u].pc # "cut"
              /\ cur \in DueIn(store) \ todo /\ todo \subseteq DueIn(store) /\ tick[t].occ = store[cur] /\ redone = {}
              /\ \A d \in done : d[2] <= clock
              /\ \A j \in DOMAIN store : store[j] # Never => <<j, store[j]>> \notin done
            BY <1>1, <1>2, <1>12 DEF RunInv
        <2>2. store[cur] <= clock BY <2>1 DEF DueIn
        <2> HIDE DEF cur, todo, stale
        <2>3. \A d \in done' : d[2] <= clock
            <3>1. <<cur, tick[t].occ>>[2] <= clock BY <2>1, <2>2
            <3> QED BY <1>2, <2>1, <3>1
        <2>4. \A j \in DOMAIN st : st[j] # Never => <<j, st[j]>> \notin done'
            <3> SUFFICES ASSUME NEW j \in DOMAIN st, st[j] # Never, <<j, st[j]>> \in done' PROVE FALSE OBVIOUS
            <3>1. CASE j = cur
                <4>1. st[j] > clock BY <1>5, <1>6, <2>1, <3>1
                <4>2. <<j, st[j]>>[2] <= clock BY <2>3
                <4>3. st[j] \in Nat /\ clock \in Nat BY <1>1, <1>6 DEF Stores, CronTyped
                <4> QED BY <4>1, <4>2, <4>3
            <3>2. CASE j # cur
                <4>1. st[j] = store[j] /\ j \in DOMAIN store BY <1>6, <3>2
                <4>2. <<j, st[j]>> \in done BY <1>2, <3>2
                <4> QED BY <2>1, <4>1, <4>2
            <3> QED BY <3>1, <3>2
        <2> QED BY <2>1, <2>3, <2>4
    <1>13. CASE todo = {}
        <2> DEFINE tk == [tick EXCEPT ![t] = NoTask]
        <2>1. diskJobs' = st /\ torn' = FALSE /\ actions' = actions /\ timerActive' = FALSE /\ Arm(tk, st)
              /\ UNCHANGED <<redone, overlap>>
            BY <1>13 DEF FinishJob, st
        <2>2. NoTask \in Tasks /\ NoTask.pc = "free" BY DEF NoTask, Tasks, Never
        <2>3. tk \in [Ticks -> Tasks] /\ \A u \in Ticks : tk[u].pc \in {"sleep", "exec"} => u = timer
            BY <1>1, <1>3, <2>2 DEF TimerInv, CronTyped
        <2> HIDE DEF tk, cur, todo, stale
        <2>4. DOMAIN st \subseteq known /\ known \subseteq CronJobs BY <1>1, <1>6 DEF LogInv, CronTyped
        <2>5. \A j \in DOMAIN st : ~Added(actions, j) BY <1>6, <1>8
        <2>6. overlap \/ \A d \in done' : d[2] <= clock BY <1>12
        <2>7. overlap \/ \A j \in DOMAIN st : st[j] # Never => <<j, st[j]>> \notin done' BY <1>12
        <2>8. damaged \/ \A j \in known \ gone' : j \in DOMAIN st \/ Added(actions, j) BY <1>9
        <2>9. damaged \/ \A j \in gone' \ Shots : Deleted(actions, j) \/ (j \notin DOMAIN st /\ ~Added(actions, j)) BY <1>11
        <2>10. \A j : Added(actions, j) => \A d \in done' : d[1] # j BY <1>8
        <2> QED BY <1>2, <1>3, <1>6, <1>7, <1>10, <2>1, <2>3, <2>4, <2>5, <2>6, <2>7, <2>8, <2>9, <2>10, SavedKeeps
    <1>14. CASE todo # {}
        <2>1. Begin(tick, t, todo, st) /\ UNCHANGED <<diskJobs, torn, actions, timerActive, timer>>
            BY <1>14 DEF FinishJob, st, files
        <2>2. tick \in [Ticks -> Tasks] /\ todo \in SUBSET CronJobs BY <1>1, <1>4 DEF CronTyped
        <2> HIDE DEF cur, todo, stale
        <2>3. Began(tick, t, todo, st) BY <1>6, <2>1, <2>2, BeginIs
        <2>4. PICK j \in todo :
                  /\ tick'[t].pc = "exec" /\ tick'[t].todo = todo \ {j} /\ tick'[t].cur = j
                  /\ tick'[t].stale = tick[t].stale /\ (j \in DOMAIN st => tick'[t].occ = st[j])
                  /\ (j \in DOMAIN st /\ <<j, st[j]>> \in done) \/ redone' = redone
            BY <2>3 DEF Began
        <2>5. \A u \in Ticks \ {t} : tick'[u] = tick[u] /\ tick'[u].pc \notin {"sleep", "exec"}
            BY <1>1, <1>3, <2>3 DEF TimerInv, Began
        <2>6. CronTyped' BY <1>1, <1>2, <1>6, <1>7, <1>10, <2>1, <2>3 DEF CronTyped, Began
        <2>7. TimerInv' BY <1>1, <1>2, <1>3, <2>1, <2>4, <2>5 DEF TimerInv
        <2>8. SavedInv' BY <2>4 DEF SavedInv
        <2>9. LogInv'
            <3>1. \A u \in Ticks : tick'[u].pc = "exec" =>
                      tick'[u].cur \in todo /\ tick'[u].todo \subseteq todo
                BY <2>4, <2>5
            <3>2. /\ AddsFirst(actions') /\ DOMAIN store' \subseteq known /\ DOMAIN diskJobs' \subseteq known
                  /\ \A i \in DOMAIN actions' : actions'[i].job \in known /\ (actions'[i].op = "del" => actions'[i].job \in gone')
                BY <1>1, <1>2, <1>6, <1>10, <2>1 DEF LogInv
            <3>3. \A i : Added(actions', i) =>
                      /\ i \notin DOMAIN store' \cup DOMAIN diskJobs'
                      /\ \A u \in Ticks : tick'[u].pc = "exec" => i \notin tick'[u].todo \cup {tick'[u].cur}
                      /\ \A d \in done' : d[1] # i
                BY <1>2, <1>6, <1>8, <2>1, <3>1
            <3> QED BY <1>2, <1>4, <3>1, <3>2, <3>3 DEF LogInv
        <2>10. KeptInv' BY <1>1, <1>2, <1>9, <2>1 DEF KeptInv
        <2>11. GoneInv' BY <1>2, <1>10, <1>11, <2>1 DEF GoneInv
        <2>12. RunInv'
            <3> SUFFICES ASSUME ~overlap' PROVE RunInv' BY DEF RunInv
            <3>1. ~overlap BY <2>3 DEF Began
            <3>2. /\ timerActive /\ ~stale /\ \A u \in Ticks : tick[u].pc # "cut"
                  /\ cur \in DueIn(store) \ todo /\ todo \subseteq DueIn(store) /\ redone = {}
                  /\ \A d \in done' : d[2] <= clock
                  /\ \A i \in DOMAIN st : st[i] # Never => <<i, st[i]>> \notin done'
                BY <1>12, <3>1
            <3>3. \A i \in todo : i \in DOMAIN st /\ st[i] = store[i] /\ i # cur BY <1>6, <3>2 DEF DueIn
            <3>4. todo \subseteq DueIn(store)' BY <1>2, <3>2, <3>3 DEF DueIn
            <3>5. st[j] # Never BY <3>2, <3>3 DEF DueIn
            <3>6. redone' = {} BY <1>2, <2>4, <3>2, <3>3, <3>5
            <3>7. ~tick'[t].stale BY <2>4, <3>2 DEF stale
            <3>8. \A u \in Ticks : tick'[u].pc # "cut" BY <2>4, <2>5, <3>2
            <3>9. \A u \in Ticks : tick'[u].pc = "exec" =>
                     /\ ~tick'[u].stale /\ tick'[u].cur \in todo \ tick'[u].todo /\ tick'[u].todo \subseteq todo
                     /\ tick'[u].occ = store'[tick'[u].cur]
                BY <1>2, <2>4, <2>5, <3>3, <3>7
            <3> QED BY <1>2, <2>1, <3>2, <3>4, <3>6, <3>8, <3>9 DEF RunInv
        <2> QED BY <2>6, <2>7, <2>8, <2>9, <2>10, <2>11, <2>12 DEF CronInv
    <1> QED BY <1>13, <1>14

\* A cancelled tick ends.
LEMMA UnwindKeeps == ASSUME CronInv, NEW t \in Ticks, Unwind(t) PROVE CronInv'
    <1>1. CronTyped /\ TimerInv /\ SavedInv /\ LogInv /\ KeptInv /\ GoneInv /\ RunInv BY DEF CronInv
    <1>2. /\ tick[t].pc = "cut" /\ tick' = [tick EXCEPT ![t] = NoTask] /\ timerActive' = FALSE
          /\ UNCHANGED <<clock, up, store, timer, diskJobs, torn, actions, known, gone, done, redone, overlap, damaged>>
        BY DEF Unwind, files, cronHistory
    <1>3. NoTask \in Tasks /\ NoTask.pc = "free" BY DEF NoTask, Tasks, Never
    <1>4. tick' \in [Ticks -> Tasks] /\ tick'[t].pc = "free" /\ \A u \in Ticks \ {t} : tick'[u] = tick[u]
        BY <1>1, <1>2, <1>3 DEF CronTyped
    <1>5. \A u \in Ticks : tick'[u].pc \in {"sleep", "exec"} => tick'[u] = tick[u] BY <1>4
    <1>6. CronTyped' BY <1>1, <1>2, <1>4 DEF CronTyped
    <1>7. TimerInv'
        <2>1. up' => tick'[timer'].pc \in {"sleep", "exec"}
            <3> SUFFICES ASSUME up PROVE tick'[timer].pc \in {"sleep", "exec"} BY <1>2
            <3>1. tick[timer].pc \in {"sleep", "exec"} /\ timer \in Ticks BY <1>1 DEF TimerInv, CronTyped
            <3> QED BY <1>2, <1>4, <3>1
        <2> QED BY <1>1, <1>2, <1>5, <2>1 DEF TimerInv
    <1>8. SavedInv' BY <1>1, <1>2, <1>4 DEF SavedInv
    <1>9. LogInv' BY <1>1, <1>2, <1>5 DEF LogInv
    <1>10. KeptInv' /\ GoneInv' BY <1>1, <1>2 DEF KeptInv, GoneInv
    <1>11. RunInv' BY <1>1, <1>2, <1>5 DEF RunInv, DueIn
    <1> QED BY <1>6, <1>7, <1>8, <1>9, <1>10, <1>11 DEF CronInv

\* The tool adds a job.
LEMMA AddJobKeeps == ASSUME CronInv, CronAssumption, NEW j \in CronJobs, AddJob(j) PROVE CronInv'
    <1> DEFINE st == [i \in DOMAIN Loaded \cup {j} |-> IF i = j THEN NextRun(j) ELSE Loaded[i]]
    <1>1. CronTyped /\ TimerInv /\ LogInv /\ GoneInv /\ RunInv BY DEF CronInv
    <1>2. /\ up /\ j \notin known /\ SaveStore(st) /\ Arm(Staled, st) /\ known' = known \cup {j}
          /\ UNCHANGED <<clock, up, timerActive, gone, done, redone, overlap, damaged>>
        BY DEF AddJob
    <1>3. store' = st /\ diskJobs' = st /\ torn' = FALSE /\ actions' = Left BY <1>2 DEF SaveStore, Left
    <1>4. /\ Loaded \in Stores /\ DOMAIN Loaded \subseteq known
          /\ \A i \in DOMAIN Loaded : ~Added(Left, i)
          /\ damaged \/ \A i \in known \ gone : i \in DOMAIN Loaded \/ Added(Left, i)
          /\ damaged \/ \A i \in gone \ Shots : Deleted(Left, i) \/ (i \notin DOMAIN Loaded /\ ~Added(Left, i))
          /\ overlap \/ \A i \in DOMAIN Loaded : Loaded[i] # Never => <<i, Loaded[i]>> \notin done
        BY <1>2, LoadedIs
    <1>5. NextRun(j) \in Nat BY <1>1, NextRunIs
    <1>6. DOMAIN st = DOMAIN Loaded \cup {j} /\ st[j] = NextRun(j) /\ \A i \in DOMAIN Loaded : i # j => st[i] = Loaded[i]
        OBVIOUS
    <1>7. st \in Stores
        <2>1. \A i \in DOMAIN Loaded : Loaded[i] \in Nat /\ i \in CronJobs BY <1>4 DEF Stores
        <2>2. st \in [DOMAIN Loaded \cup {j} -> Nat] /\ DOMAIN Loaded \cup {j} \in SUBSET CronJobs BY <1>5, <2>1
        <2> HIDE DEF st
        <2> QED BY <2>2 DEF Stores
    <1> HIDE DEF st
    <1>8. Left \in {actions, <<>>} /\ \A i : Added(Left, i) => Added(actions, i) /\ i \in known
        BY <1>1 DEF Left, Added, LogInv
    <1>9. \A i : Added(Left, i) => \A d \in done : d[1] # i BY <1>1, <1>8 DEF LogInv
    <1>10. /\ known' \subseteq CronJobs /\ DOMAIN st \subseteq known' /\ gone \subseteq known /\ gone \subseteq known'
           /\ gone \cap SystemJobs \subseteq Shots /\ done \subseteq known \X Nat /\ done \subseteq known' \X Nat
           /\ (overlap \/ \A d \in done : d[2] <= clock) /\ timerActive \in BOOLEAN
        BY <1>1, <1>2, <1>4, <1>6 DEF CronTyped, GoneInv, RunInv
    <1>11. \A i \in DOMAIN st : ~Added(Left, i) BY <1>2, <1>4, <1>6, <1>8
    <1>12. damaged \/ \A i \in known' \ gone : i \in DOMAIN st \/ Added(Left, i) BY <1>2, <1>4, <1>6
    <1>13. damaged \/ \A i \in gone \ Shots : Deleted(Left, i) \/ (i \notin DOMAIN st /\ ~Added(Left, i))
        <2>1. j \notin gone BY <1>2, <1>10
        <2> QED BY <1>4, <1>6, <2>1
    <1>14. overlap \/ \A i \in DOMAIN st : st[i] # Never => <<i, st[i]>> \notin done
        <2>1. \A n : <<j, n>> \notin done BY <1>2, <1>10
        <2> QED BY <1>4, <1>6, <2>1
    <1>15. Staled \in [Ticks -> Tasks] /\ \A t \in Ticks : Staled[t].pc \in {"sleep", "exec"} => t = timer
        BY <1>1, StaledIs DEF TimerInv
    <1> QED BY <1>2, <1>3, <1>7, <1>8, <1>9, <1>10, <1>11, <1>12, <1>13, <1>14, <1>15, SavedKeeps

\* The tool removes a job.
LEMMA RemoveJobKeeps == ASSUME CronInv, CronAssumption, NEW j \in CronJobs, RemoveJob(j) PROVE CronInv'
    <1> DEFINE st == Without1(Loaded, j)
    <1>1. CronTyped /\ TimerInv /\ LogInv /\ GoneInv /\ RunInv BY DEF CronInv
    <1>2. /\ up /\ j \in DOMAIN Loaded \ SystemJobs /\ SaveStore(st) /\ Arm(Staled, st) /\ gone' = gone \cup {j}
          /\ UNCHANGED <<clock, up, timerActive, known, done, redone, overlap, damaged>>
        BY DEF RemoveJob
    <1>3. store' = st /\ diskJobs' = st /\ torn' = FALSE /\ actions' = Left BY <1>2 DEF SaveStore, Left
    <1>4. /\ Loaded \in Stores /\ DOMAIN Loaded \subseteq known
          /\ \A i \in DOMAIN Loaded : ~Added(Left, i)
          /\ damaged \/ \A i \in known \ gone : i \in DOMAIN Loaded \/ Added(Left, i)
          /\ damaged \/ \A i \in gone \ Shots : Deleted(Left, i) \/ (i \notin DOMAIN Loaded /\ ~Added(Left, i))
          /\ overlap \/ \A i \in DOMAIN Loaded : Loaded[i] # Never => <<i, Loaded[i]>> \notin done
        BY <1>2, LoadedIs
    <1>5. st = [i \in DOMAIN Loaded \ {j} |-> Loaded[i]] BY DEF Without1, Restrict
    <1> HIDE DEF st
    <1>6. DOMAIN st = DOMAIN Loaded \ {j} /\ \A i \in DOMAIN st : st[i] = Loaded[i] BY <1>5
    <1>7. st \in Stores
        <2>1. \A i \in DOMAIN Loaded : Loaded[i] \in Nat /\ i \in CronJobs BY <1>4 DEF Stores
        <2>2. st \in [DOMAIN Loaded \ {j} -> Nat] /\ DOMAIN Loaded \ {j} \in SUBSET CronJobs BY <1>5, <2>1
        <2> QED BY <2>2 DEF Stores
    <1>8. Left \in {actions, <<>>} /\ \A i : Added(Left, i) => Added(actions, i) /\ i \in known
        BY <1>1 DEF Left, Added, LogInv
    <1>9. \A i : Added(Left, i) => \A d \in done : d[1] # i BY <1>1, <1>8 DEF LogInv
    <1>10. /\ known \subseteq CronJobs /\ DOMAIN st \subseteq known /\ gone \subseteq gone' /\ gone' \subseteq known
           /\ gone' \cap SystemJobs \subseteq Shots /\ done \subseteq known \X Nat
           /\ (overlap \/ \A d \in done : d[2] <= clock) /\ timerActive \in BOOLEAN
        BY <1>1, <1>2, <1>4, <1>6 DEF CronTyped, GoneInv, RunInv
    <1>11. \A i \in DOMAIN st : ~Added(Left, i) BY <1>4, <1>6
    <1>12. damaged \/ \A i \in known \ gone' : i \in DOMAIN st \/ Added(Left, i) BY <1>2, <1>4, <1>6
    <1>13. damaged \/ \A i \in gone' \ Shots : Deleted(Left, i) \/ (i \notin DOMAIN st /\ ~Added(Left, i))
        BY <1>2, <1>4, <1>6
    <1>14. overlap \/ \A i \in DOMAIN st : st[i] # Never => <<i, st[i]>> \notin done BY <1>4, <1>6
    <1>15. Staled \in [Ticks -> Tasks] /\ \A t \in Ticks : Staled[t].pc \in {"sleep", "exec"} => t = timer
        BY <1>1, StaledIs DEF TimerInv
    <1> QED BY <1>2, <1>3, <1>7, <1>8, <1>9, <1>10, <1>11, <1>12, <1>13, <1>14, <1>15, SavedKeeps

\* The tool reads the store.
LEMMA ListKeeps == ASSUME CronInv, ListJobs PROVE CronInv'
    <1>1. CronTyped /\ TimerInv /\ SavedInv /\ LogInv /\ KeptInv /\ GoneInv /\ RunInv BY DEF CronInv
    <1>2. /\ up /\ store' = Loaded /\ tick' = Staled /\ ReadFiles
          /\ UNCHANGED <<clock, up, timerActive, timer, known, gone, done, redone, overlap, damaged>>
        BY DEF ListJobs, LoadOnly, cronHistory
    <1>3. /\ store' \in Stores /\ diskJobs' \in Stores /\ actions' \in Seq(Entries) /\ torn' \in BOOLEAN
          /\ AddsFirst(actions')
          /\ \A i \in DOMAIN actions' : actions'[i].job \in known /\ (actions'[i].op = "del" => actions'[i].job \in gone)
          /\ DOMAIN store' \subseteq known /\ DOMAIN diskJobs' \subseteq known
          /\ \A j : Added(actions', j) => Added(actions, j) /\ timerActive /\ j \notin DOMAIN store' \cup DOMAIN diskJobs'
          /\ KeptInv' /\ GoneInv'
          /\ (\A t \in Ticks : tick[t].pc # "exec") => ~torn' /\ store' = diskJobs'
          /\ overlap \/ \A j \in DOMAIN store' : store'[j] # Never => <<j, store'[j]>> \notin done
        BY <1>2, ReadKeeps
    <1>4. /\ tick' \in [Ticks -> Tasks]
          /\ \A t \in Ticks : tick'[t].pc = tick[t].pc /\ tick'[t].todo = tick[t].todo /\ tick'[t].cur = tick[t].cur
          /\ \A t \in Ticks : tick[t].pc = "sleep" => tick'[t].stale = tick[t].stale
          /\ timerActive => tick' = tick
        BY <1>1, <1>2, StaledIs
    <1>5. CronTyped' BY <1>1, <1>2, <1>3, <1>4 DEF CronTyped
    <1>6. TimerInv'
        <2>1. up' => tick'[timer'].pc \in {"sleep", "exec"}
            <3>1. timer \in Ticks /\ tick[timer].pc \in {"sleep", "exec"}
                <4>1. up = (timer # NoTick) /\ timer \in Ticks \cup {NoTick} BY <1>1 DEF TimerInv, CronTyped
                <4> QED BY <1>1, <1>2, <4>1 DEF TimerInv
            <3> QED BY <1>2, <1>4, <3>1
        <2> QED BY <1>1, <1>2, <1>4, <2>1 DEF TimerInv
    <1>7. SavedInv' BY <1>3, <1>4 DEF SavedInv
    <1>8. LogInv'
        <2>1. \A j \in known : Added(actions', j) =>
                 /\ \A t \in Ticks : tick[t].pc = "exec" => j \notin tick[t].todo \cup {tick[t].cur}
                 /\ \A d \in done : d[1] # j
            BY <1>1, <1>3 DEF LogInv
        <2>2. \A t \in Ticks : tick[t].pc = "exec" => tick[t].cur \in known /\ tick[t].todo \subseteq known
            BY <1>1 DEF LogInv
        <2> QED BY <1>2, <1>3, <1>4, <2>1, <2>2 DEF LogInv
    <1>9. RunInv'
        <2> SUFFICES ASSUME ~overlap PROVE RunInv' BY <1>2 DEF RunInv
        <2>1. /\ redone = {} /\ \A d \in done : d[2] <= clock
              /\ \A t \in Ticks : tick[t].pc = "exec" =>
                    /\ timerActive /\ ~tick[t].stale /\ \A u \in Ticks : tick[u].pc # "cut"
                    /\ tick[t].cur \in DueIn(store) \ tick[t].todo /\ tick[t].todo \subseteq DueIn(store)
                    /\ tick[t].occ = store[tick[t].cur]
            BY <1>1 DEF RunInv
        <2>2. timerActive => tick' = tick /\ store' = store /\ DueIn(store)' = DueIn(store)
            BY <1>2, <1>4 DEF Loaded, DueIn
        <2>3. \A t \in Ticks : tick'[t].pc = "exec" => timerActive BY <1>4, <2>1
        <2>4. \A t \in Ticks : tick'[t].pc = "exec" =>
                    /\ timerActive' /\ ~tick'[t].stale /\ \A u \in Ticks : tick'[u].pc # "cut"
                    /\ tick'[t].cur \in DueIn(store)' \ tick'[t].todo /\ tick'[t].todo \subseteq DueIn(store)'
                    /\ tick'[t].occ = store'[tick'[t].cur]
            BY <1>2, <2>1, <2>2, <2>3
        <2>5. \A j \in DOMAIN store' : store'[j] # Never => <<j, store'[j]>> \notin done BY <1>3
        <2> QED BY <1>2, <2>1, <2>4, <2>5 DEF RunInv
    <1> QED BY <1>3, <1>5, <1>6, <1>7, <1>8, <1>9 DEF CronInv

\* What an entry more says of the jobs.
LEMMA EntryAdded ==
    ASSUME NEW log \in Seq(Entries), NEW a \in Entries
    PROVE  /\ Append(log, a) \in Seq(Entries)
           /\ \A j : Added(Append(log, a), j) <=> Added(log, j) \/ (a.op = "add" /\ a.job = j)
           /\ \A j : Deleted(Append(log, a), j) <=> Deleted(log, j) \/ (a.op = "del" /\ a.job = j)
           /\ AddsFirst(log) /\ (a.op = "add" => \A i \in DOMAIN log : log[i].job # a.job) => AddsFirst(Append(log, a))
           /\ \A P : (\A i \in DOMAIN log : log[i].job \in P) /\ a.job \in P =>
                        \A i \in DOMAIN Append(log, a) : Append(log, a)[i].job \in P
    <1> DEFINE new == Append(log, a)
    <1>1. /\ new \in Seq(Entries) /\ Len(log) \in Nat /\ DOMAIN log = 1..Len(log) /\ DOMAIN new = 1..(Len(log) + 1)
          /\ \A i \in DOMAIN log : new[i] = log[i] /\ i \in DOMAIN new
          /\ new[Len(log) + 1] = a /\ Len(log) + 1 \in DOMAIN new
        OBVIOUS
    <1> HIDE DEF new
    <1>2. \A i \in DOMAIN new : i \in DOMAIN log \/ i = Len(log) + 1 BY <1>1
    <1>3. \A j : Added(new, j) <=> Added(log, j) \/ (a.op = "add" /\ a.job = j) BY <1>1, <1>2 DEF Added
    <1>4. \A j : Deleted(new, j) <=> Deleted(log, j) \/ (a.op = "del" /\ a.job = j) BY <1>1, <1>2 DEF Deleted
    <1>5. ASSUME AddsFirst(log), a.op = "add" => \A i \in DOMAIN log : log[i].job # a.job PROVE AddsFirst(new)
        <2> SUFFICES ASSUME NEW i \in DOMAIN new, NEW k \in DOMAIN new, i < k, new[k].op = "add"
                     PROVE  new[i].job # new[k].job
            BY DEF AddsFirst
        <2>1. i \in DOMAIN log BY <1>1
        <2>2. CASE k \in DOMAIN log BY <1>1, <1>5, <2>1, <2>2 DEF AddsFirst
        <2>3. CASE k = Len(log) + 1 BY <1>1, <1>5, <2>1, <2>3
        <2> QED BY <1>2, <2>2, <2>3
    <1>6. \A P : (\A i \in DOMAIN log : log[i].job \in P) /\ a.job \in P => \A i \in DOMAIN new : new[i].job \in P
        BY <1>1, <1>2
    <1> QED BY <1>1, <1>3, <1>4, <1>5, <1>6 DEF new

\* Another process adds a job to the log.
LEMMA LogAddKeeps == ASSUME CronInv, CronAssumption, NEW j \in CronJobs, LogAdd(j) PROVE CronInv'
    <1> DEFINE a == [op |-> "add", job |-> j, next |-> NextRun(j)]
    <1>1. CronTyped /\ TimerInv /\ SavedInv /\ LogInv /\ KeptInv /\ GoneInv /\ RunInv BY DEF CronInv
    <1>2. /\ j \notin known \cup SystemJobs /\ actions' = Append(actions, a) /\ known' = known \cup {j}
          /\ UNCHANGED <<clock, up, store, timerActive, tick, timer, diskJobs, torn, gone, done, redone, overlap, damaged>>
        BY DEF LogAdd, memory
    <1>3. NextRun(j) \in Nat BY <1>1, NextRunIs
    <1>4. a \in Entries /\ a.op = "add" /\ a.job = j BY <1>3 DEF Entries
    <1> HIDE DEF a
    <1>5. actions \in Seq(Entries) /\ AddsFirst(actions) /\ \A i \in DOMAIN actions : actions[i].job \in known
        BY <1>1 DEF CronTyped, LogInv
    <1>6. /\ actions' \in Seq(Entries) /\ AddsFirst(actions')
          /\ \A i : Added(actions', i) <=> Added(actions, i) \/ i = j
          /\ \A i : Deleted(actions', i) <=> Deleted(actions, i)
          /\ \A i \in DOMAIN actions' : actions'[i].job \in known'
        BY <1>2, <1>4, <1>5, EntryAdded
    <1>7. CronTyped' BY <1>1, <1>2, <1>6 DEF CronTyped
    <1>8. TimerInv' /\ SavedInv' /\ RunInv' BY <1>1, <1>2 DEF TimerInv, SavedInv, RunInv, DueIn
    <1>9. LogInv'
        <2>1. \A i \in DOMAIN actions' : actions'[i].op = "del" => actions'[i].job \in gone
            <3>1. \A i : Deleted(actions, i) => i \in gone BY <1>1 DEF LogInv, Deleted
            <3> QED BY <1>6, <3>1 DEF Deleted
        <2>2. \A i : Added(actions, i) => i \in known BY <1>5 DEF Added
        <2>3. /\ j \notin DOMAIN store \cup DOMAIN diskJobs
              /\ \A t \in Ticks : tick[t].pc = "exec" => j \notin tick[t].todo \cup {tick[t].cur}
              /\ \A d \in done : d[1] # j
            BY <1>1, <1>2 DEF LogInv, CronTyped
        <2>4. \A i \in known : Added(actions, i) =>
                 /\ i \notin DOMAIN store \cup DOMAIN diskJobs
                 /\ \A t \in Ticks : tick[t].pc = "exec" => i \notin tick[t].todo \cup {tick[t].cur}
                 /\ \A d \in done : d[1] # i
            BY <1>1 DEF LogInv
        <2>5. /\ DOMAIN store \subseteq known /\ DOMAIN diskJobs \subseteq known
              /\ \A t \in Ticks : tick[t].pc = "exec" => tick[t].cur \in known /\ tick[t].todo \subseteq known
            BY <1>1 DEF LogInv
        <2> QED BY <1>2, <1>6, <2>1, <2>2, <2>3, <2>4, <2>5 DEF LogInv
    <1>10. KeptInv' BY <1>1, <1>2, <1>6 DEF KeptInv
    <1>11. GoneInv'
        <2>1. j \notin gone BY <1>1, <1>2 DEF CronTyped
        <2> QED BY <1>1, <1>2, <1>6, <2>1 DEF GoneInv
    <1> QED BY <1>7, <1>8, <1>9, <1>10, <1>11 DEF CronInv

\* Another process removes a job.
LEMMA LogDelKeeps == ASSUME CronInv, NEW j \in CronJobs, LogDel(j) PROVE CronInv'
    <1> DEFINE a == [op |-> "del", job |-> j, next |-> Never]
    <1>1. CronTyped /\ TimerInv /\ SavedInv /\ LogInv /\ KeptInv /\ GoneInv /\ RunInv BY DEF CronInv
    <1>2. /\ j \in DOMAIN OnFile /\ j \notin SystemJobs /\ actions' = Append(actions, a) /\ gone' = gone \cup {j}
          /\ UNCHANGED <<clock, up, store, timerActive, tick, timer, diskJobs, torn, known, done, redone, overlap, damaged>>
        BY DEF LogDel, memory
    <1>3. a \in Entries /\ a.op = "del" /\ a.job = j BY DEF Entries, Never
    <1> HIDE DEF a
    <1>4. actions \in Seq(Entries) /\ AddsFirst(actions) /\ \A i \in DOMAIN actions : actions[i].job \in known
        BY <1>1 DEF CronTyped, LogInv
    <1>5. j \in known
        <2> DEFINE file == FileJobs
        <2>1. Empty \in Stores /\ DOMAIN Empty = {}
            <3>1. Empty \in [{} -> Nat] BY DEF Empty
            <3> QED BY <3>1 DEF Stores
        <2>2. file \in Stores /\ DOMAIN file \subseteq known BY <1>1, <2>1 DEF FileJobs, CronTyped, LogInv
        <2> HIDE DEF file
        <2>3. j \in DOMAIN Merge(file, actions) BY <1>2 DEF OnFile, file
        <2>4. j \in DOMAIN file \/ Added(actions, j) BY <1>4, <2>2, <2>3, MergeIs
        <2> QED BY <1>4, <2>2, <2>4 DEF Added
    <1>6. /\ actions' \in Seq(Entries) /\ AddsFirst(actions')
          /\ \A i : Added(actions', i) <=> Added(actions, i)
          /\ \A i : Deleted(actions', i) <=> Deleted(actions, i) \/ i = j
          /\ \A i \in DOMAIN actions' : actions'[i].job \in known
        BY <1>2, <1>3, <1>4, <1>5, EntryAdded
    <1>7. CronTyped' BY <1>1, <1>2, <1>5, <1>6 DEF CronTyped
    <1>8. TimerInv' /\ SavedInv' /\ RunInv' BY <1>1, <1>2 DEF TimerInv, SavedInv, RunInv, DueIn
    <1>9. LogInv'
        <2>1. \A i \in DOMAIN actions' : actions'[i].op = "del" => actions'[i].job \in gone'
            <3>1. \A i : Deleted(actions, i) => i \in gone BY <1>1 DEF LogInv, Deleted
            <3> QED BY <1>2, <1>6, <3>1 DEF Deleted
        <2> QED BY <1>1, <1>2, <1>6, <2>1 DEF LogInv
    <1>10. KeptInv' /\ GoneInv' BY <1>1, <1>2, <1>6 DEF KeptInv, GoneInv
    <1> QED BY <1>7, <1>8, <1>9, <1>10 DEF CronInv

\* The gateway ends, or is killed in the middle of a write.
LEMMA DownKeeps == ASSUME CronInv, Stop \/ KilledInSave \/ KilledInMerge PROVE CronInv'
    <1>1. CronTyped /\ TimerInv /\ SavedInv /\ LogInv /\ KeptInv /\ GoneInv /\ RunInv BY DEF CronInv
    <1>2. /\ up' = FALSE /\ store' = Empty /\ timerActive' = FALSE /\ tick' = [t \in Ticks |-> NoTask]
          /\ timer' = NoTick /\ UNCHANGED <<clock, known, gone, done, redone, overlap>> /\ diskJobs' = diskJobs
        BY DEF Stop, KilledInSave, KilledInMerge, Down, files
    <1>3. (actions' = actions /\ torn' = torn /\ damaged' = damaged) \/ (damaged' = TRUE /\ actions' \in {actions, <<>>} /\ torn' \in {torn, TRUE})
        BY DEF Stop, KilledInSave, KilledInMerge, files
    <1>4. NoTask \in Tasks /\ NoTask.pc = "free" BY DEF NoTask, Tasks, Never
    <1>5. Empty \in Stores /\ DOMAIN Empty = {}
        <2>1. Empty \in [{} -> Nat] BY DEF Empty
        <2> QED BY <2>1 DEF Stores
    <1>6. /\ actions' \in Seq(Entries) /\ AddsFirst(actions') /\ torn' \in BOOLEAN
          /\ \A i \in DOMAIN actions' : actions'[i].job \in known /\ (actions'[i].op = "del" => actions'[i].job \in gone)
          /\ \A j : Added(actions', j) => Added(actions, j)
        <2>1. /\ <<>> \in Seq(Entries) /\ AddsFirst(<<>>) /\ DOMAIN <<>> = {} /\ \A j : ~Added(<<>>, j)
            BY DEF AddsFirst, Added
        <2>2. torn' \in BOOLEAN BY <1>1, <1>3 DEF CronTyped
        <2>3. CASE actions' = actions BY <1>1, <2>3, <2>2 DEF CronTyped, LogInv
        <2>4. CASE actions' = <<>>
            <3> DEFINE nil == <<>>
            <3>1. /\ nil \in Seq(Entries) /\ AddsFirst(nil) /\ DOMAIN nil = {} /\ \A j : ~Added(nil, j) BY <2>1
            <3>2. actions' = nil BY <2>4
            <3> HIDE DEF nil
            <3> QED BY <2>2, <3>1, <3>2
        <2> QED BY <1>3, <2>3, <2>4
    <1>7. \A t \in Ticks : tick'[t].pc = "free" BY <1>2, <1>4
    <1>8. CronTyped' BY <1>1, <1>2, <1>4, <1>5, <1>6 DEF CronTyped
    <1>9. TimerInv' /\ SavedInv' BY <1>2, <1>5, <1>7 DEF TimerInv, SavedInv
    <1>10. LogInv' BY <1>1, <1>2, <1>5, <1>6, <1>7 DEF LogInv
    <1>11. KeptInv' /\ GoneInv'
        <2>1. gone' = gone /\ known' = known /\ gone \cap SystemJobs \subseteq Shots BY <1>1, <1>2 DEF GoneInv
        <2>2. CASE damaged' = TRUE BY <2>1, <2>2 DEF KeptInv, GoneInv
        <2>3. CASE actions' = actions /\ torn' = torn /\ damaged' = damaged
            <3>1. KeptInv' BY <1>1, <1>2, <2>3 DEF KeptInv
            <3>2. GoneInv'
                <4>1. \A j : j \notin DOMAIN store' BY <1>2, <1>5
                <4>2. damaged \/ \A j \in gone \ Shots : Deleted(actions, j) \/ (j \notin DOMAIN diskJobs /\ ~Added(actions, j))
                    BY <1>1 DEF GoneInv
                <4>3. damaged' \/ \A j \in gone' \ Shots :
                          Deleted(actions', j) \/ (j \notin DOMAIN store' \cup DOMAIN diskJobs' /\ ~Added(actions', j))
                    BY <1>2, <2>3, <4>1, <4>2
                <4> QED BY <2>1, <4>3 DEF GoneInv
            <3> QED BY <3>1, <3>2
        <2> QED BY <1>3, <2>2, <2>3
    <1>12. RunInv' BY <1>1, <1>2, <1>5, <1>7 DEF RunInv
    <1> QED BY <1>8, <1>9, <1>10, <1>11, <1>12 DEF CronInv

\* The invariant holds at the start.
LEMMA CronStarts == CronAssumption /\ CronInit => CronInv
    <1> SUFFICES ASSUME CronAssumption, CronInit PROVE CronInv OBVIOUS
    <1>1. NoTask \in Tasks /\ NoTask.pc = "free" BY DEF NoTask, Tasks, Never
    <1>2. Empty \in Stores /\ DOMAIN Empty = {}
        <2>1. Empty \in [{} -> Nat] BY DEF Empty
        <2> QED BY <2>1 DEF Stores
    <1>3. \A t \in Ticks : tick[t].pc = "free" BY <1>1 DEF CronInit
    <1>4. CronTyped
        <2>1. actions \in Seq(Entries) BY DEF CronInit
        <2>2. clock \in 1..MaxClock BY DEF CronInit, CronAssumption
        <2>3. tick \in [Ticks -> Tasks] BY <1>1 DEF CronInit
        <2>4. store \in Stores /\ diskJobs \in Stores BY <1>2 DEF CronInit
        <2>5. /\ up \in BOOLEAN /\ torn \in BOOLEAN /\ timerActive \in BOOLEAN /\ timer \in Ticks \cup {NoTick}
              /\ known \subseteq CronJobs /\ gone \subseteq known /\ done \subseteq known \X Nat
            BY DEF CronInit
        <2> QED BY <2>1, <2>2, <2>3, <2>4, <2>5 DEF CronTyped
    <1>5. TimerInv /\ SavedInv BY <1>2, <1>3 DEF CronInit, TimerInv, SavedInv
    <1>6. LogInv BY <1>2, <1>3 DEF CronInit, LogInv, AddsFirst, Added
    <1>7. KeptInv /\ GoneInv BY DEF CronInit, KeptInv, GoneInv
    <1>8. RunInv BY <1>2, <1>3 DEF CronInit, RunInv
    <1> QED BY <1>4, <1>5, <1>6, <1>7, <1>8 DEF CronInv

\* Every step keeps it.
LEMMA CronNextKeeps == CronInv /\ [CronNext]_cronVars => CronInv'
    <1> SUFFICES ASSUME CronInv, [CronNext]_cronVars PROVE CronInv' OBVIOUS
    <1> USE CronAssumption
    <1>1. CASE Advance BY <1>1, AdvanceKeeps
    <1>2. CASE Boot BY <1>2, BootKeeps
    <1>3. ASSUME NEW t \in Ticks, Fire(t) PROVE CronInv' BY <1>3, FireKeeps
    <1>4. ASSUME NEW t \in Ticks, FinishJob(t) PROVE CronInv' BY <1>4, FinishKeeps
    <1>5. ASSUME NEW t \in Ticks, Unwind(t) PROVE CronInv' BY <1>5, UnwindKeeps
    <1>6. ASSUME NEW j \in CronJobs, AddJob(j) PROVE CronInv' BY <1>6, AddJobKeeps
    <1>7. ASSUME NEW j \in CronJobs, RemoveJob(j) PROVE CronInv' BY <1>7, RemoveJobKeeps
    <1>8. ASSUME NEW j \in CronJobs, LogAdd(j) PROVE CronInv' BY <1>8, LogAddKeeps
    <1>9. ASSUME NEW j \in CronJobs, LogDel(j) PROVE CronInv' BY <1>9, LogDelKeeps
    <1>10. CASE ListJobs BY <1>10, ListKeeps
    <1>11. CASE Stop \/ KilledInSave \/ KilledInMerge BY <1>11, DownKeeps
    <1>12. CASE UNCHANGED cronVars
        BY <1>12 DEF cronVars, CronInv, CronTyped, TimerInv, SavedInv, LogInv, KeptInv, GoneInv, RunInv, DueIn
    <1> QED BY <1>1, <1>2, <1>3, <1>4, <1>5, <1>6, <1>7, <1>8, <1>9, <1>10, <1>11, <1>12 DEF CronNext

\* It gives what the scheduler promises.
LEMMA CronIsSound == CronInv => CronSound
    <1> SUFFICES ASSUME CronInv PROVE CronSound OBVIOUS
    <1>1. CronTyped /\ TimerInv /\ SavedInv /\ LogInv /\ KeptInv /\ GoneInv /\ RunInv BY DEF CronInv
    <1> DEFINE file == FileJobs
    <1>2. Empty \in Stores /\ DOMAIN Empty = {}
        <2>1. Empty \in [{} -> Nat] BY DEF Empty
        <2> QED BY <2>1 DEF Stores
    <1>3. file \in Stores /\ (~torn => file = diskJobs) BY <1>1, <1>2 DEF FileJobs, CronTyped
    <1>4. /\ \A j : j \in DOMAIN OnFile <=> ~Deleted(actions, j) /\ (j \in DOMAIN file \/ Added(actions, j))
        <2>1. actions \in Seq(Entries) /\ AddsFirst(actions) BY <1>1 DEF CronTyped, LogInv
        <2> HIDE DEF file
        <2>2. \A j : j \in DOMAIN Merge(file, actions) <=> ~Deleted(actions, j) /\ (j \in DOMAIN file \/ Added(actions, j))
            BY <1>3, <2>1, MergeIs
        <2> QED BY <2>2 DEF OnFile, file
    <1> HIDE DEF file
    <1>5. CronTypeOK
        <2>1. \A t \in Ticks : tick[t].pc \in {"free", "sleep", "exec", "cut"} BY <1>1 DEF CronTyped, Tasks
        <2>2. /\ DOMAIN store \subseteq CronJobs /\ DOMAIN diskJobs \subseteq CronJobs
              /\ \A j \in DOMAIN store : store[j] \in Nat
              /\ \A j \in DOMAIN diskJobs : diskJobs[j] \in Nat
            BY <1>1 DEF CronTyped, Stores
        <2> QED BY <1>1, <2>1, <2>2 DEF CronTypeOK, CronTyped, TimerInv
    <1>6. NoRerun BY <1>1 DEF RunInv, NoRerun
    <1>7. SavedWhenIdle BY <1>1 DEF SavedInv, SavedWhenIdle
    <1>8. JobsKept
        <2>1. \A j : Deleted(actions, j) => j \in gone BY <1>1 DEF LogInv, Deleted
        <2> QED BY <1>1, <1>3, <1>4, <2>1 DEF JobsKept, KeptInv
    <1>9. GoneStaysGone BY <1>1, <1>3, <1>4 DEF GoneStaysGone, GoneInv, KeptInv, Deleted
    <1> QED BY <1>5, <1>6, <1>7, <1>8, <1>9 DEF CronSound

\* A job that was added and not removed is in the file or in the log until a kill in the middle of a
\* save damages them, one that was removed stays removed, memory is saved while nothing runs, and no
\* occurrence runs twice unless a tick that was cancelled overlaps the next.
THEOREM CronKept == CronSpec => []CronSound
    <1>1. CronInit => CronInv BY CronStarts, CronAssumption
    <1>2. CronInv /\ [CronNext]_cronVars => CronInv' BY CronNextKeeps
    <1>3. CronInv => CronSound BY CronIsSound
    <1> QED BY <1>1, <1>2, <1>3, PTL DEF CronSpec
================================================================================

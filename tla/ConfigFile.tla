------------------------------- MODULE ConfigFile -------------------------------
(* config.json and those that write it (config/loader.py, config/editing.py): `config set` and *)
(* `unset` and the admin service, which back it up first; the terminal UI and the onboarding   *)
(* wizard, which write what they hold in memory; restore; cleanup.  Nothing locks the file.  A *)
(* configuration is the set of the settings that differ from the defaults.                     *)
EXTENDS Naturals

CONSTANTS
    Writers,     \* processes that write the file
    Settings,    \* the settings
    Commands,    \* what a process may be: "set", "tui", "wizard", "restore", "cleanup", "create"
    MaxCommands, \* bound: commands begun
    MaxSeconds   \* bound: the clock, in seconds

ASSUME ConfigAssumption == MaxCommands \in Nat /\ MaxSeconds \in Nat

NoFile == [kind |-> "none", val |-> {}]
TornFile == [kind |-> "torn", val |-> {}]
WholeFile(c) == [kind |-> "whole", val |-> c]
Careful == {"set"}

VARIABLES
    configFile, \* config.json: missing, torn or whole
    backups,  \* whole configurations under names of their own (config.json.bak.<microseconds>)
    safety,   \* the copies in backups/, by command and second
    second,   \* the clock
    cmd,      \* what each process is
    stage,    \* "idle", "loaded", "edited", "kept" (its copy is made), "open" (truncated),
              \* "again" or "merge"
    mem,      \* the configuration it holds
    saves,    \* writes of a wizard
    behind,   \* processes since whose copy another has written
    under,    \* processes since whose open another has written
    detached, \* processes whose open file was replaced by a restore
    begun,    \* commands begun
    lastWhole,  \* history: the last whole configuration of the file
    careless    \* history: the file was opened by one that had no copy of lastWhole

configVars == <<configFile, backups, safety, second, cmd, stage, mem, saves, behind, under, detached, begun,
                lastWhole, careless>>
copies == <<backups, safety>>
races == <<behind, under, detached>>
story == <<lastWhole, careless>>

\* What is in backups/: three commands put copies there, named for the command and the second.
Stamped == {"restore", "create", "cleanup"} \X (0..MaxSeconds)

ConfigInit ==
    /\ configFile = WholeFile(Settings) /\ backups = {} /\ safety = [n \in Stamped |-> NoFile] /\ second = 0
    /\ cmd = [p \in Writers |-> "set"] /\ stage = [p \in Writers |-> "idle"] /\ mem = [p \in Writers |-> {}]
    /\ saves = [p \in Writers |-> 0] /\ behind = {} /\ under = {} /\ detached = {} /\ begun = 0
    /\ lastWhole = Settings /\ careless = FALSE

InStep(stages) == {q \in Writers : stage[q] \in stages}

\* `backup list`: every copy there is that loads.
KeptCopies == backups \cup {s.val : s \in {safety[n] : n \in Stamped} \ {NoFile, TornFile}}

----------------------------------------------------------------------------
(* Reading and editing. *)

\* load_config: a file that cannot be parsed is as good as none, the defaults are used.
ReadConfig == configFile.val

\* A process goes on, or it ends and what it held goes with it.
Moves(p, next) ==
    /\ stage' = [stage EXCEPT ![p] = next]
    /\ IF next # "idle" THEN UNCHANGED <<cmd, mem>>
       ELSE cmd' = [cmd EXCEPT ![p] = "set"] /\ mem' = [mem EXCEPT ![p] = {}]

Begins(p, c, holds, next) ==
    /\ stage[p] = "idle" /\ begun < MaxCommands /\ begun' = begun + 1
    /\ cmd' = [cmd EXCEPT ![p] = c] /\ mem' = [mem EXCEPT ![p] = holds]
    /\ stage' = [stage EXCEPT ![p] = next] /\ saves' = [saves EXCEPT ![p] = 0]
    /\ UNCHANGED <<configFile, copies, second, races, story>>

\* `config set` and `unset` begin with the file.
BeginSet(p) == "set" \in Commands /\ Begins(p, "set", ReadConfig, "loaded")

\* So do a terminal and the wizard.
LoadConfig(p, c) ==
    /\ c \in Commands \cap {"tui", "wizard"} /\ Begins(p, c, ReadConfig, "loaded")

\* cleanup only looks whether there is a file.
BeginCleanup(p) ==
    /\ "cleanup" \in Commands /\ configFile.kind # "none"
    /\ Begins(p, "cleanup", ReadConfig, "edited")

\* `backup restore` of a copy that validates.
BeginRestore(p) ==
    "restore" \in Commands /\ \E copy \in KeptCopies : Begins(p, "restore", copy, "edited")

Changed(c, s) == IF s \in c THEN c \ {s} ELSE c \cup {s}

\* set_config_value, unset_config_value: the command's one edit.
SetValue(p, s) ==
    /\ stage[p] = "loaded" /\ cmd[p] = "set"
    /\ mem' = [mem EXCEPT ![p] = Changed(@, s)] /\ stage' = [stage EXCEPT ![p] = "edited"]
    /\ UNCHANGED <<configFile, copies, second, cmd, saves, races, begun, story>>

\* A terminal's picker changes its own copy, once a provider could be built from it.
PickValue(p, s) ==
    /\ stage[p] = "loaded" /\ cmd[p] = "tui"
    /\ mem' = [mem EXCEPT ![p] = Changed(@, s)] /\ stage' = [stage EXCEPT ![p] = "edited"]
    /\ UNCHANGED <<configFile, copies, second, cmd, saves, races, begun, story>>

\* The handlers that do so.
PickModel(p, s) == PickValue(p, s)
PickProvider(p, s) == PickValue(p, s)
SaveApiKey(p, s) == PickValue(p, s)
HealModel(p, s) == PickValue(p, s)

\* /mcp has the terminal read the file again.
Reread(p) ==
    /\ stage[p] = "loaded" /\ cmd[p] = "tui"
    /\ mem' = [mem EXCEPT ![p] = ReadConfig]
    /\ UNCHANGED <<configFile, copies, second, cmd, stage, saves, races, begun, story>>

\* The wizard's steps change a draft; nothing is written before its summary.
DraftValue(p, s) ==
    /\ stage[p] = "loaded" /\ cmd[p] = "wizard"
    /\ mem' = [mem EXCEPT ![p] = Changed(@, s)]
    /\ UNCHANGED <<configFile, copies, second, cmd, stage, saves, races, begun, story>>

\* The summary: the draft is saved or dropped.  Either way the file, if there is one, gets the
\* channels' defaults.
Summary(p, save) ==
    /\ stage[p] = "loaded" /\ cmd[p] = "wizard"
    /\ Moves(p, IF save THEN "edited" ELSE "merge")
    /\ saves' = IF save THEN saves ELSE [saves EXCEPT ![p] = 2]
    /\ UNCHANGED <<configFile, copies, second, races, begun, story>>

\* A value the schema refuses: the field gets its old value back, nothing is written.
Refuse(p) ==
    /\ stage[p] = "loaded" /\ cmd[p] = "set"
    /\ Moves(p, "idle")
    /\ UNCHANGED <<configFile, copies, second, saves, races, begun, story>>

\* The wizard's reset: the draft starts from the defaults, the old file is renamed as it is saved.
ResetSave(p) ==
    /\ stage[p] = "loaded" /\ cmd[p] = "wizard" /\ configFile.kind # "none"
    /\ mem' = [mem EXCEPT ![p] = {}] /\ stage' = [stage EXCEPT ![p] = "edited"]
    /\ backups' = IF configFile.kind = "whole" THEN backups \cup {configFile.val} ELSE backups
    /\ configFile' = NoFile
    /\ UNCHANGED <<safety, second, cmd, saves, races, begun, story>>

----------------------------------------------------------------------------
(* Writing. *)

\* Mutant: one name for every backup, the last copy is the one there is.
OneName(c) == IF c.kind = "whole" THEN {c.val} ELSE {}

\* The copy gets a name of its own.
Keeping(c) == IF c.kind = "whole" THEN backups \cup {c.val} ELSE backups

\* copy2 of the file as it is, if it is there.
KeepCopy(p) ==
    /\ stage[p] = "edited" /\ cmd[p] = "set"
    /\ backups' = IF configFile.kind = "none" THEN backups ELSE Keeping(configFile)
    /\ stage' = [stage EXCEPT ![p] = "kept"] /\ behind' = behind \ {p}
    /\ UNCHANGED <<configFile, safety, second, cmd, mem, saves, under, detached, begun, story>>

\* open(path, "w") of save_config.
OpenForWrite(p) ==
    /\ \/ stage[p] = "kept" /\ cmd[p] = "set"
       \/ stage[p] \in {"edited", "again"} /\ cmd[p] \in {"tui", "wizard"}
    /\ configFile' = TornFile /\ stage' = [stage EXCEPT ![p] = "open"]
    /\ under' = under \ {p} /\ detached' = detached \ {p}
    /\ careless' = (careless \/ cmd[p] \notin Careful \/ p \in behind)
    /\ UNCHANGED <<copies, second, cmd, mem, saves, behind, begun, lastWhole>>

\* A terminal goes on with what it holds; the wizard saves again when it ends, then merges
\* the channels' defaults into the file.
AfterWrite(p) ==
    CASE cmd[p] = "tui" -> "loaded"
      [] cmd[p] = "wizard" /\ saves[p] < 2 -> (IF saves[p] = 0 THEN "again" ELSE "merge")
      [] OTHER -> "idle"

WriteOut(p) ==
    /\ stage[p] = "open"
    /\ IF p \in detached THEN UNCHANGED <<configFile, behind, under, story>>
       ELSE \E clean \in IF p \in under THEN BOOLEAN ELSE {TRUE} :
        /\ configFile' = IF clean THEN WholeFile(mem[p]) ELSE TornFile
        /\ behind' = behind \cup (InStep({"kept", "open"}) \ {p})
        /\ under' = under \cup (InStep({"open"}) \ {p})
        /\ lastWhole' = IF clean THEN mem[p] ELSE lastWhole
        /\ careless' = ~clean
    /\ Moves(p, AfterWrite(p))
    /\ saves' = [saves EXCEPT ![p] = IF cmd[p] = "wizard" THEN @ + 1 ELSE 0]
    /\ UNCHANGED <<copies, second, detached, begun>>

\* _onboard_plugins reads the file and writes it with the channels' missing defaults.
MergeDefaults(p) ==
    /\ stage[p] = "merge"
    /\ IF configFile.kind = "whole"
       THEN /\ mem' = [mem EXCEPT ![p] = configFile.val] /\ UNCHANGED cmd
            /\ stage' = [stage EXCEPT ![p] = "again"]
       ELSE Moves(p, "idle")
    /\ UNCHANGED <<configFile, copies, second, saves, races, begun, story>>

\* No room, or the process dies: the file stays truncated.
WriteFails(p) ==
    /\ stage[p] = "open"
    /\ Moves(p, IF cmd[p] = "tui" THEN "loaded" ELSE "idle")
    /\ UNCHANGED <<configFile, copies, second, saves, races, begun, story>>

Die(p) ==
    /\ stage[p] # "idle"
    /\ Moves(p, "idle")
    /\ UNCHANGED <<configFile, copies, second, saves, races, begun, story>>

----------------------------------------------------------------------------
(* Restore and cleanup. *)

\* A copy of the file as it is, torn or not: it replaces one of the same name.
CopyAs(name) ==
    IF configFile.kind = "none" THEN UNCHANGED <<safety, careless>>
    ELSE /\ safety' = [safety EXCEPT ![name] = configFile]
         /\ careless' = (careless \/ safety[name].kind # "none")

\* The copy cleanup makes before it removes the file.
SnapshotFirst(p) ==
    /\ stage[p] = "edited" /\ cmd[p] = "cleanup" /\ CopyAs(<<"cleanup", second>>)
    /\ stage' = [stage EXCEPT ![p] = "kept"] /\ behind' = behind \ {p}
    /\ UNCHANGED <<configFile, backups, second, cmd, mem, saves, under, detached, begun, lastWhole>>

\* `backup create` is nothing else, and refuses without a file.
CreateBackup(p) ==
    /\ "create" \in Commands /\ stage[p] = "idle" /\ begun < MaxCommands /\ begun' = begun + 1
    /\ configFile.kind # "none" /\ CopyAs(<<"create", second>>)
    /\ UNCHANGED <<configFile, backups, second, cmd, stage, mem, saves, races, lastWhole>>

\* The copy a restore makes before anything else.
SafetyCopy(p) ==
    /\ stage[p] = "edited" /\ cmd[p] = "restore" /\ CopyAs(<<"restore", second>>)
    /\ stage' = [stage EXCEPT ![p] = "kept"] /\ behind' = behind \ {p}
    /\ UNCHANGED <<configFile, backups, second, cmd, mem, saves, under, detached, begun, lastWhole>>

\* os.replace: never torn; whoever has the old file open writes to nothing.
Replace(p) ==
    /\ stage[p] = "kept" /\ cmd[p] = "restore"
    /\ configFile' = WholeFile(mem[p]) /\ lastWhole' = mem[p] /\ careless' = FALSE
    /\ behind' = behind \cup (InStep({"kept", "open"}) \ {p})
    /\ detached' = detached \cup InStep({"open"})
    /\ Moves(p, "idle")
    /\ UNCHANGED <<copies, second, saves, under, begun>>

RemoveConfig(p) ==
    /\ stage[p] = "kept" /\ cmd[p] = "cleanup"
    /\ configFile' = NoFile /\ careless' = (careless \/ p \in behind)
    /\ detached' = detached \cup InStep({"open"})
    /\ Moves(p, "idle")
    /\ UNCHANGED <<copies, second, saves, behind, under, begun, lastWhole>>

TickSecond ==
    /\ second < MaxSeconds /\ second' = second + 1
    /\ UNCHANGED <<configFile, copies, cmd, stage, mem, saves, races, begun, story>>

ConfigNext ==
    \/ \E p \in Writers, c \in {"tui", "wizard"} : LoadConfig(p, c)
    \/ \E p \in Writers : BeginSet(p) \/ BeginRestore(p) \/ BeginCleanup(p) \/ CreateBackup(p)
    \/ \E p \in Writers, s \in Settings : SetValue(p, s) \/ DraftValue(p, s)
    \/ \E p \in Writers, s \in Settings :
        PickModel(p, s) \/ PickProvider(p, s) \/ SaveApiKey(p, s) \/ HealModel(p, s)
    \/ \E p \in Writers, save \in BOOLEAN : Summary(p, save)
    \/ \E p \in Writers : Reread(p)
    \/ \E p \in Writers : Refuse(p) \/ ResetSave(p) \/ KeepCopy(p) \/ OpenForWrite(p) \/ WriteOut(p)
    \/ \E p \in Writers : MergeDefaults(p) \/ WriteFails(p) \/ Die(p) \/ SnapshotFirst(p)
    \/ \E p \in Writers : SafetyCopy(p) \/ Replace(p) \/ RemoveConfig(p)
    \/ TickSecond

ConfigSpec == ConfigInit /\ [][ConfigNext]_configVars

----------------------------------------------------------------------------

\* Whatever dies in the middle of a write, the last configuration that was whole is in the
\* file or in a copy, unless a terminal or a wizard wrote, another wrote meanwhile, or one
\* second saw two copies of a kind.
LastConfigSurvives == configFile.kind = "whole" \/ lastWhole \in KeptCopies \/ careless

==============================================================================

---------------------------- MODULE UpdateCheck ----------------------------
(***************************************************************************)
(* The update check and the upgrade (utils/update.py, cli/updates.py and   *)
(* the commands `update` and `upgrade`): processes that share one cache    *)
(* file, one lock file and one download directory.  A start of the CLI     *)
(* announces a newer or a yanked version once and may offer the upgrade;   *)
(* `update` asks the index again and installs under the lock; a successful *)
(* upgrade may start the same command line again.                          *)
(*                                                                         *)
(* Versions are numbers, 0 is "no acceptable release".  A download is the  *)
(* file of the release asset: its bytes are "part", "good" or "none".      *)
(***************************************************************************)
EXTENDS Naturals, FiniteSets

CONSTANTS Clis,           \* processes
          Hosts,          \* what may be seen of this installation: sets of signs
          Breaking,       \* versions that begin a new major
          MaxRelease,     \* bound: newest version the index ever has
          MaxStarts       \* bound: commands started by users

\* "pinned": the tool was installed with a version constraint; "odd": no asset is published
\* for the processor.
Signs == {"frozen", "win32", "cellar", "dpkg", "rpm", "source", "container", "uv", "pipx", "venv",
          "pinned", "odd"}

ASSUME UpdateAssumption ==
  /\ Hosts \subseteq SUBSET Signs
  /\ MaxRelease \in Nat \ {0} /\ MaxStarts \in Nat /\ Breaking \subseteq 1 .. MaxRelease
  /\ 0 \notin Clis

VARIABLES newest,     \* newest version on the index
          withdrawn,  \* versions yanked from it
          host,       \* the signs of this installation
          installed,  \* version on disk
          cache,      \* update/state.json
          cli,        \* process -> where it is and what it knows
          lockedBy,   \* holder of update/.lock, 0 if nobody
          asset,      \* bytes of the downloaded installer
          starts,     \* commands started so far
          announced,  \* history: version -> times it was announced (2: more than once)
          excused,    \* history: a mark was lost for a reason the code accepts
          ranOn       \* history: bytes an installer of a native asset was run on

indexVars == <<newest, withdrawn>>
tellVars  == <<announced, excused>>
runVars   == <<installed, ranOn>>
updateVars == <<newest, withdrawn, host, installed, cache, cli, lockedBy, asset, starts,
                announced, excused, ranOn>>

Nothing == [current |-> 0, latest |-> 0, ok |-> FALSE, yanked |-> FALSE, told |-> 0, fresh |-> FALSE]
NoProcess    == [at |-> "gone", kind |-> "agent", mine |-> 0, know |-> Nothing, was |-> 0, target |-> 0]
Versions == 1 .. MaxRelease

\* A process begins: its version is the one on disk.
Process(kind, target, version) ==
  [NoProcess EXCEPT !.at = "check", !.kind = kind, !.target = target, !.mine = version]

Acceptable == (1 .. newest) \ withdrawn
Latest     == IF Acceptable = {} THEN 0
              ELSE CHOOSE v \in Acceptable : \A w \in Acceptable : w <= v
Major(v)   == Cardinality({b \in Breaking : b <= v})
Newer(info) == info.latest > info.current
Forces(kind) == kind \in {"update", "upgrade"}
At(c, spot) == cli[c].at = spot
Goto(c, spot) == cli' = [cli EXCEPT ![c] = IF spot = "gone" THEN NoProcess ELSE [@ EXCEPT !.at = spot]]

\* _detect_frozen_install_method: which installer left the bundle.
FrozenMethod == IF "win32" \in host THEN "windows-exe"
                ELSE IF "cellar" \in host THEN "homebrew"
                ELSE IF "dpkg" \in host THEN "deb"
                ELSE IF "rpm" \in host THEN "rpm" ELSE "native-tarball"

\* detect_install_method: the first sign decides.
InstallMethod == IF "frozen" \in host THEN FrozenMethod
                 ELSE IF "source" \in host THEN "editable"
                 ELSE IF "container" \in host THEN "container"
                 ELSE IF "uv" \in host THEN "uv-tool"
                 ELSE IF "pipx" \in host THEN "pipx"
                 ELSE IF "venv" \in host THEN "pip-venv" ELSE "pip-system"

\* Those that upgrade from an asset of the release, and those of them whose asset this
\* process downloads itself.
NativeMethods == {"deb", "rpm", "native-tarball", "windows-exe"}
Downloaded == NativeMethods \ {"native-tarball"}

\* native_asset_for.
HasAsset == InstallMethod \in NativeMethods /\ ("odd" \in host => InstallMethod = "windows-exe")

\* The argv of an upgrade, and of the install of an exact version, exist.
HasCommand == InstallMethod \in {"uv-tool", "pipx", "pip-venv", "homebrew"}
HasTargetCommand == InstallMethod \in {"uv-tool", "pipx", "pip-venv"}

UpdateInit ==
  /\ newest \in {1, MaxRelease} /\ withdrawn = {} /\ host \in Hosts /\ installed = 1
  /\ cache = Nothing /\ cli = [c \in Clis |-> NoProcess] /\ lockedBy = 0 /\ asset = "none" /\ starts = 0
  /\ announced = [v \in 0 .. MaxRelease |-> 0] /\ excused = FALSE /\ ranOn = {}
-----------------------------------------------------------------------------
(* The index, and time. *)

Publish == /\ newest < MaxRelease /\ newest' = newest + 1
           /\ UNCHANGED <<withdrawn, host, cache, cli, lockedBy, asset, starts, tellVars, runVars>>

\* Without the newest, an older version is the news again.
Yank(v) == /\ v \in Acceptable /\ withdrawn' = withdrawn \cup {v}
           /\ excused' = (excused \/ v = Latest)
           /\ UNCHANGED <<newest, host, cache, cli, lockedBy, asset, starts, announced, runVars>>

CacheExpires == /\ cache.fresh /\ cache' = [cache EXCEPT !.fresh = FALSE]
                /\ UNCHANGED <<indexVars, host, cli, lockedBy, asset, starts, tellVars, runVars>>

Start(c, kind, target) ==
  /\ At(c, "gone") /\ starts < MaxStarts /\ starts' = starts + 1
  /\ target # 0 => kind = "update"
  /\ cli' = [cli EXCEPT ![c] = Process(kind, target, installed)]
  /\ UNCHANGED <<indexVars, host, cache, lockedBy, asset, tellVars, runVars>>
-----------------------------------------------------------------------------
(* check_for_update. *)

\* The cache answers: not forced, not expired, written by this version.
Answers(c) == ~Forces(cli[c].kind) /\ cache.fresh /\ cache.current = cli[c].mine

FromCache(c) ==
  /\ At(c, "check") /\ Answers(c)
  /\ cli' = [cli EXCEPT ![c].know = cache, ![c].at = "decide"]
  /\ UNCHANGED <<indexVars, host, cache, lockedBy, asset, starts, tellVars, runVars>>

\* What is carried over from the cache read before the request.
Carried(c) == IF Forces(cli[c].kind) THEN 0 ELSE cache.told

Ask(c) ==
  /\ At(c, "check") /\ ~Answers(c)
  /\ cli' = [cli EXCEPT ![c].was = Carried(c), ![c].at = "fetch"]
  /\ UNCHANGED <<indexVars, host, cache, lockedBy, asset, starts, tellVars, runVars>>

\* _write_cache: a temporary file, renamed; one that fails, silently, is left out.
WriteCache(record) == cache' = record

Persisted(c, info) ==
  /\ WriteCache(info)
  /\ cli' = [cli EXCEPT ![c].know = info, ![c].was = 0, ![c].at = "decide"]
  /\ excused' = (excused \/ ~info.ok \/ Forces(cli[c].kind) \/ cli[c].was # cache.told)
  /\ UNCHANGED <<indexVars, host, lockedBy, asset, starts, announced, runVars>>

Found(c) == [current |-> cli[c].mine, latest |-> Latest, ok |-> TRUE,
             yanked |-> cli[c].mine \in withdrawn, told |-> cli[c].was, fresh |-> TRUE]

Fetch(c) == At(c, "fetch") /\ Persisted(c, Found(c))

\* The failure record never carries last_notified.
FetchFails(c) == At(c, "fetch") /\ Persisted(c, [Nothing EXCEPT !.current = cli[c].mine, !.fresh = TRUE])
-----------------------------------------------------------------------------
(* A start of the CLI: the banner and its offer. *)

Worth(info) == (Newer(info) /\ info.latest # 0) \/ info.yanked
Suppressed(info) == info.latest # 0 /\ info.latest = info.told /\ ~info.yanked

Silent(c) ==
  /\ At(c, "decide")
  /\ \/ cli[c].kind = "gateway"
     \/ cli[c].kind = "agent" /\ (~Worth(cli[c].know) \/ Suppressed(cli[c].know))
  /\ Goto(c, "gone")
  /\ UNCHANGED <<indexVars, host, cache, lockedBy, asset, starts, tellVars, runVars>>

Announce(c) ==
  LET info == cli[c].know IN
  /\ At(c, "decide") /\ cli[c].kind = "agent" /\ Worth(info) /\ ~Suppressed(info)
  /\ announced' = [announced EXCEPT ![info.latest] = IF info.yanked \/ @ = 2 THEN @ ELSE @ + 1]
  /\ IF info.latest = 0 THEN UNCHANGED cache ELSE WriteCache([cache EXCEPT !.told = info.latest])
  /\ excused' = (excused \/ \E d \in Clis \ {c} : cli[d].at \in {"check", "fetch", "decide"})
  /\ \E terminal \in BOOLEAN : Goto(c, IF terminal /\ HasCommand THEN "ask" ELSE "gone")
  /\ UNCHANGED <<indexVars, host, lockedBy, asset, starts, runVars>>

Reply(c, yes) ==
  /\ At(c, "ask") /\ Goto(c, IF yes THEN "lock" ELSE "gone")
  /\ UNCHANGED <<indexVars, host, cache, lockedBy, asset, starts, tellVars, runVars>>
-----------------------------------------------------------------------------
(* `update` and `upgrade`. *)

\* What ends the command before it asks for confirmation.
Ends(c) ==
  LET info == cli[c].know
      crosses == Major(info.latest) > Major(info.current) IN
  IF cli[c].target # 0 THEN info.current = cli[c].target \/ ~HasTargetCommand
  ELSE ~info.ok \/ ~Newer(info) \/ crosses \/ ~(HasCommand \/ HasAsset)

UpdateEnds(c) ==
  /\ At(c, "decide") /\ Forces(cli[c].kind) /\ Ends(c) /\ Goto(c, "gone")
  /\ UNCHANGED <<indexVars, host, cache, lockedBy, asset, starts, tellVars, runVars>>

\* `--check` or a refused confirmation end `update`; `upgrade` confirms itself.
Confirm(c, yes) ==
  /\ At(c, "decide") /\ Forces(cli[c].kind) /\ ~Ends(c)
  /\ cli[c].kind = "upgrade" => yes
  /\ Goto(c, IF yes THEN "lock" ELSE "gone")
  /\ UNCHANGED <<indexVars, host, cache, lockedBy, asset, starts, tellVars, runVars>>
-----------------------------------------------------------------------------
(* Under the lock. *)

\* Mutant: the lock is taken around the installer only, after the download.
LockLate == TRUE

LockFree == lockedBy = 0

TakeLock(c) ==
  /\ At(c, "lock") /\ LockFree /\ lockedBy' = c
  /\ Goto(c, IF InstallMethod \in Downloaded THEN "download" ELSE "install")
  /\ UNCHANGED <<indexVars, host, cache, asset, starts, tellVars, runVars>>

LockTaken(c) ==
  /\ At(c, "lock") /\ ~LockFree /\ Goto(c, "gone")
  /\ UNCHANGED <<indexVars, host, cache, lockedBy, asset, starts, tellVars, runVars>>

Download(c) ==
  /\ At(c, "download") /\ asset' = "part" /\ Goto(c, "verify")
  /\ UNCHANGED <<indexVars, host, cache, lockedBy, starts, tellVars, runVars>>

\* All bytes came and the digest of what was received matches the sidecar.
Verified(c) ==
  /\ At(c, "verify") /\ asset' = "good" /\ Goto(c, "install")
  /\ UNCHANGED <<indexVars, host, cache, lockedBy, starts, tellVars, runVars>>

\* A wrong digest deletes the file; a broken connection leaves what came.
DownloadFails(c, left) ==
  /\ At(c, "verify") /\ asset' = left /\ lockedBy' = 0 /\ Goto(c, "gone")
  /\ UNCHANGED <<indexVars, host, cache, starts, tellVars, runVars>>

\* What the installer leaves on disk: an upgrade takes what the index has now,
\* a pinned tool nothing, a native installer the version it was fetched for.
Installs(c) == IF cli[c].target # 0 THEN cli[c].target
               ELSE IF InstallMethod = "uv-tool" /\ "pinned" \in host THEN installed
               ELSE IF InstallMethod \in NativeMethods THEN cli[c].know.latest
               ELSE IF Latest > installed THEN Latest ELSE installed

Install(c) ==
  /\ At(c, "install") /\ lockedBy' = 0
  /\ Goto(c, "after")
  /\ installed' = Installs(c)
  /\ ranOn' = IF InstallMethod \in Downloaded THEN ranOn \cup {asset} ELSE ranOn
  /\ UNCHANGED <<indexVars, host, cache, asset, starts, tellVars>>

InstallFails(c) ==
  /\ At(c, "install") /\ lockedBy' = 0 /\ Goto(c, "gone")
  /\ ranOn' = IF InstallMethod \in Downloaded THEN ranOn \cup {asset} ELSE ranOn
  /\ UNCHANGED <<indexVars, host, cache, asset, starts, tellVars, installed>>

\* execv with the arguments of this process; only `update` may go without (and
\* what runs on Windows).
Restart(c) ==
  /\ At(c, "after") /\ "win32" \notin host
  /\ cli' = [cli EXCEPT ![c] = Process(cli[c].kind, cli[c].target, installed)]
  /\ UNCHANGED <<indexVars, host, cache, lockedBy, asset, starts, tellVars, runVars>>

StaysOff(c) ==
  /\ At(c, "after") /\ (cli[c].kind = "upgrade" => "win32" \in host) /\ Goto(c, "gone")
  /\ UNCHANGED <<indexVars, host, cache, lockedBy, asset, starts, tellVars, runVars>>

UpdateStep(c) ==
  \/ \E kind \in {"agent", "gateway", "update", "upgrade"}, target \in 0 .. newest :
       Start(c, kind, target)
  \/ FromCache(c) \/ Ask(c) \/ Fetch(c) \/ FetchFails(c)
  \/ Silent(c) \/ Announce(c) \/ UpdateEnds(c)
  \/ \E yes \in BOOLEAN : Reply(c, yes) \/ Confirm(c, yes)
  \/ TakeLock(c) \/ LockTaken(c) \/ Download(c) \/ Verified(c)
  \/ \E left \in {"none", "part"} : DownloadFails(c, left)
  \/ Install(c) \/ InstallFails(c) \/ Restart(c) \/ StaysOff(c)

UpdateNext == \/ Publish \/ CacheExpires \/ \E v \in Versions : Yank(v)
              \/ \E c \in Clis : UpdateStep(c)

UpdateSpec == UpdateInit /\ [][UpdateNext]_updateVars
-----------------------------------------------------------------------------
(* Properties. *)

\* A version is announced twice only if a mark was lost meanwhile: a failed or
\* a forced check wrote its record without it, or two starts checked at once.
AnnouncedOnce == \A v \in Versions : announced[v] > 1 => excused

\* An installer runs only on a file whose digest was checked, also when several
\* processes download to the same place or a download broke off before.
InstalledIsVerified == ranOn \subseteq {"good"}

\* What is announced, and what is run.
UpdateSound == AnnouncedOnce /\ InstalledIsVerified
=============================================================================

------------------------------ MODULE CronService ------------------------------
(* The scheduler of the gateway: the job store in memory, its file, the log of actions *)
(* that other processes (the CLI, the TUI) append to, and the timer task.  What runs    *)
(* between two awaits is one action.  A job is its next run; schedules are reduced to   *)
(* one-shot and periodic ones, names, payloads and run records are left out.            *)
EXTENDS Naturals, Sequences, FiniteSets, FiniteSetsExt, Functions

CONSTANTS
    Shots,       \* jobs of kind "at" that the cron tool makes: deleted after their run
    Repeats,     \* jobs of kind "every" or "cron"
    SystemJobs,  \* registered by the gateway at its start, protected
    ShotTime,    \* at_ms of the one-shot jobs
    Every,       \* the period of the others
    MaxSleep,    \* max_sleep_ms
    MaxClock,    \* bound: the clock
    MaxCrash     \* bound: ends of the gateway process

ASSUME CronAssumption ==
    /\ ShotTime \in Nat /\ Every \in Nat \ {0} /\ MaxSleep \in Nat \ {0}
    /\ MaxClock \in Nat \ {0} /\ MaxCrash \in Nat

CronJobs == Shots \cup Repeats \cup SystemJobs
Ticks == 1..3      \* bound: timer tasks alive at once
NoTick == 0
Never == 0         \* next_run_at_ms is None

VARIABLES
    clock,
    up,           \* the gateway runs
    store,        \* CronService._store: the next run of each job
    diskJobs,     \* jobs.json
    torn,         \* jobs.json was cut short by a kill
    actions,      \* action.jsonl
    timerActive,  \* _timer_active
    tick,         \* timer tasks: asleep, executing a job, or cancelled in the middle of one
    timer,        \* _timer_task
    known,        \* history: jobs ever added
    gone,         \* history: jobs removed, and one-shot jobs that ran
    done,         \* history: runs, as job and time due, that a tick brought to their end
    redone,       \* history: jobs begun again for a run that had ended
    overlap,      \* history: a tick began a job while a cancelled one had not ended
    damaged,      \* history: a kill hit the middle of a write
    crashes

cronVars == <<clock, up, store, diskJobs, torn, actions, timerActive, tick, timer, known, gone,
              done, redone, overlap, damaged, crashes>>
memory == <<store, timerActive, tick, timer>>
files == <<diskJobs, torn, actions>>
cronHistory == <<known, gone, done, redone, overlap, damaged, crashes>>

Empty == [j \in {} |-> Never]
NoTask == [pc |-> "free", wake |-> 0, todo |-> {}, cur |-> "", occ |-> Never, stale |-> FALSE]

CronInit ==
    /\ clock = 1 /\ up = FALSE /\ store = Empty /\ diskJobs = Empty /\ torn = FALSE /\ actions = <<>>
    /\ timerActive = FALSE /\ tick = [t \in Ticks |-> NoTask] /\ timer = NoTick
    /\ known = {} /\ gone = {} /\ done = {} /\ redone = {} /\ overlap = FALSE
    /\ damaged = FALSE /\ crashes = 0

----------------------------------------------------------------------------
(* Schedules, the store and its files. *)

\* _compute_next_run: a one-shot job whose time has passed has no next run.
NextRun(j) ==
    IF j \in Shots THEN IF ShotTime > clock THEN ShotTime ELSE Never
    ELSE clock + Every

Without1(st, j) == Restrict(st, DOMAIN st \ {j})

\* _merge_action: the log in its order, over what the file holds: the last action on a job counts.
LastSaid(log, j) == {i \in DOMAIN log : log[i].job = j /\ \A k \in DOMAIN log : log[k].job = j => k <= i}
Merge(st, log) ==
    [j \in {k \in DOMAIN st \cup {a.job : a \in Range(log)} : \A i \in LastSaid(log, k) : log[i].op = "add"} |->
        IF LastSaid(log, j) = {} THEN st[j] ELSE log[CHOOSE i \in LastSaid(log, j) : TRUE].next]

FileJobs == IF torn THEN Empty ELSE diskJobs
OnFile == Merge(FileJobs, actions)

\* _del: the removal of a job that is not there raises, and changes nothing.
NoChange(log, st) == \A i \in DOMAIN log : log[i].op = "del" /\ log[i].job \notin DOMAIN st
\* Whether a merge writes: not in the middle of a tick, and not a log without a change.
Merges == ~timerActive /\ ~NoChange(actions, FileJobs)

\* Mutant: the store is read again in the middle of a tick.
LoadedAlways == OnFile

\* _load_store: while a tick executes the store in memory stays.
Loaded == IF timerActive THEN store ELSE OnFile

\* A job object held across a reload is no longer part of the store.
Staled == [t \in Ticks |->
              IF timerActive \/ tick[t].pc \in {"free", "sleep"} THEN tick[t]
              ELSE [tick[t] EXCEPT !.stale = TRUE]]

\* What a reload leaves in the files: merged actions are written and the log emptied.
ReadFiles ==
    IF Merges THEN diskJobs' = Loaded /\ torn' = FALSE /\ actions' = <<>> ELSE UNCHANGED files
LoadOnly == store' = Loaded /\ tick' = Staled /\ ReadFiles

\* _save_store after _load_store.
SaveStore(st) ==
    /\ store' = st /\ diskJobs' = st /\ torn' = FALSE
    /\ actions' = IF Merges THEN <<>> ELSE actions

\* Mutant: while a job is executed the timer is cancelled and not made again.
ArmIfIdle(tk, st) ==
    LET t == Min({u \in Ticks : u = timer \/ tk[u].pc = "free"})
    IN  IF \E u \in Ticks : tk[u].pc = "exec"
        THEN timer' = NoTick /\ tick' = [u \in Ticks |-> IF u = timer THEN NoTask ELSE tk[u]]
        ELSE timer' = t /\ tick' = [tk EXCEPT ![t] = [NoTask EXCEPT !.pc = "sleep", !.wake = clock]]

\* _arm_timer: the timer task is cancelled, asleep or not, and a new one sleeps until the
\* next run.
Arm(tk, st) ==
    LET cut == [t \in Ticks |->
                  IF t # timer THEN tk[t]
                  ELSE IF tk[t].pc = "exec" THEN [tk[t] EXCEPT !.pc = "cut"] ELSE NoTask]
        next == {IF st[j] > clock THEN st[j] ELSE clock : j \in {i \in DOMAIN st : st[i] # Never}}
    IN  \E t \in Ticks :
            /\ cut[t].pc = "free" /\ \A u \in 1..t - 1 : cut[u].pc # "free"
            /\ tick' = [cut EXCEPT ![t] = [NoTask EXCEPT !.pc = "sleep",
                                              !.wake = Min({clock + MaxSleep} \cup next)]]
            /\ timer' = t

----------------------------------------------------------------------------
(* The service *)

Advance ==
    /\ clock < MaxClock /\ clock' = clock + 1
    /\ UNCHANGED <<up, memory, files, cronHistory>>

\* register_system_job and start: every next run is computed anew.  The first reads the log and
\* saves what it says without emptying it; to the second, its removals are of jobs not there.
Boot ==
    LET jobs == DOMAIN OnFile \cup SystemJobs
        st == [j \in jobs |-> NextRun(j)]
    IN
    /\ ~up /\ up' = TRUE
    /\ store' = st /\ diskJobs' = st /\ torn' = FALSE
    /\ actions' = IF NoChange(actions, st) THEN actions ELSE <<>>
    /\ Arm(tick, st)
    /\ known' = known \cup SystemJobs
    /\ UNCHANGED <<clock, timerActive, gone, done, redone, overlap, damaged, crashes>>

\* A job is begun: the next of the list the tick made, in the store or not.
Begin(tk, t, todo, st) ==
    \E j \in todo :
        /\ tick' = [tk EXCEPT ![t] = [@ EXCEPT !.pc = "exec", !.todo = todo \ {j}, !.cur = j,
                                            !.occ = IF j \in DOMAIN st THEN st[j] ELSE Never]]
        /\ redone' = redone \cup {i \in {j} : j \in DOMAIN st /\ <<j, st[j]>> \in done}
        /\ overlap' = (overlap \/ \E u \in Ticks \ {t} : tk[u].pc = "cut")

DueIn(st) == {j \in DOMAIN st : st[j] # Never /\ st[j] <= clock}

\* _on_timer: the store is read, what is due is executed one after the other.  (At the bound
\* of the clock time still passes for the timer.)
Fire(t) ==
    /\ tick[t].pc = "sleep" /\ (tick[t].wake <= clock \/ clock = MaxClock)
    /\ IF DueIn(Loaded) = {}
       THEN /\ SaveStore(Loaded)
            /\ timerActive' = FALSE
            /\ Arm([Staled EXCEPT ![t] = NoTask], Loaded)
            /\ UNCHANGED <<redone, overlap>>
       ELSE /\ store' = Loaded
            /\ ReadFiles
            /\ timerActive' = TRUE
            /\ Begin(Staled, t, DueIn(Loaded), Loaded)
            /\ UNCHANGED timer
    /\ UNCHANGED <<clock, up, known, gone, done, damaged, crashes>>

\* _execute_job, after the job: a one-shot job leaves the store, another gets its next run,
\* in the object the tick holds.  After the last one the store is saved.
FinishJob(t) ==
    LET k == tick[t]
        st == IF k.cur \in Shots THEN Without1(store, k.cur)
              ELSE IF k.stale \/ k.cur \notin DOMAIN store THEN store
              ELSE [store EXCEPT ![k.cur] = NextRun(k.cur)]
    IN
    /\ k.pc = "exec"
    /\ store' = st
    /\ done' = done \cup {<<k.cur, k.occ>>}
    /\ gone' = gone \cup ({k.cur} \cap Shots)
    /\ IF k.todo = {}
       THEN /\ diskJobs' = st /\ torn' = FALSE /\ UNCHANGED actions
            /\ timerActive' = FALSE
            /\ Arm([tick EXCEPT ![t] = NoTask], st)
            /\ UNCHANGED <<redone, overlap>>
       ELSE /\ Begin(tick, t, k.todo, st)
            /\ UNCHANGED <<files, timerActive, timer>>
    /\ UNCHANGED <<clock, up, known, damaged, crashes>>

\* A cancelled tick ends: its finally clause, no save, no new timer.
Unwind(t) ==
    /\ tick[t].pc = "cut"
    /\ tick' = [tick EXCEPT ![t] = NoTask]
    /\ timerActive' = FALSE
    /\ UNCHANGED <<clock, up, store, timer, files, cronHistory>>

----------------------------------------------------------------------------
(* The cron tool, in a turn of the gateway: of a chat, or (remove, list) of the job that *)
(* is executed.                                                                          *)

AddJob(j) ==
    LET st == [i \in DOMAIN Loaded \cup {j} |-> IF i = j THEN NextRun(j) ELSE Loaded[i]] IN
    /\ up /\ j \notin known \cup SystemJobs
    /\ SaveStore(st) /\ Arm(Staled, st)
    /\ known' = known \cup {j}
    /\ UNCHANGED <<clock, up, timerActive, gone, done, redone, overlap, damaged, crashes>>

RemoveJob(j) ==
    LET st == Without1(Loaded, j) IN
    /\ up /\ j \in DOMAIN Loaded \ SystemJobs
    /\ SaveStore(st) /\ Arm(Staled, st)
    /\ gone' = gone \cup {j}
    /\ UNCHANGED <<clock, up, timerActive, known, done, redone, overlap, damaged, crashes>>

\* list_jobs, and a removal that is refused.
ListJobs ==
    /\ up /\ LoadOnly
    /\ UNCHANGED <<clock, up, timerActive, timer, cronHistory>>

----------------------------------------------------------------------------
(* The cron tool in a process whose service is not started: it reads the files and      *)
(* appends to the log.                                                                  *)

LogAdd(j) ==
    /\ j \notin known \cup SystemJobs
    /\ actions' = Append(actions, [op |-> "add", job |-> j, next |-> NextRun(j)])
    /\ known' = known \cup {j}
    /\ UNCHANGED <<clock, up, memory, diskJobs, torn, gone, done, redone, overlap, damaged, crashes>>

LogDel(j) ==
    /\ j \in DOMAIN OnFile \ SystemJobs
    /\ actions' = Append(actions, [op |-> "del", job |-> j, next |-> Never])
    /\ gone' = gone \cup {j}
    /\ UNCHANGED <<clock, up, memory, diskJobs, torn, known, done, redone, overlap, damaged, crashes>>

----------------------------------------------------------------------------
(* The end of the gateway.  stop() cancels the timer and saves nothing either. *)

Down ==
    /\ up /\ crashes < MaxCrash
    /\ up' = FALSE /\ store' = Empty /\ timerActive' = FALSE
    /\ tick' = [t \in Ticks |-> NoTask] /\ timer' = NoTick
    /\ crashes' = crashes + 1
    /\ UNCHANGED <<clock, known, gone, done, redone, overlap>>

Stop == Down /\ UNCHANGED <<files, damaged>>

\* Killed in the middle of write_text on jobs.json.
KilledInSave == Down /\ torn' = TRUE /\ damaged' = TRUE /\ UNCHANGED <<diskJobs, actions>>

\* Killed between the emptying of the log and the save of what it held.
KilledInMerge ==
    /\ Down /\ Merges /\ actions' = <<>> /\ damaged' = TRUE
    /\ UNCHANGED <<diskJobs, torn>>

CronNext ==
    \/ Advance \/ Boot
    \/ \E t \in Ticks : Fire(t) \/ FinishJob(t) \/ Unwind(t)
    \/ \E j \in CronJobs : AddJob(j) \/ RemoveJob(j) \/ LogAdd(j) \/ LogDel(j)
    \/ ListJobs
    \/ Stop \/ KilledInSave \/ KilledInMerge

\* The event loop runs what is ready; a job ends, its turn is bounded; the clock goes on.
CronFair ==
    /\ WF_cronVars(up /\ Advance)
    /\ \A t \in Ticks : WF_cronVars(Fire(t)) /\ WF_cronVars(FinishJob(t)) /\ WF_cronVars(Unwind(t))

CronSpec == CronInit /\ [][CronNext]_cronVars /\ CronFair

----------------------------------------------------------------------------
(* Properties. *)

CronTypeOK ==
    /\ clock \in 1..MaxClock /\ up \in BOOLEAN /\ torn \in BOOLEAN /\ timerActive \in BOOLEAN
    /\ DOMAIN store \subseteq CronJobs /\ DOMAIN diskJobs \subseteq CronJobs
    /\ \A j \in DOMAIN store : store[j] \in Nat
    /\ \A j \in DOMAIN diskJobs : diskJobs[j] \in Nat
    /\ timer \in Ticks \cup {NoTick}
    /\ \A t \in Ticks : tick[t].pc \in {"free", "sleep", "exec", "cut"}
    /\ up = (timer # NoTick)
    /\ up => tick[timer].pc \in {"sleep", "exec"}

\* A run that a tick brought to its end is not begun again for the same time: not by a list
\* in the middle of the tick, not by a tick that was cancelled between two jobs, not after a
\* restart.  The exception: a tick that begins while a cancelled one has not ended loses the
\* flag that keeps its store.
NoRerun == redone # {} => overlap

\* "During _on_timer execution, return the existing store": what a tick executes is in it.
TickOwnsStore == \A t \in Ticks : tick[t].pc = "exec" => ~tick[t].stale

\* While no job is executed, memory holds nothing that the file does not.
SavedWhenIdle ==
    up /\ (\A t \in Ticks : tick[t].pc \in {"free", "sleep"}) => ~torn /\ store = diskJobs

\* A job that somebody added is on file or in the log until somebody removes it or its one
\* run is over, unless a kill hit the middle of a write.
JobsKept == damaged \/ \A j \in known \ gone : j \in DOMAIN OnFile

\* One that is gone does not come back: no reload, no merge, no late tick writes it again.
\* (A one-shot job that ran may, without a next run, when the gateway ends before the save.)
GoneStaysGone ==
    damaged \/ \A j \in gone : j \in DOMAIN OnFile \cup DOMAIN store =>
        \/ j \in Shots
        \/ \E i \in DOMAIN actions : actions[i].op = "del" /\ actions[i].job = j

\* A job that is due while the gateway runs is run, or removed, whatever re-arms the timer.
DueRuns ==
    \A j \in CronJobs : (up /\ j \in DueIn(store)) ~> (~up \/ j \notin DueIn(store))

\* The log of another process is taken over after at most a sleep of the timer: what it adds is on
\* file and what it removes is not.  Removals of jobs that are not on file may stay in it.
LogTaken == (up /\ actions # <<>>) ~> (~up \/ NoChange(actions, FileJobs))

\* What timers, reloads, other processes and kills leave of the jobs.
CronSound == CronTypeOK /\ NoRerun /\ SavedWhenIdle /\ JobsKept /\ GoneStaysGone

\* What is due runs, and what another process asked for is taken over.
CronLive == DueRuns /\ LogTaken
================================================================================

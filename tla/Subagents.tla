------------------------------- MODULE Subagents -------------------------------
(* SubagentManager and TaskStore: background agents of a session, their records and     *)
(* output files.  The work of a subagent is one step that ends well, fails or is cut     *)
(* short by a cancellation, which may take its time (a tool kills its process first).    *)
EXTENDS Naturals, Sequences, FiniteSets, FiniteSetsExt, SequencesExt

CONSTANTS
    Subs,        \* the subagents of a behaviour
    SubKeys,     \* session keys
    KeyOf,       \* the effective key of the session that spawns each
    MaxParallel, \* max_concurrent_subagents, 0 for no limit
    MaxRecent,   \* max_recent records
    CancelLost,  \* a cancellation can be swallowed: wait_for before Python 3.12 returns the
                 \* result of what it waited for if that is there when the cancellation is
    MaxRestart   \* bound: restarts of the process

ASSUME SubagentAssumption ==
    /\ KeyOf \in [Subs -> SubKeys] /\ MaxParallel \in Nat /\ MaxRecent \in Nat \ {0}
    /\ CancelLost \in BOOLEAN /\ MaxRestart \in Nat

VARIABLES
    sub,        \* where the task of each subagent is
    tracked,    \* _running_tasks and _session_tasks
    slots,      \* the semaphore: its free places
    waiting,    \* and those that wait, in order
    record,     \* TaskStore._records, in order of insertion: task id and status
    outputs,    \* output files
    announced,  \* history: results published, per subagent
    stopped,    \* history: subagents for which a stop was answered or is awaited
    restarts

subVars == <<sub, tracked, slots, waiting, record, outputs, announced, stopped, restarts>>

Terminal == {"completed", "failed", "cancelled", "orphaned"}

SubInit ==
    /\ sub = [s \in Subs |-> "unborn"] /\ tracked = {} /\ slots = MaxParallel /\ waiting = <<>>
    /\ record = <<>> /\ outputs = {} /\ announced = [s \in Subs |-> 0] /\ stopped = {} /\ restarts = 0

----------------------------------------------------------------------------
(* TaskStore *)

Status(s) ==
    LET mine == {i \in DOMAIN record : record[i].id = s}
    IN  IF mine = {} THEN "none" ELSE record[CHOOSE i \in mine : TRUE].status

\* finish_task: whatever the record said before.
Marked(recs, s, status) ==
    [i \in DOMAIN recs |-> IF recs[i].id = s THEN [recs[i] EXCEPT !.status = status] ELSE recs[i]]

\* Mutant: the oldest records go, finished or not.
EvictedAny(recs) ==
    IF Len(recs) > MaxRecent THEN {recs[i].id : i \in 1..Len(recs) - MaxRecent} ELSE {}

\* _trim_recent: the oldest finished records beyond the limit.
Evicted(recs) ==
    LET over(i) == recs[i].status \in Terminal
                   /\ Cardinality({j \in 1..i : recs[j].status \in Terminal}) <= Len(recs) - MaxRecent
    IN  IF Len(recs) > MaxRecent THEN {recs[i].id : i \in {j \in DOMAIN recs : over(j)}} ELSE {}

\* A sequence without some of its elements, the others in their order.
Without(q, gone) ==
    LET out[i \in 0..Len(q)] ==
            IF i = 0 THEN <<>> ELSE IF q[i] \in gone THEN out[i - 1] ELSE Append(out[i - 1], q[i])
    IN  out[Len(q)]

\* The records after a change, trimmed; output files go with their records.
Keep(recs, files) ==
    /\ record' = Without(recs, {r \in ToSet(recs) : r.id \in Evicted(recs)})
    /\ outputs' = files \ Evicted(recs)

----------------------------------------------------------------------------
(* SubagentManager *)

Spawn(s) ==
    /\ sub[s] = "unborn"
    /\ sub' = [sub EXCEPT ![s] = "created"]
    /\ tracked' = tracked \cup {s}
    /\ Keep(Append(record, [id |-> s, status |-> "running"]), outputs)
    /\ UNCHANGED <<slots, waiting, announced, stopped, restarts>>

\* The task starts: at once without a limit, or when the semaphore has a place.
SubStart(s) ==
    /\ sub[s] = "created"
    /\ IF MaxParallel = 0 THEN sub' = [sub EXCEPT ![s] = "work"] /\ UNCHANGED <<slots, waiting>>
       ELSE IF slots > 0 /\ waiting = <<>>
            THEN sub' = [sub EXCEPT ![s] = "work"] /\ slots' = slots - 1 /\ UNCHANGED waiting
            ELSE sub' = [sub EXCEPT ![s] = "queued"] /\ waiting' = Append(waiting, s) /\ UNCHANGED slots
    /\ UNCHANGED <<tracked, record, outputs, announced, stopped, restarts>>

TakeSlot(s) ==
    /\ sub[s] = "queued" /\ Head(waiting) = s /\ slots > 0
    /\ sub' = [sub EXCEPT ![s] = "work"]
    /\ slots' = slots - 1 /\ waiting' = Tail(waiting)
    /\ UNCHANGED <<tracked, record, outputs, announced, stopped, restarts>>

FreeSlot == slots' = IF MaxParallel = 0 THEN slots ELSE slots + 1

\* The runner is done, or raised: output, record and announcement, with no await that yields.
Conclude(s, status) ==
    /\ sub[s] = "work"
    /\ Keep(Marked(record, s, status), IF Status(s) = "none" THEN outputs ELSE outputs \cup {s})
    /\ announced' = [announced EXCEPT ![s] = @ + 1]
    /\ sub' = [sub EXCEPT ![s] = "ended"]
    /\ FreeSlot
    /\ UNCHANGED <<tracked, waiting, stopped, restarts>>

Killable == {s \in tracked : sub[s] # "ended"}

\* task.cancel(): one that has not started or waits for a place ends at once.
SubCancelled(S) == [s \in Subs |->
    IF s \notin S THEN sub[s]
    ELSE IF sub[s] \in {"created", "queued"} THEN "ended" ELSE "unwind"]

\* TaskStore.cancel_task: what has ended stays as it ended.
MarkCancelled(S) ==
    [i \in DOMAIN record |->
        IF record[i].id \in S /\ record[i].status \notin Terminal
        THEN [record[i] EXCEPT !.status = "cancelled"] ELSE record[i]]

CancelThem(S) ==
    /\ sub' = SubCancelled(S)
    /\ waiting' = Without(waiting, S)
    /\ Keep(MarkCancelled(S), outputs)
    /\ stopped' = stopped \cup S
    /\ UNCHANGED <<tracked, slots, announced, restarts>>

\* /task-stop: only a task whose record says that it runs.
StopTask(s) == s \in Killable /\ Status(s) \in {"running", "none"} /\ CancelThem({s})

\* /stop, /new and the like: all of the session, those being stopped too.
StopSession(k) ==
    LET S == {s \in Killable : KeyOf[s] = k} IN S # {} /\ CancelThem(S)

\* The cancellation arrives at the end of the task; or it was lost and the work goes on.
Unwound(s) ==
    /\ sub[s] = "unwind"
    /\ \/ sub' = [sub EXCEPT ![s] = "ended"] /\ FreeSlot
       \/ CancelLost /\ sub' = [sub EXCEPT ![s] = "work"] /\ UNCHANGED slots
    /\ UNCHANGED <<tracked, waiting, record, outputs, announced, stopped, restarts>>

\* The callback of a finished task.
Cleanup(s) ==
    /\ s \in tracked /\ sub[s] = "ended"
    /\ tracked' = tracked \ {s}
    /\ UNCHANGED <<sub, slots, waiting, record, outputs, announced, stopped, restarts>>

\* A new process: output files are the records that are left.
SubRestart ==
    /\ restarts < MaxRestart /\ restarts' = restarts + 1
    /\ sub' = [s \in Subs |-> IF sub[s] = "unborn" THEN "unborn" ELSE "ended"]
    /\ tracked' = {} /\ slots' = MaxParallel /\ waiting' = <<>>
    /\ \E order \in SetToSeqs(outputs) :
          Keep([i \in DOMAIN order |-> [id |-> order[i], status |-> "orphaned"]], outputs)
    /\ UNCHANGED <<announced, stopped>>

SubNext ==
    \/ \E s \in Subs : \/ Spawn(s) \/ SubStart(s) \/ TakeSlot(s) \/ StopTask(s) \/ Unwound(s) \/ Cleanup(s)
                       \/ \E status \in {"completed", "failed"} : Conclude(s, status)
    \/ \E k \in SubKeys : StopSession(k)
    \/ SubRestart

\* Tasks are run when they can be; a subagent has a limited number of iterations.
SubFair ==
    \A s \in Subs :
        /\ WF_subVars(SubStart(s)) /\ WF_subVars(TakeSlot(s)) /\ WF_subVars(Unwound(s))
        /\ WF_subVars(\E status \in {"completed", "failed"} : Conclude(s, status))
        /\ WF_subVars(Cleanup(s))

SubSpec == SubInit /\ [][SubNext]_subVars /\ SubFair

----------------------------------------------------------------------------
(* Properties. *)

SubTypeOK ==
    /\ sub \in [Subs -> {"unborn", "created", "queued", "work", "unwind", "ended"}]
    /\ tracked \subseteq Subs /\ waiting \in Seq(Subs) /\ outputs \subseteq Subs
    /\ \A i \in DOMAIN record : record[i].status \in Terminal \cup {"running"}
    /\ slots \in 0..MaxParallel
    /\ MaxParallel # 0 => slots + Cardinality({s \in Subs : sub[s] \in {"work", "unwind"}}) = MaxParallel

\* A subagent that is at work, or waits to be, has a record that says so: the limit on
\* records never takes it away, so /tasks shows it and /task-stop reaches it.
WorkIsListed ==
    \A s \in Subs : sub[s] \in {"created", "queued", "work"} => s \in tracked /\ Status(s) = "running"

\* A result is announced once, and never after a stop was asked for.
AnnouncedOnce ==
    \A s \in Subs : announced[s] <= 1 /\ (s \in stopped => announced[s] = 0)

\* No output file outlives its record: the disk is bounded by the limit on records.
FilesOwned == \A s \in outputs : Status(s) # "none"

\* A record that is final stays as it is until it is dropped or the process ends.
FinalStays ==
    [][\A s \in Subs : Status(s) \in Terminal =>
          Status(s)' \in {Status(s), "none", "orphaned"}]_subVars

\* Every subagent comes to its end, also behind a full semaphore whose holders are stopped.
SubEnds == \A s \in Subs : sub[s] = "created" ~> sub[s] = "ended"

\* What races of ends and cancellations leave of the records.
SubagentsSound == SubTypeOK /\ WorkIsListed /\ AnnouncedOnce /\ FilesOwned
================================================================================

----------------------------- MODULE MemoryHistory -----------------------------
(* memory/history.jsonl and its two cursor files: summaries are appended, Dream reads  *)
(* what lies above its cursor in batches, and the oldest entries are compacted away.    *)
(* Two Dream runs can be at work at once, the scheduled one and that of /dream.         *)
EXTENDS Naturals, Sequences, FiniteSets, SequencesExt

CONSTANTS
    MaxHistory,  \* max_history_entries
    MaxBatch,    \* max_batch_size
    MaxWritten,  \* bound: entries written, the migrated ones included
    Kills,       \* the process may be killed in the middle of a write
    Legacy       \* entries of a HISTORY.md that the first start migrates

ASSUME HistoryAssumption ==
    MaxHistory \in Nat \ {0} /\ MaxBatch \in Nat \ {0} /\ MaxWritten \in Nat /\ Kills \in BOOLEAN
    /\ Legacy \in 0..MaxWritten

Runs == {"scheduled", "command"}

VARIABLES
    hist,       \* history.jsonl: cursor and content (its number)
    counter,    \* .cursor, 0 for no file
    dreamed,    \* .dream_cursor
    run,        \* each Dream run: its phase, the entries of its batch and the cursor of the last
    recorded,    \* history: entries appended
    read,       \* history: entries that went through both phases
    halfway,       \* history: a kill left the file and its cursor apart
    overrun     \* history: more unread entries than the file may hold

historyVars == <<hist, counter, dreamed, run, recorded, read, halfway, overrun>>

NoRun == [phase |-> "off", batch |-> {}, end |-> 0]

\* _maybe_migrate_legacy_history: old entries count as read.
HistoryInit ==
    /\ hist = [i \in 1..Legacy |-> [c |-> i, e |-> i]]
    /\ counter = Legacy /\ dreamed = Legacy
    /\ run = [r \in Runs |-> NoRun]
    /\ recorded = Legacy /\ read = 1..Legacy /\ halfway = FALSE /\ overrun = FALSE

\* _next_cursor: from the counter file; without one, from the tail of the file.
NextCursor ==
    IF counter # 0 THEN counter + 1
    ELSE IF hist = <<>> THEN 1 ELSE Last(hist).c + 1

Entry == [c |-> NextCursor, e |-> recorded + 1]

AppendHistory ==
    /\ recorded < MaxWritten
    /\ hist' = Append(hist, Entry)
    /\ counter' = Entry.c
    /\ recorded' = recorded + 1
    /\ UNCHANGED <<dreamed, run, read, halfway, overrun>>

\* Killed between the line and the counter: with a counter file it is now behind.
AppendKilled ==
    /\ recorded < MaxWritten /\ ~halfway /\ Kills
    /\ hist' = Append(hist, Entry)
    /\ recorded' = recorded + 1
    /\ halfway' = (counter # 0)
    /\ run' = [r \in Runs |-> NoRun]
    /\ UNCHANGED <<counter, dreamed, read, overrun>>

\* The places of the entries above a cursor, and of the oldest of them that make a batch.
Unread(since) == {i \in DOMAIN hist : hist[i].c > since}
Oldest(places) == {i \in places : Cardinality({j \in places : j <= i}) <= MaxBatch}
LastOf(s, n) == SubSeq(s, (IF Len(s) < n THEN 0 ELSE Len(s) - n) + 1, Len(s))

\* Dream.run takes the oldest unread entries.
DreamBegin(r) ==
    /\ run[r].phase = "off"
    /\ LET batch == Oldest(Unread(dreamed)) IN
       \E last \in batch :
          /\ \A i \in batch : i <= last
          /\ run' = [run EXCEPT ![r] = [phase |-> "analyse", batch |-> {hist[i].e : i \in batch},
                                       end |-> hist[last].c]]
    /\ UNCHANGED <<hist, counter, dreamed, recorded, read, halfway, overrun>>

\* Phase 1: an analysis, or an error that leaves everything for the next run.
Analysed(r) ==
    /\ run[r].phase = "analyse"
    /\ run' \in {[run EXCEPT ![r].phase = "edit"], [run EXCEPT ![r] = NoRun]}
    /\ UNCHANGED <<hist, counter, dreamed, recorded, read, halfway, overrun>>

\* Mutant: the cursor goes to the newest entry and not to the end of the batch.
ToNewest(r) == NextCursor - 1

BatchEnd(r) == run[r].end

\* Phase 2 ends, however it went: the cursor moves to the end of the batch and the file is
\* cut to its newest entries.
Edited(r) ==
    /\ run[r].phase = "edit"
    /\ read' = read \cup run[r].batch
    /\ dreamed' = BatchEnd(r)
    /\ hist' = LastOf(hist, MaxHistory)
    /\ overrun' = (overrun \/ Cardinality(Unread(dreamed')) > MaxHistory)
    /\ run' = [run EXCEPT ![r] = NoRun]
    /\ UNCHANGED <<counter, recorded, halfway>>

\* Killed while _write_entries rewrites the file: the head of what was kept is there.
EditedKilled(r) ==
    /\ run[r].phase = "edit" /\ Len(hist) > MaxHistory /\ ~halfway /\ Kills
    /\ read' = read \cup run[r].batch
    /\ dreamed' = BatchEnd(r)
    /\ \E n \in 0..MaxHistory - 1 : hist' = SubSeq(LastOf(hist, MaxHistory), 1, n)
    /\ halfway' = TRUE
    /\ run' = [q \in Runs |-> NoRun]
    /\ UNCHANGED <<counter, recorded, overrun>>

HistoryNext ==
    \/ AppendHistory \/ AppendKilled
    \/ \E r \in Runs : DreamBegin(r) \/ Analysed(r) \/ Edited(r) \/ EditedKilled(r)

HistorySpec == HistoryInit /\ [][HistoryNext]_historyVars

----------------------------------------------------------------------------

HistoryTypeOK ==
    /\ hist \in Seq([c : Nat \ {0}, e : 1..MaxWritten]) /\ counter \in Nat /\ dreamed \in Nat
    /\ \A r \in Runs : run[r].phase \in {"off", "analyse", "edit"}
    /\ \A r \in Runs : (run[r].phase = "off") = (run[r].batch = {})
    /\ recorded \in Nat /\ read \subseteq 1..recorded /\ halfway \in BOOLEAN /\ overrun \in BOOLEAN

\* An entry that no Dream run has read waits in the file above Dream's cursor, also when two
\* runs overlap and the slower one moves the cursor back.
NoEntrySkipped ==
    halfway \/ overrun \/ \A e \in 1..recorded :
        e \in read \/ \E i \in DOMAIN hist : hist[i].e = e /\ hist[i].c > dreamed

\* Cursors grow along the file, after compactions too: "above the cursor" means "later".
CursorsGrow ==
    halfway \/ \A i, j \in DOMAIN hist : i < j => hist[i].c < hist[j].c

\* What Dream, compaction and kills leave of the history.
HistorySound == HistoryTypeOK /\ NoEntrySkipped /\ CursorsGrow
================================================================================

------------------------------- MODULE FileEdits -------------------------------
(* The tools that read and change files (filesystem.py, apply_patch.py, notebook.py) and what  *)
(* they remember of a file they have read or written (file_state.py, one table per process).   *)
(* Others change the same files: an editor, a running command.  A file's text is the sequence  *)
(* of the edits it was made by, newest last; no file is empty.                                 *)
EXTENDS Naturals, Sequences, FiniteSets, FiniteSetsExt, SequencesExt

CONSTANTS
    Files,      \* files under the workspace
    Lines,      \* the offsets that reads begin at
    MaxOps,     \* bound: operations of a patch
    MaxEdits    \* bound: edits in all

ASSUME EditAssumption == Lines \subseteq Nat \ {0} /\ MaxOps \in Nat /\ MaxEdits \in Nat

NoFile == <<>>
NotRead == [mtime |-> 0, offset |-> 0, hash |-> NoFile, dedup |-> FALSE]
NoStub == [file |-> "none", now |-> <<>>, shown |-> <<>>]
NoPatch == [ops |-> <<>>, before |-> <<>>, after |-> <<>>, failed |-> TRUE, edit |-> 0]
Nowhere == [file |-> "none", offset |-> 0, text |-> NoFile]

VARIABLES
    disk,      \* file: its text, or NoFile
    mtime,     \* file: when it was changed
    readState, \* _state: file: [mtime, offset, hash, dedup], or NotRead
    reading,   \* the read under way: [file, offset, text], or Nowhere
    answers,   \* history: file, offset: the text of the last answer that showed it
    stub,      \* history: the stub just given: [file, now, shown]
    raced,     \* history: files changed between the two halves of a read
    patched,   \* history: the patch just done: [ops, before, after, failed, edit]
    edits

fileVars == <<disk, mtime, readState, reading, answers, stub, raced, patched, edits>>

FileInit ==
    /\ disk \in [Files -> {NoFile, <<0>>}] /\ mtime = [f \in Files |-> 0] /\ readState = [f \in Files |-> NotRead]
    /\ reading = Nowhere /\ answers = [x \in Files \X Lines |-> <<>>]
    /\ stub = NoStub /\ raced = {} /\ patched = NoPatch /\ edits = 0

\* No stub is given by the step and no patch is done.
NothingElse == stub' = NoStub /\ patched' = NoPatch

----------------------------------------------------------------------------
(* file_state. *)

Recorded(f, offset, dedup) == [mtime |-> mtime'[f], offset |-> offset, hash |-> disk'[f], dedup |-> dedup]

\* record_write of the files of S.
RecordWrite(S) ==
    readState' = [f \in Files |-> IF f \notin S THEN readState[f]
                                  ELSE IF disk'[f] = NoFile THEN NotRead ELSE Recorded(f, 1, FALSE)]

RecordRead(f, offset) == readState' = [readState EXCEPT ![f] = Recorded(f, offset, TRUE)]

\* Mutant: the time alone decides.
UnchangedByTime(f, offset) ==
    LET entry == readState[f] IN entry.dedup /\ entry.offset = offset /\ entry.mtime = mtime[f]

\* is_unchanged, as read_file has it: the same lines of a file of the same time and hash.
IsUnchanged(f, offset) ==
    LET entry == readState[f] IN
    /\ entry.dedup /\ entry.offset = offset
    /\ entry.mtime = mtime[f] /\ entry.hash = disk[f]

----------------------------------------------------------------------------
(* Reading. *)

\* Lines from the offset on; none beyond the end.
Shows(text, offset) == SubSeq(text, offset, Len(text))

\* read_file up to the text: a stub, or the text with the read recorded for the first time.
ReadText(f, offset) ==
    /\ reading = Nowhere /\ disk[f] # NoFile /\ UNCHANGED <<disk, mtime, answers, raced, edits>>
    /\ patched' = NoPatch
    /\ IF IsUnchanged(f, offset)
       THEN stub' = [file |-> f, now |-> Shows(disk[f], offset), shown |-> answers[<<f, offset>>]]
            /\ UNCHANGED <<readState, reading>>
       ELSE reading' = [file |-> f, offset |-> offset, text |-> disk[f]] /\ RecordRead(f, offset) /\ stub' = NoStub

\* The rest of it: the read is recorded once more unless there was nothing to show.
ReadEnds ==
    /\ reading # Nowhere /\ reading' = Nowhere
    /\ answers' = [answers EXCEPT ![<<reading.file, reading.offset>>] = Shows(reading.text, reading.offset)]
    /\ UNCHANGED <<disk, mtime, raced, edits>> /\ NothingElse
    /\ IF Shows(reading.text, reading.offset) = <<>> \/ disk[reading.file] = NoFile
       THEN UNCHANGED readState ELSE RecordRead(reading.file, reading.offset)

----------------------------------------------------------------------------
(* Changing one file. *)

NewEdit == edits < MaxEdits /\ edits' = edits + 1
Put(f, text) ==
    /\ disk' = [disk EXCEPT ![f] = text] /\ mtime' = [mtime EXCEPT ![f] = edits']

\* The old text is replaced where it is found.
Replaced(text) == Append(text, edits')

\* write_file.
WriteFile(f) ==
    /\ reading = Nowhere /\ NewEdit /\ Put(f, <<edits'>>) /\ RecordWrite({f})
    /\ UNCHANGED <<reading, answers, raced>> /\ NothingElse

\* edit_file: a new file, or a replacement in what the file holds now.
EditFile(f) ==
    /\ reading = Nowhere /\ NewEdit
    /\ Put(f, IF disk[f] = NoFile THEN <<edits'>> ELSE Replaced(disk[f])) /\ RecordWrite({f})
    /\ UNCHANGED <<reading, answers, raced>> /\ NothingElse

\* notebook_edit writes and records nothing.
NotebookEdit(f) ==
    /\ reading = Nowhere /\ NewEdit
    /\ Put(f, IF disk[f] = NoFile THEN <<edits'>> ELSE Replaced(disk[f]))
    /\ UNCHANGED <<readState, reading, answers, raced>> /\ NothingElse

Raced(f) == raced' = IF reading # Nowhere /\ reading.file = f THEN raced \cup {f} ELSE raced

\* Someone else writes the file, within the grain of its time or not, or only touches it.
ExternalEdit(f) ==
    /\ disk[f] # NoFile /\ NewEdit /\ Raced(f)
    /\ \/ \E text \in {NoFile, <<edits'>>} : disk' = [disk EXCEPT ![f] = text] /\ mtime' \in {mtime, [mtime EXCEPT ![f] = edits']}
       \/ UNCHANGED disk /\ mtime' = [mtime EXCEPT ![f] = edits']
    /\ UNCHANGED <<readState, reading, answers>> /\ NothingElse

----------------------------------------------------------------------------
(* apply_patch: the operations are tried out in order, then all files are written. *)

Add(f) == [kind |-> "add", path |-> f, to |-> f]
Delete(f) == [kind |-> "delete", path |-> f, to |-> f]
Update(f, g) == [kind |-> "update", path |-> f, to |-> g]
Ops == {Add(f) : f \in Files} \cup {Delete(f) : f \in Files} \cup {Update(f, g) : f, g \in Files}
Patches == UNION {[1..n -> Ops] : n \in 1..MaxOps}

\* What the operations so far come to: texts to write, files to delete; not ok: refused.
NothingStaged == [writes |-> [f \in {} |-> NoFile], deletes |-> {}, ok |-> TRUE]
Pending(st, f) == f \in DOMAIN st.writes
There(st, f) == Pending(st, f) \/ disk[f] # NoFile
TextOf(st, f) == IF Pending(st, f) THEN st.writes[f] ELSE disk[f]
ApplyHunks(text) == Append(text, edits + 1)
With(writes, f, text) == [g \in DOMAIN writes \cup {f} |-> IF g = f THEN text ELSE writes[g]]
Less(writes, f) == [g \in DOMAIN writes \ {f} |-> writes[g]]
Refused(st) == [st EXCEPT !.ok = FALSE]

StageAdd(st, op) ==
    IF There(st, op.path) THEN Refused(st)
    ELSE [st EXCEPT !.writes = With(@, op.path, <<edits + 1>>), !.deletes = @ \ {op.path}]

StageDelete(st, op) ==
    IF ~There(st, op.path) THEN Refused(st)
    ELSE [st EXCEPT !.writes = Less(@, op.path), !.deletes = @ \cup {op.path}]

\* The text that is pending, or is still on disk, with the hunks applied; perhaps moved.
StageUpdate(st, op) ==
    LET moves == op.to # op.path
        written == With(st.writes, op.to, ApplyHunks(TextOf(st, op.path)))
    IN  IF ~There(st, op.path) \/ (moves /\ There(st, op.to)) THEN Refused(st)
        ELSE IF moves THEN [st EXCEPT !.writes = Less(written, op.path), !.deletes = (@ \ {op.to}) \cup {op.path}]
        ELSE [st EXCEPT !.writes = written, !.deletes = @ \ {op.to}]

Stage(st, op) ==
    CASE ~st.ok -> st
      [] st.ok /\ op.kind = "add" -> StageAdd(st, op)
      [] st.ok /\ op.kind = "delete" -> StageDelete(st, op)
      [] st.ok /\ op.kind = "update" -> StageUpdate(st, op)

Staged(ops) ==
    LET after[n \in 0..Len(ops)] == IF n = 0 THEN NothingStaged ELSE Stage(after[n - 1], ops[n])
    IN  after[Len(ops)]

\* Mutant: only what is written is kept to be restored.
BackupsOfWrites(st) == [f \in DOMAIN st.writes |-> disk[f]]
Backups(st) == [f \in DOMAIN st.writes \cup st.deletes |-> disk[f]]

\* The files after some were deleted and some written.
Applied(st, gone, put) == [f \in Files |-> IF f \in put THEN st.writes[f] ELSE IF f \in gone THEN NoFile ELSE disk[f]]

\* A step that fails restores every file of the backups.
RestoredTo(now, backups) == [f \in Files |-> IF f \in DOMAIN backups THEN backups[f] ELSE now[f]]

Touched(S) == mtime' = [f \in Files |-> IF f \in S THEN edits' ELSE mtime[f]]

Outcome(ops, failed) == [ops |-> ops, before |-> disk, after |-> disk', failed |-> failed, edit |-> edits']

ApplyPatch(ops) ==
    LET st == Staged(ops)
        backups == Backups(st)
        all == Applied(st, st.deletes, DOMAIN st.writes)
    IN
    /\ reading = Nowhere /\ NewEdit /\ UNCHANGED <<reading, answers, raced>> /\ stub' = NoStub
    /\ \/ ~st.ok /\ UNCHANGED <<disk, mtime, readState>> /\ patched' = Outcome(ops, TRUE)
       \/ /\ st.ok /\ disk' = all /\ Touched(DOMAIN st.writes) /\ RecordWrite(DOMAIN backups)
          /\ patched' = Outcome(ops, FALSE)
       \/ \E gone \in SUBSET st.deletes, put \in SUBSET DOMAIN st.writes :
             /\ st.ok /\ put # {} => gone = st.deletes
             /\ disk' = RestoredTo(Applied(st, gone, put), backups) /\ Touched(DOMAIN backups)
             /\ UNCHANGED readState /\ patched' = Outcome(ops, TRUE)

FileNext ==
    \/ \E f \in Files : \/ WriteFile(f) \/ EditFile(f) \/ NotebookEdit(f) \/ ExternalEdit(f)
                        \/ \E offset \in Lines : ReadText(f, offset)
    \/ ReadEnds
    \/ \E ops \in Patches : ApplyPatch(ops)

FileSpec == FileInit /\ [][FileNext]_fileVars

----------------------------------------------------------------------------
(* Properties. *)

\* "Unchanged since last read" is the truth: the lines are those the last answer for them
\* showed, unless someone wrote the file in the middle of that read.
StubTrue == stub.now = stub.shown \/ stub.file \in raced

\* The operations of a patch carried out one after the other.
CarriedOut(st, op, edit) ==
    LET old == st.tree[op.path]
        new == IF op.kind = "delete" THEN NoFile ELSE Append(old, edit)
    IN  [tree |-> [f \in Files |-> IF f = op.to THEN new ELSE IF f = op.path THEN NoFile ELSE st.tree[f]],
         ok |-> /\ st.ok /\ (op.kind = "add" <=> old = NoFile)
                /\ op.to # op.path => st.tree[op.to] = NoFile]

InOrder(before, ops, edit) ==
    LET after[n \in 0..Len(ops)] == IF n = 0 THEN [tree |-> before, ok |-> TRUE]
                                    ELSE CarriedOut(after[n - 1], ops[n], edit)
    IN  after[Len(ops)]

\* An operation uses a file that the patch took away before: the code looks at the disk then.
Reuses(ops) ==
    \E i, j \in DOMAIN ops :
        /\ i < j
        /\ ops[i].kind = "delete" \/ ops[i].to # ops[i].path
        /\ ops[i].path \in {ops[j].path, ops[j].to}

\* A patch does what its operations do one after the other, or nothing at all: also when one of
\* its writes fails, after files were deleted and others written.
PatchWhole ==
    /\ patched.failed => patched.after = patched.before
    /\ ~patched.failed /\ ~Reuses(patched.ops) =>
          LET want == InOrder(patched.before, patched.ops, patched.edit)
          IN  want.ok /\ patched.after = want.tree
================================================================================

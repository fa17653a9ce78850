---------------------------- MODULE ParallelWriter ----------------------------
(***************************************************************************)
(* app/core/parallel_writer.py: write_parallel gives its edits to a pool,  *)
(* waits for all of them, and takes the written files back when one has    *)
(* failed.  Every file is written by way of a temporary one and renamed.   *)
(* Two edits may name the same file.                                       *)
(***************************************************************************)
EXTENDS Naturals, Sequences, FiniteSets

CONSTANTS
  Edits,          \* Edits[i]: the file that edit i names
  MaxWorkers      \* max_workers

ASSUME WriterAssumption ==
  /\ Edits \in Seq(STRING)
  /\ MaxWorkers \in Nat \ {0}

Indices == 1..Len(Edits)
EditedFiles == {Edits[i] : i \in Indices}

VARIABLES
  onDisk,      \* onDisk[f]: the edit whose content f has, 0 for none, Old for its own
  edit,        \* edit[i]: "queued", "writing", "renaming", "ok", "failed"
  results,     \* results[i]: what the caller gets
  writerPc,    \* where write_parallel is
  toUndo,      \* the edits whose files are still to be taken back
  stuck        \* ghost: a file that could not be taken back

writerVars == <<onDisk, edit, results, writerPc, toUndo, stuck>>

Old == Len(Edits) + 1

WriterInit ==
  /\ onDisk = [f \in EditedFiles |-> Old]
  /\ edit = [i \in Indices |-> "queued"]
  /\ results = [i \in Indices |-> "none"]
  /\ writerPc = "idle"
  /\ toUndo = {}
  /\ stuck = {}

Busy == {i \in Indices : edit[i] \in {"writing", "renaming"}}

\* The call is made on files some of which exist.
BeginWrites ==
  /\ writerPc = "idle"
  /\ onDisk' \in [EditedFiles -> {0, Old}]
  /\ edit' = [i \in Indices |-> "queued"]
  /\ results' = [i \in Indices |-> "none"]
  /\ toUndo' = {} /\ stuck' = {}
  /\ writerPc' = "pool"

\* _validate_path and mkdir may refuse; with dry_run, nothing else is done.
StartEdit(i) ==
  /\ writerPc = "pool"
  /\ edit[i] = "queued"
  /\ \A j \in 1..(i - 1) : edit[j] # "queued"
  /\ Cardinality(Busy) < MaxWorkers
  /\ edit' \in {[edit EXCEPT ![i] = outcome] : outcome \in {"writing", "failed"}}
  /\ UNCHANGED <<onDisk, results, writerPc, toUndo, stuck>>

\* The text goes to the temporary file.  (One that is cut short stays behind: its
\* name is noted after the write only.)
FillTemp(i) ==
  /\ edit[i] = "writing"
  /\ edit' \in {[edit EXCEPT ![i] = outcome] : outcome \in {"renaming", "failed"}}
  /\ UNCHANGED <<onDisk, results, writerPc, toUndo, stuck>>

RenameTemp(i) ==
  /\ edit[i] = "renaming"
  /\ \/ /\ onDisk' = [onDisk EXCEPT ![Edits[i]] = i]
        /\ edit' = [edit EXCEPT ![i] = "ok"]
     \/ /\ edit' = [edit EXCEPT ![i] = "failed"]
        /\ UNCHANGED onDisk
  /\ UNCHANGED <<results, writerPc, toUndo, stuck>>

\* Mutant of the next: the first failure is enough.
OneFailed == \A i \in Indices : edit[i] = "ok" \/ \E j \in Indices : edit[j] = "failed"

\* The pool is left when every edit is over.
AllOver == \A i \in Indices : edit[i] \in {"ok", "failed"}

PoolOver ==
  /\ writerPc = "pool"
  /\ AllOver
  /\ IF \A i \in Indices : edit[i] = "ok"
     THEN /\ writerPc' = "idle"
          /\ results' = edit
          /\ UNCHANGED toUndo
     ELSE /\ writerPc' = "rollback"
          /\ toUndo' = {i \in Indices : edit[i] = "ok"}
          /\ UNCHANGED results
  /\ UNCHANGED <<onDisk, edit, stuck>>

\* _rollback unlinks, whether or not there was a file before; one that cannot
\* be removed is passed over.
TakeBack(i) ==
  /\ writerPc = "rollback"
  /\ i \in toUndo
  /\ toUndo' = toUndo \ {i}
  /\ \/ /\ onDisk' = [onDisk EXCEPT ![Edits[i]] = 0]
        /\ UNCHANGED stuck
     \/ /\ stuck' = stuck \cup {Edits[i]}
        /\ UNCHANGED onDisk
  /\ UNCHANGED <<edit, results, writerPc>>

RolledBack ==
  /\ writerPc = "rollback"
  /\ toUndo = {}
  /\ writerPc' = "idle"
  /\ results' = [i \in Indices |-> IF edit[i] = "ok" THEN "rolled back" ELSE edit[i]]
  /\ UNCHANGED <<onDisk, edit, toUndo, stuck>>

WriterNext ==
  \/ BeginWrites
  \/ \E i \in Indices : StartEdit(i) \/ FillTemp(i) \/ RenameTemp(i) \/ TakeBack(i)
  \/ PoolOver
  \/ RolledBack

WriterSpec == WriterInit /\ [][WriterNext]_writerVars

-----------------------------------------------------------------------------
\* "All writes either succeed or the partial writes are rolled back": when the
\* call returns, either every edit is reported written and every file holds an
\* edit of it, or none is and no file does, but for those that could not be
\* removed; whichever of two edits of a file came last, and wherever they
\* failed.  (That the old content is gone after a roll-back is how the code is.)
AllOrNothing ==
  writerPc = "idle" /\ results # [i \in Indices |-> "none"] =>
    \/ /\ \A i \in Indices : results[i] = "ok"
       /\ \A f \in EditedFiles : onDisk[f] \in Indices /\ Edits[onDisk[f]] = f
    \/ /\ \A i \in Indices : results[i] # "ok"
       /\ \A f \in EditedFiles \ stuck : onDisk[f] \in {0, Old}
=============================================================================

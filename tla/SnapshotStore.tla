---------------------------- MODULE SnapshotStore ----------------------------
(***************************************************************************)
(* The files of the workspace, and the stacks of earlier contents that     *)
(* app/core/snapshot_store.py keeps of them in memory for /rollback.       *)
(*                                                                         *)
(* A content is a sequence of chunks: replacing a file leaves the chunks   *)
(* of the new text, appending adds them at the end.  Every reader in the   *)
(* code takes a missing file for the empty text, so a missing file has the *)
(* empty content here, and `present` tells the two apart.                  *)
(***************************************************************************)
EXTENDS Naturals, Sequences

CONSTANTS
  Paths,      \* the resolved paths of the files in play
  Chunks,     \* the pieces of text that are written
  MaxPerFile  \* SnapshotStore._MAX_PER_FILE, 20 in the code

ASSUME SnapshotAssumption == MaxPerFile \in Nat \ {0}

VARIABLES
  disk,     \* disk[p]: the text a reader of p gets
  present,  \* the files that exist
  stacks    \* stacks[p]: the contents saved for p, oldest first

fileVars == <<disk, present>>
storeVars == <<disk, present, stacks>>

Content == Seq(Chunks)
Empty == <<>>

StoreInit ==
  /\ disk \in [Paths -> {Empty} \cup {<<c>> : c \in Chunks}]
  /\ present = {p \in Paths : disk[p] # Empty}
  /\ stacks = [p \in Paths |-> <<>>]

StoreTypeOK ==
  /\ disk \in [Paths -> Content]
  /\ present \subseteq Paths
  /\ \A p \in Paths \ present : disk[p] = Empty
  /\ stacks \in [Paths -> Seq(Content)]
  /\ \A p \in Paths : Len(stacks[p]) <= MaxPerFile

\* WorkspaceManager.write_file and delete_file.
WriteFile(p, text) ==
  /\ disk' = [disk EXCEPT ![p] = text]
  /\ present' = present \cup {p}

DeleteFile(p) ==
  /\ disk' = [disk EXCEPT ![p] = Empty]
  /\ present' = present \ {p}

\* A push keeps the last MaxPerFile entries: the oldest one goes.
Push(stack, text) ==
  IF Len(stack) < MaxPerFile THEN Append(stack, text) ELSE Append(Tail(stack), text)

Top(stack) == stack[Len(stack)]

\* A pop hands out the newest entry; the last one left stays.
Popped(stack) ==
  IF Len(stack) <= 1 THEN stack ELSE SubSeq(stack, 1, Len(stack) - 1)

=============================================================================

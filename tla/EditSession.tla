----------------------------- MODULE EditSession -----------------------------
(***************************************************************************)
(* A session of the code-agent mode: cli/code_session.py runs one task at  *)
(* a time through CodingAgent, and between tasks the user may take edits   *)
(* back with /rollback or save a /checkpoint (rollback_cmds.py).  Between  *)
(* tasks, and while a permission prompt is up, the user's editor may       *)
(* change any file.                                                        *)
(*                                                                         *)
(* The snapshot stacks live in memory: they are gone when the program      *)
(* ends, whether by /quit, Ctrl-C or a crash, and the files stay.          *)
(***************************************************************************)
EXTENDS CodingAgent

CONSTANT MaxTasks   \* bound on the tasks started

ASSUME SessionAssumption == MaxTasks \in Nat

VARIABLES
  tasks,    \* the number of tasks started
  undo,     \* history: undo[p], the contents /rollback p owes the user, the
            \* next one last
  first,    \* history: first[p], the text of p when the program started
  strayed,  \* history: files the store has lost the original of, or never had
  before,   \* history: before[p], the text of p when the task started
  outside   \* history: files changed in this task by the user, by a command
            \* or by a write that failed half way

historyVars == <<undo, first, strayed, before, outside>>
sessionVars == <<storeVars, agentVars, tasks, historyVars>>

Nothing == [p \in Paths |-> <<>>]

SessionInit ==
  /\ AgentInit
  /\ tasks = 0
  /\ undo = Nothing
  /\ first = disk
  /\ strayed = {}
  /\ before = disk
  /\ outside = {}

SessionTypeOK ==
  /\ AgentTypeOK
  /\ tasks \in 0..MaxTasks
  /\ undo \in [Paths -> Seq(Content)]
  /\ \A p \in Paths : Len(undo[p]) <= MaxPerFile
  /\ first \in [Paths -> Content]
  /\ strayed \subseteq Paths
  /\ before \in [Paths -> Content]
  /\ outside \subseteq Paths

-----------------------------------------------------------------------------
(* The history.                                                            *)

\* What a step other than a rollback leaves of what is owed.  A snapshot adds
\* the text p had; a change without one ends what can be taken back.
Owed(p, saved) ==
  IF p \in saved THEN Push(undo[p], disk[p])
  ELSE IF disk'[p] = disk[p] THEN undo[p] ELSE <<>>

\* p is changed before it has a snapshot, or its oldest snapshot is trimmed.
Strays(p, saved) ==
  IF p \in saved THEN Len(stacks[p]) = MaxPerFile
  ELSE stacks[p] = <<>> /\ disk'[p] # disk[p]

\* saved: the files this step takes a snapshot of; changed: those it changes
\* without reporting them.
Observe(saved, changed) ==
  /\ undo' = [p \in Paths |-> Owed(p, saved)]
  /\ strayed' = strayed \cup {p \in Paths : Strays(p, saved)}
  /\ outside' = outside \cup changed
  /\ UNCHANGED <<tasks, first, before>>

-----------------------------------------------------------------------------
\* run_task() or run_streaming_mode().
Start(m) ==
  /\ tasks < MaxTasks
  /\ tasks' = tasks + 1
  /\ StartTask(m)
  /\ before' = disk
  /\ outside' = {}
  /\ UNCHANGED <<undo, first, strayed>>

UserEdits(p, text) ==
  /\ pc \in {"idle", "consent"}
  /\ WriteFile(p, text)
  /\ UNCHANGED <<stacks, agentVars>>

\* /rollback p: the newest snapshot is popped and written to the file.
RollbackFile(p) ==
  /\ pc = "idle"
  /\ stacks[p] # <<>>
  /\ stacks' = [stacks EXCEPT ![p] = Popped(@)]
  /\ WriteFile(p, Top(stacks[p]))
  /\ undo' = [undo EXCEPT ![p] = SubSeq(@, 1, Len(@) - 1)]
  /\ UNCHANGED <<agentVars, tasks, first, strayed, before, outside>>

Tracked == {p \in Paths : stacks[p] # <<>>}

\* /rollback all: one file after the other, each to its newest snapshot.
RollbackAll ==
  /\ pc = "idle"
  /\ Tracked # {}
  /\ stacks' = [p \in Paths |-> Popped(stacks[p])]
  /\ disk' = [p \in Paths |-> IF p \in Tracked THEN Top(stacks[p]) ELSE disk[p]]
  /\ present' = present \cup Tracked
  /\ undo' = [p \in Paths |-> SubSeq(undo[p], 1, Len(undo[p]) - 1)]
  /\ UNCHANGED <<agentVars, tasks, first, strayed, before, outside>>

\* /checkpoint: the tracked files that can be read.
Checkpoint ==
  /\ pc = "idle"
  /\ Tracked # {}
  /\ stacks' = [p \in Paths |->
                  IF p \in Tracked \cap present THEN Push(stacks[p], disk[p]) ELSE stacks[p]]
  /\ UNCHANGED <<fileVars, agentVars>>

\* The program ends and is started again: a new session over the same files.
Restart ==
  /\ pc' = "idle"
  /\ attempt' = 0
  /\ todo' = <<>>
  /\ command' = FALSE
  /\ wrote' = {}
  /\ allWrote' = {}
  /\ result' = "none"
  /\ stacks' = Nothing
  /\ undo' = Nothing
  /\ first' = disk
  /\ strayed' = {}
  /\ before' = disk
  /\ outside' = {}
  /\ UNCHANGED <<fileVars, mode, tasks>>

-----------------------------------------------------------------------------
AskedFor == {Head(todo).path}
ToSave == IF Saves(Head(todo)) THEN AskedFor ELSE {}

FileStep ==
  \/ (Apply \/ ApplyFails) /\ Observe(ToSave, {})
  \/ ApplyTruncates /\ Observe(ToSave, AskedFor)

\* A file changes that the agent knows nothing of.
Interference ==
  \E p \in Paths, text \in OutsideTexts :
     (CommandWrites(p, text) \/ UserEdits(p, text)) /\ Observe({}, {p})

SessionNext ==
  \/ \E m \in {"run", "stream"} : Start(m)
  \/ TalkStep /\ Observe({}, {})
  \/ FileStep
  \/ Interference
  \/ \E p \in Paths : RollbackFile(p)
  \/ RollbackAll
  \/ Checkpoint /\ Observe(Tracked \cap present, {})
  \/ Restart

SessionSpec == SessionInit /\ [][SessionNext]_sessionVars

(* Every call of the model returns or raises (the clients have timeouts),  *)
(* every prompt is answered, every hook and every command ends (the runner *)
(* kills it at its timeout).                                               *)
SessionFairSpec ==
  /\ SessionSpec
  /\ WF_sessionVars((TalkStep /\ Observe({}, {})) \/ FileStep)

-----------------------------------------------------------------------------
(* /rollback takes back what was done last: as long as a file has changed  *)
(* only in ways the store has seen (a replace by run(), a checkpoint, a    *)
(* rollback), each /rollback of it gives the text it had before the last   *)
(* of them, and the next one goes a step further back.  A snapshot of a    *)
(* write that failed, or a user's edit that was overwritten, included.     *)
RollbackUndoes ==
  [][\A p \in Paths :
       (RollbackFile(p) \/ RollbackAll) /\ undo[p] # <<>> => disk'[p] = Top(undo[p])]_sessionVars

(* The bottom of a stack is the text the file had when the program started *)
(* and no rollback removes it, unless the file was changed before its      *)
(* first snapshot or has had more snapshots than the store keeps.          *)
OriginalKept ==
  \A p \in Paths \ strayed :
     IF stacks[p] = <<>> THEN disk[p] = first[p] ELSE stacks[p][1] = first[p]

(* AgentResult.files_written names every file the task has changed, in     *)
(* whichever attempt, but for those changed by the user, by a command, or  *)
(* by a write that failed after it had truncated the file.                 *)
ReportNamesEveryChange ==
  pc # "idle" => \A p \in Paths : disk[p] # before[p] => p \in allWrote \cup outside

(* A task ends, with one of the verdicts or with the program.              *)
TaskEnds == pc # "idle" ~> pc = "idle"

-----------------------------------------------------------------------------
(* "The stack bottom is always the pre-session original."                  *)
(* (SnapshotStore's docstring.)                                            *)
BottomIsOriginal ==
  \A p \in Paths : stacks[p] # <<>> => stacks[p][1] = first[p]

(* "delete" is an action like the others (the prompt's schema): a response *)
(* without a command, carried out, that leaves no unparseable Python file  *)
(* behind, ends the task.                                                  *)
CarriedOutEndsTask ==
  [][CheckFiles /\ wrote # {}
       /\ (\A p \in wrote \cap PyFiles \cap present : Parses(disk[p]))
     => result' = "filesWritten"]_sessionVars
=============================================================================

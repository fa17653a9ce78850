----------------------------- MODULE Databases -----------------------------
(***************************************************************************)
(* app/core/project_memory.py with /memory and the prompt's block, and     *)
(* app/core/crash_db.py with /crashes: two SQLite files that every program *)
(* of the user shares, the first if they work in one folder.               *)
(*                                                                         *)
(* The memory keeps its connection.  _exec swallows errors, so a commit    *)
(* that fails leaves the transaction open and its lock held: the next      *)
(* statement that succeeds takes it along, the end of the program loses    *)
(* it, and the other programs write nothing until then.  The crash         *)
(* database has a connection for every call, and a call that fails leaves  *)
(* nothing.  Nothing in the program fills the tables of fixes, symbols and *)
(* API errors.                                                             *)
(***************************************************************************)
EXTENDS Naturals

CONSTANTS
  Users,     \* the programs
  FactKeys,  \* the keys of facts
  MaxRows,   \* bound: the rows ever written
  Unlocked     \* no program has a transaction open

ASSUME DatabasesAssumption ==
  /\ MaxRows \in Nat
  /\ "crash" \notin FactKeys
  /\ Unlocked \notin Users

VARIABLES
  facts,      \* the rows of the memory that are committed
  holder,     \* the program that has a transaction open on it, and so the lock
  memoryChange,     \* the rows after that transaction
  crashes,    \* the rows of the crash database
  crashLock,  \* a call has a transaction open on it
  crashChange,\* the rows after that transaction
  rowsMade,   \* the rows so far, of both
  deleted,    \* the rows a command has said it deleted
  program     \* program[p]: what p is at, and the rows it is about to delete

memoryVars == <<facts, holder, memoryChange>>
crashVars == <<crashes, crashLock, crashChange>>
dbVars == <<memoryVars, crashVars, rowsMade, deleted, program>>

\* A row of the memory has its key; "crash" is one of the other database.
NewRow(k) == [key |-> k, number |-> rowsMade + 1]

Doing(what, rows) == [at |-> what, rows |-> rows]
ProgramReady == Doing("ready", {})
ProgramDown == Doing("down", {})
Becomes(p, state) == program' = [program EXCEPT ![p] = state]

DatabasesInit ==
  /\ facts = {} /\ holder = Unlocked /\ memoryChange = {}
  /\ crashes = {} /\ crashLock = FALSE /\ crashChange = {}
  /\ rowsMade = 0
  /\ deleted = {}
  /\ program = [p \in Users |-> ProgramDown]

-----------------------------------------------------------------------------
(* SQLite.  Whoever has a transaction open sees its rows, and alone writes. *)

Visible(p) == IF holder = p THEN memoryChange ELSE facts

\* A statement that writes, which takes the lock.
Stated(p, rows) ==
  /\ holder \in {Unlocked, p}
  /\ holder' = p /\ memoryChange' = rows

\* No transaction is open.
Closed == holder' = Unlocked /\ memoryChange' = {}

MemoryCommitted(p) ==
  IF holder = p THEN facts' = memoryChange /\ Closed ELSE UNCHANGED memoryVars

\* A commit that fails: the transaction is open still, or SQLite has rolled it back.
MemoryRolledBack(p) ==
  IF holder = p THEN UNCHANGED facts /\ Closed ELSE UNCHANGED memoryVars
MemoryUncommitted(p) == UNCHANGED memoryVars \/ MemoryRolledBack(p)

-----------------------------------------------------------------------------
(* The memory.                                                             *)

IsReady(p) == program[p] = ProgramReady

\* /memory add says "Remembered" whatever becomes of the row.
Remember(p, k) ==
  /\ IsReady(p)
  /\ rowsMade < MaxRows /\ rowsMade' = rowsMade + 1
  /\ \/ Stated(p, Visible(p) \cup {NewRow(k)}) /\ Becomes(p, Doing("add", {}))
     \/ UNCHANGED <<holder, memoryChange, program>>
  /\ UNCHANGED <<facts, deleted, crashVars>>

RememberCommits(p) ==
  /\ program[p].at = "add"
  /\ MemoryCommitted(p) \/ MemoryUncommitted(p)
  /\ Becomes(p, ProgramReady)
  /\ UNCHANGED <<rowsMade, deleted, crashVars>>

\* Every query of /memory, of the context's figures and of a prompt goes through
\* _exec too, which commits what is open before it takes the rows.
MemoryQuery(p) ==
  /\ IsReady(p)
  /\ MemoryCommitted(p) \/ MemoryUncommitted(p)
  /\ UNCHANGED <<rowsMade, deleted, program, crashVars>>

\* forget does without _exec: an error goes through the command, and ends the
\* program.
Forget(p, k) ==
  /\ IsReady(p)
  /\ LET rows == {r \in Visible(p) : r.key = k}
     IN \/ Stated(p, Visible(p) \ rows) /\ Becomes(p, Doing("forget", rows))
        \/ Becomes(p, Doing("raise", {})) /\ UNCHANGED <<holder, memoryChange>>
  /\ UNCHANGED <<facts, rowsMade, deleted, crashVars>>

\* Mutant of the next: the rows are counted and the commit is left to the next query.
ForgetWithoutCommit(p) ==
  /\ program[p].at = "forget"
  /\ deleted' = deleted \cup program[p].rows
  /\ Becomes(p, ProgramReady)
  /\ UNCHANGED <<memoryVars, rowsMade, crashVars>>

ForgetCommits(p) ==
  /\ program[p].at = "forget"
  /\ \/ /\ MemoryCommitted(p)
        /\ deleted' = deleted \cup program[p].rows
        /\ Becomes(p, ProgramReady)
     \/ MemoryUncommitted(p) /\ Becomes(p, Doing("raise", {})) /\ UNCHANGED deleted
  /\ UNCHANGED <<rowsMade, crashVars>>

-----------------------------------------------------------------------------
(* The crash database.                                                     *)

CrashClosed == crashLock' = FALSE /\ crashChange' = {}

\* A reader of the supervisor, or the hook for exceptions, records a crash, in a
\* thread of its own or the last one of a program.
RecordCrash(p) ==
  /\ program[p].at # "down"
  /\ rowsMade < MaxRows /\ rowsMade' = rowsMade + 1
  /\ ~crashLock /\ crashLock' = TRUE
  /\ crashChange' = crashes \cup {NewRow("crash")}
  /\ UNCHANGED <<memoryVars, crashes, deleted, program>>

\* Its connection commits, or is closed without: the caller only logs that.
RecordCommits ==
  /\ crashLock
  /\ \A p \in Users : program[p].at # "clear"
  /\ crashes' \in {crashChange, crashes}
  /\ CrashClosed
  /\ UNCHANGED <<memoryVars, rowsMade, deleted, program>>

\* /crashes clear
ClearCrashes(p) ==
  /\ IsReady(p)
  /\ ~crashLock /\ crashLock' = TRUE
  /\ crashChange' = {}
  /\ Becomes(p, Doing("clear", crashes))
  /\ UNCHANGED <<memoryVars, crashes, rowsMade, deleted>>

\* Mutant of the next: the count is returned past the commit.
ClearWithoutCommit(p) ==
  /\ program[p].at = "clear"
  /\ CrashClosed
  /\ deleted' = deleted \cup program[p].rows
  /\ Becomes(p, ProgramReady)
  /\ UNCHANGED <<memoryVars, crashes, rowsMade>>

\* An error counts as none deleted.
ClearCommits(p) ==
  /\ program[p].at = "clear"
  /\ \/ crashes' = crashChange /\ deleted' = deleted \cup program[p].rows
     \/ UNCHANGED <<crashes, deleted>>
  /\ CrashClosed
  /\ Becomes(p, ProgramReady)
  /\ UNCHANGED <<memoryVars, rowsMade>>

-----------------------------------------------------------------------------
(* The programs.                                                           *)

StartProgram(p) ==
  /\ program[p] = ProgramDown
  /\ Becomes(p, ProgramReady)
  /\ UNCHANGED <<memoryVars, rowsMade, deleted, crashVars>>

\* At /quit, by an exception, or killed: also within a commit, which is done then
\* or not.
StopProgram(p) ==
  /\ program[p].at # "down"
  /\ \/ MemoryRolledBack(p)
     \/ program[p].at \in {"add", "forget"} /\ MemoryCommitted(p)
  /\ IF program[p].at = "clear" THEN crashes' \in {crashes, crashChange} /\ CrashClosed
     ELSE UNCHANGED crashVars
  /\ Becomes(p, ProgramDown)
  /\ UNCHANGED <<rowsMade, deleted>>

DatabasesNext ==
  \/ RecordCommits
  \/ \E p \in Users :
       \/ \E k \in FactKeys : Remember(p, k) \/ Forget(p, k)
       \/ RememberCommits(p) \/ MemoryQuery(p) \/ ForgetCommits(p)
       \/ RecordCrash(p) \/ ClearCrashes(p) \/ ClearCommits(p)
       \/ StartProgram(p) \/ StopProgram(p)

DatabasesSpec == DatabasesInit /\ [][DatabasesNext]_dbVars

-----------------------------------------------------------------------------
\* A row that a command has said it deleted is in no database any more, nor in a
\* transaction that may still be taken along: whatever failed before, was left
\* open, or is rolled back when a program stops (/memory forget, /crashes clear).
DeletedStaysDeleted ==
  deleted \cap (facts \cup memoryChange \cup crashes \cup crashChange) = {}
=============================================================================

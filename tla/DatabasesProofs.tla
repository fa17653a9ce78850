-------------------------- MODULE DatabasesProofs --------------------------
(***************************************************************************)
(* What a command has said it deleted stays deleted: DeletedStaysDeleted   *)
(* for any number of programs, keys and rows.                              *)
(***************************************************************************)
EXTENDS Databases, TLAPS

Stages == {"down", "ready", "add", "forget", "raise", "clear"}
FactRows == [key : FactKeys, number : 1..rowsMade]
CrashRows == [key : {"crash"}, number : 1..rowsMade]

\* A row has the number of its making, and the two databases keep apart.
RowsInv ==
  /\ rowsMade \in Nat
  /\ facts \in SUBSET FactRows /\ memoryChange \in SUBSET FactRows
  /\ crashes \in SUBSET CrashRows /\ crashChange \in SUBSET CrashRows
  /\ deleted \in SUBSET (FactRows \cup CrashRows)
  /\ program \in [Users -> [at : Stages, rows : SUBSET (FactRows \cup CrashRows)]]

\* Who is about to say that rows are gone holds the lock, and its transaction has
\* none of them.
LockInv ==
  /\ \A p \in Users : program[p].at = "forget" =>
       /\ holder = p
       /\ program[p].rows \subseteq FactRows
       /\ program[p].rows \cap memoryChange = {}
  /\ \A p \in Users : program[p].at = "clear" =>
       /\ crashLock /\ crashChange = {}
       /\ program[p].rows \subseteq CrashRows
       /\ \A q \in Users : program[q].at = "clear" => q = p

DbInv == RowsInv /\ LockInv /\ DeletedStaysDeleted

-----------------------------------------------------------------------------
(* The steps, by what they do to the rows.                                 *)

LEMMA InitialDb == DatabasesInit => DbInv
  BY DatabasesAssumption DEF DatabasesInit, DbInv, RowsInv, LockInv,
     DeletedStaysDeleted, ProgramDown, Doing, Stages, FactRows, CrashRows

\* No step revises a number, and new rows come with the next one.
LEMMA RowsKept == RowsInv /\ [DatabasesNext]_dbVars => RowsInv'
<1> SUFFICES ASSUME RowsInv, [DatabasesNext]_dbVars PROVE RowsInv'
  OBVIOUS
<1> USE DatabasesAssumption DEF RowsInv, memoryVars, crashVars
<1>1. ASSUME rowsMade' \in {rowsMade, rowsMade + 1}
      PROVE  FactRows \subseteq FactRows' /\ CrashRows \subseteq CrashRows'
  BY <1>1 DEF FactRows, CrashRows
<1>2. CASE UNCHANGED dbVars
  BY <1>2 DEF dbVars, FactRows, CrashRows
<1>3. CASE RecordCommits
  BY <1>1, <1>3 DEF RecordCommits, CrashClosed
<1>4. ASSUME NEW p \in Users, NEW k \in FactKeys, Remember(p, k) PROVE RowsInv'
  <2>1. NewRow(k) \in FactRows'
    BY <1>4 DEF Remember, NewRow, FactRows
  <2>2. facts' \in SUBSET FactRows' /\ memoryChange' \in SUBSET FactRows'
    BY <1>1, <1>4, <2>1 DEF Remember, Stated, Visible
  <2>3. program' \in [Users -> [at : Stages, rows : SUBSET (FactRows \cup CrashRows)']]
    BY <1>1, <1>4 DEF Remember, Becomes, Doing, Stages
  <2>. QED
    BY <1>1, <1>4, <2>2, <2>3 DEF Remember
<1>5. ASSUME NEW p \in Users, NEW k \in FactKeys, Forget(p, k) PROVE RowsInv'
  BY <1>1, <1>5 DEF Forget, Stated, Visible, Becomes, Doing, Stages
<1>6. ASSUME NEW p \in Users, RememberCommits(p) PROVE RowsInv'
  BY <1>1, <1>6 DEF RememberCommits, MemoryCommitted, MemoryUncommitted,
     MemoryRolledBack, Closed, Becomes, ProgramReady, Doing, Stages
<1>7. ASSUME NEW p \in Users, MemoryQuery(p) PROVE RowsInv'
  BY <1>1, <1>7 DEF MemoryQuery, MemoryCommitted, MemoryUncommitted,
     MemoryRolledBack, Closed
<1>8. ASSUME NEW p \in Users, ForgetCommits(p) PROVE RowsInv'
  BY <1>1, <1>8 DEF ForgetCommits, MemoryCommitted, MemoryUncommitted,
     MemoryRolledBack, Closed, Becomes, ProgramReady, Doing, Stages
<1>9. ASSUME NEW p \in Users, RecordCrash(p) PROVE RowsInv'
  <2>1. NewRow("crash") \in CrashRows'
    BY <1>9 DEF RecordCrash, NewRow, CrashRows
  <2>. QED
    BY <1>1, <1>9, <2>1 DEF RecordCrash
<1>10. ASSUME NEW p \in Users, ClearCrashes(p) PROVE RowsInv'
  BY <1>1, <1>10 DEF ClearCrashes, Becomes, Doing, Stages
<1>11. ASSUME NEW p \in Users, ClearCommits(p) PROVE RowsInv'
  BY <1>1, <1>11 DEF ClearCommits, CrashClosed, Becomes, ProgramReady, Doing,
     Stages
<1>12. ASSUME NEW p \in Users, StartProgram(p) PROVE RowsInv'
  BY <1>1, <1>12 DEF StartProgram, Becomes, ProgramReady, Doing, Stages
<1>13. ASSUME NEW p \in Users, StopProgram(p) PROVE RowsInv'
  BY <1>1, <1>13 DEF StopProgram, MemoryRolledBack, MemoryCommitted, Closed,
     CrashClosed, Becomes, ProgramDown, Doing, Stages
<1>. QED
  BY <1>2, <1>3, <1>4, <1>5, <1>6, <1>7, <1>8, <1>9, <1>10, <1>11, <1>12,
     <1>13 DEF DatabasesNext

-----------------------------------------------------------------------------
(* The locks: whoever has counted rows keeps the others out until it is    *)
(* told.                                                                   *)

LEMMA LockKept == RowsInv /\ LockInv /\ [DatabasesNext]_dbVars => LockInv'
<1> SUFFICES ASSUME RowsInv, LockInv, [DatabasesNext]_dbVars PROVE LockInv'
  OBVIOUS
<1> USE DatabasesAssumption DEF RowsInv, memoryVars, crashVars
<1>1. ASSUME rowsMade' \in {rowsMade, rowsMade + 1}
      PROVE  FactRows \subseteq FactRows' /\ CrashRows \subseteq CrashRows'
  BY <1>1 DEF FactRows, CrashRows
<1>2. CASE UNCHANGED dbVars
  BY <1>2 DEF dbVars, LockInv, FactRows, CrashRows
<1>3. CASE RecordCommits
  BY <1>1, <1>3 DEF RecordCommits, CrashClosed, LockInv
<1>4. ASSUME NEW p \in Users, NEW k \in FactKeys, Remember(p, k) PROVE LockInv'
  BY <1>1, <1>4 DEF Remember, IsReady, Stated, Becomes, ProgramReady, Doing,
     LockInv
<1>5. ASSUME NEW p \in Users, NEW k \in FactKeys, Forget(p, k) PROVE LockInv'
  <2>1. \A r \in Visible(p) : r \in FactRows
    BY DEF Visible
  <2>. QED
    BY <1>1, <1>5, <2>1 DEF Forget, IsReady, Stated, Becomes, ProgramReady,
       Doing, LockInv
<1>6. ASSUME NEW p \in Users, RememberCommits(p) PROVE LockInv'
  BY <1>1, <1>6 DEF RememberCommits, MemoryCommitted, MemoryUncommitted,
     MemoryRolledBack, Closed, Becomes, ProgramReady, Doing, LockInv
<1>7. ASSUME NEW p \in Users, MemoryQuery(p) PROVE LockInv'
  BY <1>1, <1>7 DEF MemoryQuery, IsReady, ProgramReady, Doing,
     MemoryCommitted, MemoryUncommitted, MemoryRolledBack, Closed, LockInv
<1>8. ASSUME NEW p \in Users, ForgetCommits(p) PROVE LockInv'
  BY <1>1, <1>8 DEF ForgetCommits, MemoryCommitted, MemoryUncommitted,
     MemoryRolledBack, Closed, Becomes, ProgramReady, Doing, LockInv
<1>9. ASSUME NEW p \in Users, RecordCrash(p) PROVE LockInv'
  BY <1>1, <1>9 DEF RecordCrash, LockInv
<1>10. ASSUME NEW p \in Users, ClearCrashes(p) PROVE LockInv'
  BY <1>1, <1>10 DEF ClearCrashes, IsReady, Becomes, ProgramReady, Doing,
     LockInv
<1>11. ASSUME NEW p \in Users, ClearCommits(p) PROVE LockInv'
  BY <1>1, <1>11 DEF ClearCommits, CrashClosed, Becomes, ProgramReady, Doing,
     LockInv
<1>12. ASSUME NEW p \in Users, StartProgram(p) PROVE LockInv'
  BY <1>1, <1>12 DEF StartProgram, Becomes, ProgramReady, Doing, LockInv
<1>13. ASSUME NEW p \in Users, StopProgram(p) PROVE LockInv'
  BY <1>1, <1>13 DEF StopProgram, MemoryRolledBack, MemoryCommitted, Closed,
     CrashClosed, Becomes, ProgramDown, Doing, LockInv
<1>. QED
  BY <1>2, <1>3, <1>4, <1>5, <1>6, <1>7, <1>8, <1>9, <1>10, <1>11, <1>12,
     <1>13 DEF DatabasesNext

-----------------------------------------------------------------------------
(* The rows that are gone.                                                 *)

\* Rows of one database are not in the other.
LEMMA KeptApart == RowsInv => FactRows \cap CrashRows = {}
  BY DatabasesAssumption DEF RowsInv, FactRows, CrashRows

\* A row that is made now is not one that is gone.
LEMMA NewRowIsNew == RowsInv => \A k \in FactKeys \cup {"crash"} : NewRow(k) \notin deleted
  BY DatabasesAssumption DEF RowsInv, NewRow, FactRows, CrashRows

LEMMA DeletedKept == DbInv /\ [DatabasesNext]_dbVars => DeletedStaysDeleted'
<1> SUFFICES ASSUME DbInv, [DatabasesNext]_dbVars PROVE DeletedStaysDeleted'
  OBVIOUS
<1> USE DEF DbInv, DeletedStaysDeleted, memoryVars, crashVars
<1>1. FactRows \cap CrashRows = {}
  BY KeptApart
<1>2. \A k \in FactKeys \cup {"crash"} : NewRow(k) \notin deleted
  BY NewRowIsNew
<1>3. CASE UNCHANGED dbVars
  BY <1>3 DEF dbVars
<1>4. CASE RecordCommits
  BY <1>4 DEF RecordCommits, CrashClosed
<1>5. ASSUME NEW p \in Users, NEW k \in FactKeys, Remember(p, k) PROVE DeletedStaysDeleted'
  BY <1>2, <1>5 DEF Remember, Stated, Visible
<1>6. ASSUME NEW p \in Users, NEW k \in FactKeys, Forget(p, k) PROVE DeletedStaysDeleted'
  BY <1>6 DEF Forget, Stated, Visible
<1>7. ASSUME NEW p \in Users, RememberCommits(p) \/ MemoryQuery(p) PROVE DeletedStaysDeleted'
  BY <1>7 DEF RememberCommits, MemoryQuery, MemoryCommitted,
     MemoryUncommitted, MemoryRolledBack, Closed
<1>8. ASSUME NEW p \in Users, ForgetCommits(p) PROVE DeletedStaysDeleted'
  <2>1. /\ program[p].rows \cap memoryChange = {}
        /\ program[p].rows \cap (crashes \cup crashChange) = {}
        /\ holder = p
    BY <1>1, <1>8 DEF ForgetCommits, LockInv, RowsInv
  <2>. QED
    BY <1>8, <2>1 DEF ForgetCommits, MemoryCommitted, MemoryUncommitted,
       MemoryRolledBack, Closed
<1>9. ASSUME NEW p \in Users, RecordCrash(p) PROVE DeletedStaysDeleted'
  BY <1>2, <1>9 DEF RecordCrash
<1>10. ASSUME NEW p \in Users, ClearCrashes(p) PROVE DeletedStaysDeleted'
  BY <1>10 DEF ClearCrashes
<1>11. ASSUME NEW p \in Users, ClearCommits(p) PROVE DeletedStaysDeleted'
  <2>1. /\ program[p].rows \cap (facts \cup memoryChange) = {}
        /\ crashChange = {}
    BY <1>1, <1>11 DEF ClearCommits, LockInv, RowsInv
  <2>. QED
    BY <1>11, <2>1 DEF ClearCommits, CrashClosed
<1>12. ASSUME NEW p \in Users, StartProgram(p) PROVE DeletedStaysDeleted'
  BY <1>12 DEF StartProgram
<1>13. ASSUME NEW p \in Users, StopProgram(p) PROVE DeletedStaysDeleted'
  BY <1>13 DEF StopProgram, MemoryRolledBack, MemoryCommitted, Closed,
     CrashClosed
<1>. QED
  BY <1>3, <1>4, <1>5, <1>6, <1>7, <1>8, <1>9, <1>10, <1>11, <1>12, <1>13 DEF
     DatabasesNext

(* A row that /memory forget or /crashes clear has counted as deleted is   *)
(* in neither database again, nor in a transaction that is still open,     *)
(* whatever programs share them, and wherever one of them fails or stops.  *)
THEOREM DeletedForGood == DatabasesSpec => []DeletedStaysDeleted
<1>1. DbInv /\ [DatabasesNext]_dbVars => DbInv'
  BY RowsKept, LockKept, DeletedKept DEF DbInv
<1>2. DbInv => DeletedStaysDeleted
  BY DEF DbInv
<1>. QED
  BY InitialDb, <1>1, <1>2, PTL DEF DatabasesSpec
=============================================================================

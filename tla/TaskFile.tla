------------------------------- MODULE TaskFile -------------------------------
(***************************************************************************)
(* tasks.json (app/core/supervisor.py): every reader thread that has filed *)
(* the end of its task saves the finished records of the whole table,      *)
(* which it copies under the lock and writes, in place, outside it; the    *)
(* next start of the program takes the records over and numbers its tasks  *)
(* from T0001 again.                                                       *)
(***************************************************************************)
EXTENDS Naturals, FiniteSets

CONSTANTS
  MaxTasks,        \* bound: the tasks of one run of the program
  MaxStarts,       \* bound: the runs of the program
  SaveLimit        \* save_registry's limit

ASSUME TaskFileAssumption == MaxTasks \in Nat /\ MaxStarts \in Nat /\ SaveLimit \in Nat \ {0}

VARIABLES
  start,       \* the number of this run of the program
  table,       \* the records of _tasks: number, run, and whether it is finished
  reader,      \* reader[i]: where the reader thread of task i is
  copy,        \* copy[i]: the records that it has taken
  taskFile,    \* tasks.json: whether it parses, and its records
  disturbed    \* ghost: two saves of this run have overlapped, or one has failed

fileVars == <<start, table, reader, copy, taskFile, disturbed>>

Numbers == 1..MaxTasks
Record(i, run, over) == [number |-> i, run |-> run, over |-> over]
Others(i) == {r \in table : r.number # i}
FreshReaders == [i \in Numbers |-> "none"]
NoCopies == [i \in Numbers |-> {}]

TaskFileInit ==
  /\ start = 1
  /\ table = {}
  /\ reader = FreshReaders
  /\ copy = NoCopies
  /\ taskFile = [parses |-> TRUE, records |-> {}]
  /\ disturbed = FALSE

\* _next_id counts from 1 in every run; a record of an earlier run that has the
\* number is replaced.
Launched == {i \in Numbers : reader[i] # "none"}

LaunchTask ==
  /\ \E i \in Numbers \ Launched :
       /\ \A j \in 1..(i - 1) : j \in Launched
       /\ table' = Others(i) \cup {Record(i, start, FALSE)}
       /\ reader' = [reader EXCEPT ![i] = "running"]
  /\ UNCHANGED <<start, copy, taskFile, disturbed>>

\* Mutant of the next: the end is filed behind the save.
FileEndLate(i) ==
  /\ reader[i] = "running"
  /\ reader' = [reader EXCEPT ![i] = "filed"]
  /\ UNCHANGED <<start, table, copy, taskFile, disturbed>>

\* The reader files the end of its task.
FileEnd(i) ==
  /\ reader[i] = "running"
  /\ table' = Others(i) \cup {Record(i, start, TRUE)}
  /\ reader' = [reader EXCEPT ![i] = "filed"]
  /\ UNCHANGED <<start, copy, taskFile, disturbed>>

\* save_registry under the lock: the finished ones, the latest ones first.
\* Records that were loaded have the time of the start for theirs.
Older(r, q) == r.run < start \/ (q.run = start /\ r.number < q.number)

CopyRecords(i) ==
  /\ reader[i] = "filed"
  /\ \E kept \in SUBSET {r \in table : r.over} :
       /\ Cardinality(kept) <= SaveLimit
       /\ \A r \in {r \in table : r.over} \ kept :
            Cardinality(kept) = SaveLimit /\ \A q \in kept : Older(r, q)
       /\ copy' = [copy EXCEPT ![i] = kept]
  /\ reader' = [reader EXCEPT ![i] = "copied"]
  /\ disturbed' = (disturbed \/ \E j \in Numbers : reader[j] = "copied")
  /\ UNCHANGED <<start, table, taskFile>>

\* The write of the file, which an error leaves as it was or cut short, and two
\* writes at once may mix.
CutShort == [parses |-> FALSE, records |-> {}]

WriteRecords(i) ==
  /\ reader[i] = "copied"
  /\ \/ /\ taskFile' = [parses |-> TRUE, records |-> copy[i]]
        /\ UNCHANGED disturbed
     \/ /\ taskFile' \in {taskFile, CutShort}
        /\ disturbed' = TRUE
  /\ reader' = [reader EXCEPT ![i] = "saved"]
  /\ copy' = [copy EXCEPT ![i] = {}]
  /\ UNCHANGED <<start, table>>

\* The program ends, in the middle of a write perhaps, and starts again:
\* load_registry takes a file that does not parse for none.
TaskFileRestart ==
  /\ start < MaxStarts
  /\ start' = start + 1
  /\ taskFile' \in {taskFile} \cup
       IF \E i \in Numbers : reader[i] = "copied"
       THEN {CutShort} ELSE {}
  /\ table' = taskFile'.records
  /\ reader' = FreshReaders
  /\ copy' = NoCopies
  /\ disturbed' = FALSE

TaskFileNext ==
  \/ LaunchTask
  \/ \E i \in Numbers : FileEnd(i) \/ CopyRecords(i) \/ WriteRecords(i)
  \/ TaskFileRestart

TaskFileSpec == TaskFileInit /\ [][TaskFileNext]_fileVars

-----------------------------------------------------------------------------
\* When no save is under way, none of this run has overlapped another one, and
\* none has failed, the file has the end of every task of this run whose reader
\* has saved, up to the limit, and no other task under its number (_reader,
\* save_registry).
EndsAreSaved ==
  ~disturbed /\ (\A i \in Numbers : reader[i] # "copied") =>
    \A i \in Numbers : reader[i] = "saved" =>
      /\ \/ Record(i, start, TRUE) \in taskFile.records
         \/ Cardinality({r \in table : r.over /\ r.run = start}) > SaveLimit
      /\ \A r \in taskFile.records : r.number = i => r.run = start
=============================================================================

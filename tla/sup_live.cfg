\* Everything a reader can meet, twice on one slot: a deadline, processes that
\* close stdout early or catch SIGTERM, kill() at any moment.  Every launch succeeds.
\* The program may stop when every call has been served.
CHECK_DEADLOCK FALSE
CONSTANTS
  t1 = t1  t2 = t2  t3 = t3
  NoTask = NoTask
  Tasks <- Two
  MaxConcurrent = 1
  Unstartable <- None
  Timed <- First
  Detaching <- First
  Targets <- First
  ProcessCodes <- FailureCode
SPECIFICATION EndingSpec
INVARIANTS
  FinishedIsDeadOrDying
PROPERTIES
  QueuedTaskStarts
  LaunchedTaskEnds

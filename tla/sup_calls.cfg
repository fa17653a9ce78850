\* Two callers on one slot, one with a timeout, one without.
\* The program may stop when every call has been served.
CHECK_DEADLOCK FALSE
CONSTANTS
  t1 = t1  t2 = t2
  NoTask = NoTask
  Tasks <- Two
  MaxConcurrent = 1
  Unstartable <- None
  Timed <- First
  Detaching <- None
  Targets <- None
  ProcessCodes <- OneCode
  Callers <- Two
SPECIFICATION BlockingFair
INVARIANTS
  AnswerIsTrue
PROPERTY FinishedCallReturns

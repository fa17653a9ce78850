\* One slot, two calls.
\* The program may stop when every call has been served.
CHECK_DEADLOCK FALSE
CONSTANTS
  t1 = t1  t2 = t2  t3 = t3
  NoTask = NoTask
  Tasks <- Two
  MaxConcurrent = 1
  Unstartable <- None
  Timed <- None
  Detaching <- None
  Targets <- None
  ProcessCodes <- OneCode
SPECIFICATION Spec
INVARIANT RunningWithinLimit

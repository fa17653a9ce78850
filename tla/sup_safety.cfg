\* Three calls of spawn on one slot, so that two may wait; any launch may fail;
\* shutdown at any moment.
\* The program may stop when every call has been served.
CHECK_DEADLOCK FALSE
CONSTANTS
  t1 = t1  t2 = t2  t3 = t3
  NoTask = NoTask
  Tasks <- Three
  MaxConcurrent = 1
  Unstartable <- Three
  Timed <- None
  Detaching <- None
  Targets <- None
  ProcessCodes <- OneCode
SYMMETRY TaskSymmetry
SPECIFICATION Spec
INVARIANTS
  TablesAgree
  NoStrandedQueue
  SurvivorWasInFlight
PROPERTIES
  TerminalIsFinal
  ImplementsPool

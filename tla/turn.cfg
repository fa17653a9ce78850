\* Turns of two rounds on one file, two threads in the pool, and the settings
\* and rounds of MCToolTurn.
\* The user may leave the program at the prompt.
CHECK_DEADLOCK FALSE
CONSTANTS
  a = a  one = one  two = two  none = none  test = test
  Commands <- OneCommand
  Files <- OneFile
  Texts <- AllTexts
  Empty = none
  Spellings <- BothSpellings
  FileOf <- Resolve
  Rounds <- SomeRounds
  Configs <- SomeConfigs
  MaxRounds = 2
  Workers = 2
  MaxDenials = 1
  MaxTurns = 3
SPECIFICATION FairSpec
INVARIANTS
  HistoryPaired
  RoundInOrder
  NothingForbidden
PROPERTIES
  TurnEnds

\* The original against the bottom of the stack.
\* Between tasks the program waits for the user.
CHECK_DEADLOCK FALSE
CONSTANTS
  Paths <- OnlyPy
  PyFiles <- OnlyPy
  Chunks <- TwoChunks
  Broken <- BadChunk
  OutsideTexts <- UserText
  Responses <- SomeResponses
  MaxPerFile = 2
  MaxAttempts = 2
  MaxTasks = 2
SPECIFICATION SessionSpec
INVARIANT BottomIsOriginal

\* The same instance as stores.cfg.
\* The program may stop when the bounds are reached.
CHECK_DEADLOCK FALSE
CONSTANTS
  PlanIds = {"p", "q"}
  Numberings <- NumberedPlans
  Fallbacks = TRUE
  NoPlan = NoPlan
  MaxTrouble = 2
  ToolNames = {"x", "y"}
  MaxToolStops = 1
  MaxAttempts = 3
  Commands = {"c"}
  Routes = {"auto", "free-only"}
  MaxFaults = 1
  Programs = {"A", "B"}
  Files = {"f1", "f2", "f3", "f4", "f5"}
  NoLink = NoLink
  Contents = {"none", "some"}
  NoSettings = "none"
  Torn = "torn"
  MaxTasks = 3
  MaxStarts = 2
  SaveLimit = 2
  Paths = {"a", "b"}
  Texts = {"one", "other", "blank"}
  MaxFiles = 1
  Edits <- ThreeEdits
  MaxWorkers = 2
  Words = {"/quit", "/resume", "/session", "/clear", "/undo", "/compact", "/context", "/alias", "/chat", "/code", "/research", "/plan", "/plugins", "/res", "/pl", "/a", "/b"}
  Registered = {"/research", "/plan", "/plugins"}
  Built = {"/quit", "/resume", "/session", "/clear", "/undo", "/compact", "/context", "/alias", "/chat", "/code"}
  ToolWords = {"/b"}
  Begun <- AbbreviatedWords
  AliasNames = {"/a", "/b"}
  AliasTargets = {"/quit", "/a"}
  MaxDepth = 2
  MaxMessages = 1
  MaxSessions = 2
  MaxRuns = 2
  MaxLines = 1
  Loggers = {"P", "Q"}
  MaxBytes = 1
  MaxKeep = 1
  EventNames = {"file_op"}
  QueryLimit = 1
  TailLengths = {0, 1, 2}
  MaxLogged = 3
  MaxSecond = 2
  MaxSids = 3
  GitFiles = {"x", "y"}
  MaxEdits = 2
  MaxCommits = 4
  MaxStashes = 1
  Hosts = {"h", "i"}
  ModelsTTL = 2
  MaxSwaps = 1
  Users = {"A", "B"}
  FactKeys = {"k", "l"}
  MaxRows = 3
  Unlocked = Unlocked
SPECIFICATION Spec
INVARIANT
  ReadOnlyBlocks

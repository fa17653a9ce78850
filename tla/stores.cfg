\* Two plans of up to three steps, one with a number used twice, and two ends of
\* the program or failing writes; two user tools, one end of the program and builds
\* of up to three attempts; one command on the lists, and one write or read
\* that fails, or a stop within a save; two programs on one configuration file, with settings
\* or none; three tasks of
\* which two are saved, in two runs of the program; two files of which one fits in
\* the index; three parallel edits of two files by two workers; two alias names,
\* two runs of the program, two saved sessions and one message at the prompt; a
\* debugged program that writes one line to each pipe; three records of three
\* sessions of two programs, where a file holds one record, one old file is kept
\* and three seconds pass; two files in git, two edits, three commits besides the
\* first and one stash; two model servers with one change, and a cache that lasts
\* for two steps of time; two programs on the databases, two keys of facts and
\* three rows.
\* The program may stop when the bounds are reached.
CHECK_DEADLOCK FALSE
CONSTANTS
  PlanIds = {"p", "q"}
  Numberings <- NumberedPlans
  Fallbacks = TRUE
  NoPlan = NoPlan
  MaxTrouble = 2
  ToolNames = {"x", "y"}
  MaxToolStops = 1
  MaxAttempts = 3
  Commands = {"c"}
  Routes = {"auto", "free-only"}
  MaxFaults = 1
  Programs = {"A", "B"}
  Files = {"f1", "f2", "f3", "f4", "f5"}
  NoLink = NoLink
  Contents = {"none", "some"}
  NoSettings = "none"
  Torn = "torn"
  MaxTasks = 3
  MaxStarts = 2
  SaveLimit = 2
  Paths = {"a", "b"}
  Texts = {"one", "other", "blank"}
  MaxFiles = 1
  Edits <- ThreeEdits
  MaxWorkers = 2
  Words = {"/quit", "/resume", "/session", "/clear", "/undo", "/compact", "/context", "/alias", "/chat", "/code", "/research", "/plan", "/plugins", "/res", "/pl", "/a", "/b"}
  Registered = {"/research", "/plan", "/plugins"}
  Built = {"/quit", "/resume", "/session", "/clear", "/undo", "/compact", "/context", "/alias", "/chat", "/code"}
  ToolWords = {"/b"}
  Begun <- AbbreviatedWords
  AliasNames = {"/a", "/b"}
  AliasTargets = {"/quit", "/a"}
  MaxDepth = 2
  MaxMessages = 1
  MaxSessions = 2
  MaxRuns = 2
  MaxLines = 1
  Loggers = {"P", "Q"}
  MaxBytes = 1
  MaxKeep = 1
  EventNames = {"file_op"}
  QueryLimit = 1
  TailLengths = {0, 1, 2}
  MaxLogged = 3
  MaxSecond = 2
  MaxSids = 3
  GitFiles = {"x", "y"}
  MaxEdits = 2
  MaxCommits = 4
  MaxStashes = 1
  Hosts = {"h", "i"}
  ModelsTTL = 2
  MaxSwaps = 1
  Users = {"A", "B"}
  FactKeys = {"k", "l"}
  MaxRows = 3
  Unlocked = Unlocked
SPECIFICATION Spec
INVARIANTS
  PlanFollowsExecution
  ToolsInHand
  EndsAreSaved
  IndexIsCoherent
  AllOrNothing
  LeftInOrder
  ReportIsWhole
  TrailKept
  ListIsRecent
  DeletedStaysDeleted
PROPERTIES
  SettingsHold
  SavesAreWhole
  NoWorkLost

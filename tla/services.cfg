\* Three attempts on two tests with up to two patches each; two MCP servers that
\* write up to two lines of their own; chats and requests of up to five calls on
\* chains of up to two providers, with streams of up to two events; three threads
\* that want the same page, and one end of the program; two folders with one
\* source each, two threads that make maps, one edit and two maps; two commands
\* on an SSH host and two connections that break.
CONSTANTS
  Tests = {"a", "b"}
  MaxAttempts = 3
  MaxPatches = 2
  FixFallbacks = TRUE
  Servers <- TwoServers
  MaxLines = 2
  Chains <- SomeChains
  MaxRounds = 5
  MaxEvents = 2
  f1 = f1  f2 = f2  f3 = f3
  NoFetcher = NoFetcher
  Fetchers <- ThreeThreads
  MaxFetchStops = 1
  Folders = {"d", "e"}
  NoFolder = "nowhere"
  Sources = {"s"}
  Builders = {"b", "c"}
  MaxEdits = 1
  MaxMaps = 2
  RemoteKinds = {"short", "flood", "endless"}
  MaxRemote = 2
  MaxBreaks = 2
SPECIFICATION Spec
INVARIANTS
  PassIsTrue
  AnswersLagByNotes
  WithinBudget
  WaiterFindsText
PROPERTIES
  FixEnds
  McpCommandEnds
  TurnReturns
  MapCatchesUp
  SshCommandReturns

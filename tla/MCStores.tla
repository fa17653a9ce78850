------------------------------ MODULE MCStores ------------------------------
(***************************************************************************)
(* The instances of what the program keeps: plans, user tools, settings,   *)
(* the files behind them, the index, the parallel writer, the loop of the  *)
(* prompt, a debugged program, the audit trail, the repository, the list   *)
(* of the models, and the databases.  They share no state but for the file *)
(* that Settings takes for written in one step and JsonStore writes in     *)
(* three, so one run takes them together: a behaviour works on one of      *)
(* them, which topic names.                                                *)
(***************************************************************************)
EXTENDS PlanSession, ToolBuilder, Settings, JsonStore, TaskFile, Retrieval, ParallelWriter,
  Repl, DebugRun, Trail, GitWork, ModelChoice, Databases

VARIABLE topic

everything == <<topic, planVars, toolVars, setVars, storeVars, fileVars, indexVars, writerVars,
                replVars, debugVars, trailVars, gitVars, choiceVars, dbVars>>

Init ==
  /\ topic \in {"plan", "tool", "settings", "store", "tasks", "index", "writer", "repl", "debug",
              "trail", "git", "choice", "databases"}
  /\ PlanInit /\ ToolsInit /\ SettingsInit /\ StoreInit
  /\ TaskFileInit /\ RetrievalInit /\ WriterInit /\ ReplInit /\ DebugInit
  /\ TrailInit /\ GitInit /\ ChoiceInit /\ host = "h" /\ DatabasesInit

Next ==
  /\ UNCHANGED topic
  /\ IF topic = "plan" THEN PlanNext ELSE UNCHANGED planVars
  /\ IF topic = "tool" THEN ToolsNext \/ BuilderNext ELSE UNCHANGED toolVars
  /\ IF topic = "settings" THEN SettingsNext ELSE UNCHANGED setVars
  /\ IF topic = "store" THEN StoreNext ELSE UNCHANGED storeVars
  /\ IF topic = "tasks" THEN TaskFileNext ELSE UNCHANGED fileVars
  /\ IF topic = "index" THEN RetrievalNext ELSE UNCHANGED indexVars
  /\ IF topic = "writer" THEN WriterNext ELSE UNCHANGED writerVars
  /\ IF topic = "repl" THEN ReplNext ELSE UNCHANGED replVars
  /\ IF topic = "debug" THEN DebugNext ELSE UNCHANGED debugVars
  /\ IF topic = "trail" THEN TrailNext ELSE UNCHANGED trailVars
  /\ IF topic = "git" THEN GitNext ELSE UNCHANGED gitVars
  /\ IF topic = "choice" THEN ChoiceNext ELSE UNCHANGED choiceVars
  /\ IF topic = "databases" THEN DatabasesNext ELSE UNCHANGED dbVars

Spec == Init /\ [][Next]_everything

NumberedPlans == {<<>>, <<1, 2>>, <<1, 2, 3>>, <<1, 1>>}
AbbreviatedWords ==
  [w \in Words |-> IF w = "/res" THEN {"/research"}
                   ELSE IF w = "/pl" THEN {"/plan", "/plugins"} ELSE {}]
ThreeEdits == <<"a", "b", "a">>
=============================================================================

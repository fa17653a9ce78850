------------------------------ MODULE UserTools ------------------------------
(***************************************************************************)
(* /tool and /<name>: cli/commands/user_tools_cmds.py over the registry,   *)
(* the builder, the validator and the runner of app/core/user_tools.  A    *)
(* tool is a Python file of the user; it is validated (which runs it       *)
(* twice), registered, and run in a thread of its own.                     *)
(*                                                                         *)
(* The registry is written in place after every change, and an error of    *)
(* that write is caught nowhere: it ends the program, as Ctrl-C within a   *)
(* validation does.  A file is what validation makes of it.                *)
(***************************************************************************)
EXTENDS Naturals

CONSTANTS
  ToolNames,     \* the names, none of them reserved
  MaxToolStops   \* bound: ends of the program

ASSUME ToolsAssumption == MaxToolStops \in Nat

VARIABLES
  tools,      \* tools[n]: n in the registry in memory: "enabled", "disabled" or "none"
  toolIndex,  \* user_tools_registry.json: whether it parses, and its entries
  toolFile,   \* toolFile[n]: n.py: "none", "passes", "fails", or "torn", by a
              \* new version that could not be written
  accepted,   \* ghost: the tools whose file has passed, or the user has accepted
  toolPc,     \* where the command is, and the tool it is about
  toolRun,    \* toolRun[n]: the thread that runs n
  toolProc,   \* toolProc[n]: the process it runs n in
  toolStops   \* ghost: ends of the program so far

toolVars == <<tools, toolIndex, toolFile, accepted, toolPc, toolRun, toolProc, toolStops>>

NoTools == [n \in ToolNames |-> "none"]
At(stage, n) == [stage |-> stage, about |-> {n}]
BrokenIndex == [parses |-> FALSE, entries |-> NoTools]
ToolsIdle == toolPc.stage = "idle"
NoToolCommand == [stage |-> "idle", about |-> {}]

ToolsInit ==
  /\ tools = NoTools
  /\ toolIndex = [parses |-> TRUE, entries |-> NoTools]
  /\ toolFile = NoTools
  /\ accepted = {}
  /\ toolPc = NoToolCommand
  /\ toolRun = NoTools
  /\ toolProc = NoTools
  /\ toolStops = 0

TheRuns == <<toolRun, toolProc>>

-----------------------------------------------------------------------------
(* The commands.                                                           *)

\* check_name, of the names that are no command of the program.
Free(n) == tools[n] = "none"

\* Mutant of the next: a name is taken only while its tool is enabled.
WriteOverDisabled(n) ==
  /\ ToolsIdle
  /\ tools[n] # "enabled"
  /\ \E content \in {"passes", "fails"} :
       toolFile' = [toolFile EXCEPT ![n] = content]
  /\ accepted' = accepted \ {n}
  /\ toolPc' \in {At("validate", n), NoToolCommand}
  /\ UNCHANGED <<tools, toolIndex, TheRuns, toolStops>>

\* /tool create up to the written file: the name is free and the user has
\* agreed to the code and to the write.  A write that fails is reported and
\* leaves what it has written.
WriteTool(n) ==
  /\ ToolsIdle
  /\ Free(n)
  /\ \E content \in {"passes", "fails"} :
       toolFile' = [toolFile EXCEPT ![n] = content]
  /\ accepted' = accepted \ {n}
  /\ toolPc' \in {At("validate", n), NoToolCommand}
  /\ UNCHANGED <<tools, toolIndex, TheRuns, toolStops>>

\* One of the three stages: the syntax, the imports, the health check.
FailsStage(n) == toolFile[n] = "fails"

\* validate, and the question whether to register what has failed it.
Validate ==
  /\ toolPc.stage = "validate"
  /\ \E n \in toolPc.about :
       \/ /\ accepted' = accepted \cup {n}
          /\ toolPc' = At("register", n)
       \/ /\ FailsStage(n)
          /\ toolPc' = NoToolCommand
          /\ UNCHANGED accepted
  /\ UNCHANGED <<tools, toolIndex, toolFile, TheRuns, toolStops>>

\* A change of the registry, which is saved next.
ChangeTool(n, to) ==
  /\ tools' = [tools EXCEPT ![n] = to]
  /\ toolPc' = At("save", n)

Register ==
  /\ toolPc.stage = "register"
  /\ \E n \in toolPc.about : ChangeTool(n, "enabled")
  /\ UNCHANGED <<toolIndex, toolFile, accepted, TheRuns, toolStops>>

SaveTools ==
  /\ toolPc.stage = "save"
  /\ toolIndex' = [parses |-> TRUE, entries |-> tools]
  /\ toolPc' = NoToolCommand
  /\ UNCHANGED <<tools, toolFile, accepted, TheRuns, toolStops>>

\* /tool remove deletes the file first; one that is gone already is no error.
DeleteTool(n) ==
  /\ ToolsIdle
  /\ tools[n] # "none"
  /\ toolFile' = [toolFile EXCEPT ![n] = "none"]
  /\ accepted' = accepted \ {n}
  /\ toolPc' = At("unregister", n)
  /\ UNCHANGED <<tools, toolIndex, TheRuns, toolStops>>

Unregister ==
  /\ toolPc.stage = "unregister"
  /\ \E n \in toolPc.about : ChangeTool(n, "none")
  /\ UNCHANGED <<toolIndex, toolFile, accepted, TheRuns, toolStops>>

SetEnabled(n, to) ==
  /\ ToolsIdle
  /\ tools[n] # "none"
  /\ ChangeTool(n, to)
  /\ UNCHANGED <<toolIndex, toolFile, accepted, TheRuns, toolStops>>

\* /tool run and /<name>: the thread is started, and last_run is saved.
RunTool(n) ==
  /\ ToolsIdle
  /\ tools[n] = "enabled"
  /\ toolRun[n] \in {"none", "reported"}
  /\ toolRun' = [toolRun EXCEPT ![n] = "started"]
  /\ toolProc' = [toolProc EXCEPT ![n] = "none"]
  /\ ChangeTool(n, tools[n])
  /\ UNCHANGED <<toolIndex, toolFile, accepted, toolStops>>

\* The program ends and is started again; a save that was under way may have
\* left a file that does not parse, which is taken for an empty registry.
ToolsStop ==
  /\ toolStops < MaxToolStops
  /\ toolStops' = toolStops + 1
  /\ toolIndex' \in {toolIndex} \cup
       IF toolPc.stage \in {"save", "saveBuilt"} THEN {BrokenIndex} ELSE {}
  /\ tools' = toolIndex'.entries
  /\ toolPc' = NoToolCommand
  /\ toolRun' = NoTools
  /\ toolProc' = NoTools
  /\ UNCHANGED <<toolFile, accepted>>

-----------------------------------------------------------------------------
(* The thread of a run: UserToolRunner._stream_subprocess.                 *)

TheRegistry == <<tools, toolIndex, toolFile, accepted, toolPc, toolStops>>

\* A file that is gone, or a process that cannot be made, is reported.
LaunchTool(n) ==
  /\ toolRun[n] = "started"
  /\ \/ /\ toolFile[n] # "none"
        /\ toolRun' = [toolRun EXCEPT ![n] = "reading"]
        /\ toolProc' = [toolProc EXCEPT ![n] = "running"]
     \/ /\ toolRun' = [toolRun EXCEPT ![n] = "reported"]
        /\ UNCHANGED toolProc
  /\ UNCHANGED TheRegistry

\* The clock is looked at when a line arrives, and then only: too late a line
\* has the process killed.
LateLine(n) ==
  /\ toolRun[n] = "reading" /\ toolProc[n] = "running"
  /\ toolRun' = [toolRun EXCEPT ![n] = "waiting"]
  /\ toolProc' = [toolProc EXCEPT ![n] = "killed"]
  /\ UNCHANGED TheRegistry

\* The output ends: the tool is over, or has closed it and goes on.
OutputEnds(n) ==
  /\ toolRun[n] = "reading"
  /\ toolRun' = [toolRun EXCEPT ![n] = "waiting"]
  /\ UNCHANGED <<toolProc, TheRegistry>>

ToolExits(n) ==
  /\ toolProc[n] \in {"running", "killed"}
  /\ toolProc' = [toolProc EXCEPT ![n] = "over"]
  /\ UNCHANGED <<toolRun, TheRegistry>>

\* Mutant of the next: a tool that goes on is left to itself.
ReportRunUnkilled(n) ==
  /\ toolRun[n] = "waiting"
  /\ toolRun' = [toolRun EXCEPT ![n] = "reported"]
  /\ UNCHANGED <<toolProc, TheRegistry>>

\* Five seconds for the process to end, or it is killed; then on_done.
ReportRun(n) ==
  /\ toolRun[n] = "waiting"
  /\ toolProc' = [toolProc EXCEPT ![n] = IF @ = "running" THEN "killed" ELSE @]
  /\ toolRun' = [toolRun EXCEPT ![n] = "reported"]
  /\ UNCHANGED TheRegistry

ToolThread(n) == LaunchTool(n) \/ OutputEnds(n) \/ ReportRun(n) \/ LateLine(n)

ToolsNext ==
  \/ \E n \in ToolNames :
       \/ WriteTool(n) \/ DeleteTool(n) \/ RunTool(n)
       \/ SetEnabled(n, "enabled") \/ SetEnabled(n, "disabled")
       \/ ToolThread(n) \/ ToolExits(n)
  \/ Validate \/ Register \/ SaveTools \/ Unregister
  \/ ToolsStop

ToolsSpec == ToolsInit /\ [][ToolsNext]_toolVars

-----------------------------------------------------------------------------
(* What the module promises.                                               *)

\* A tool that is registered, and so runs by its name.
RegisteredIsAccepted ==
  \A n \in ToolNames :
    /\ tools[n] # "none" => toolFile[n] \in {"none", "torn"} \/ n \in accepted
    /\ toolIndex.entries[n] # "none" => toolFile[n] \in {"none", "torn"} \/ n \in accepted

\* A run that was reported as done.
ReportedRunIsOver ==
  \A n \in ToolNames : toolRun[n] = "reported" => toolProc[n] # "running"

\* No code runs that the user has not let in.  A registered tool holds what passed
\* validation or what the user accepted in spite of it, or its file is gone or was
\* torn by a new version: over stops between the file and the registry in either
\* order, registries that were lost or not written, tools that the model made in
\* several attempts and names that are used again.  A run that was reported as done
\* left nothing running, whether the tool printed too late, ended, or closed its
\* output and went on (UserToolRegistry, ToolBuilder, _run_tool).
ToolsInHand == RegisteredIsAccepted /\ ReportedRunIsOver
=============================================================================

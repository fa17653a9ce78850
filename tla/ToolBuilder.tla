----------------------------- MODULE ToolBuilder -----------------------------
(***************************************************************************)
(* The builder of app/core/user_tools as a library: build_and_register and *)
(* update_tool, with the attempts of app/core/reflexion.py.  The command   *)
(* /tool create goes through the same generate_code, create_tool and       *)
(* register (module UserTools); no command of the program calls these two. *)
(*                                                                         *)
(* Unlike the command, the builder validates before it writes, and catches *)
(* a registry that cannot be saved: the tool is then in memory only, and   *)
(* reported as not built.                                                  *)
(***************************************************************************)
EXTENDS UserTools

CONSTANT MaxAttempts   \* ReflexionLoop's max_attempts

ASSUME BuilderAssumption == MaxAttempts \in Nat \ {0}

TheFiles == <<toolIndex, toolFile, accepted>>

\* With a client and autofix the attempts, without them one; validate=False
\* leaves the code as it is.
BeginBuild(n) ==
  /\ ToolsIdle
  /\ Free(n)
  /\ \E how \in {"reflect", "once", "unvalidated"} :
       toolPc' = [stage |-> "generate", about |-> {n}, how |-> how,
                  tries |-> 0, code |-> "none"]
  /\ UNCHANGED <<tools, TheFiles, TheRuns, toolStops>>

\* generate_code puts the template in the place of an answer that fails or is
\* empty; the attempts count it as one that failed.
Answers ==
  IF toolPc.how = "reflect" THEN {"passes", "fails", "none"}
                            ELSE {"passes", "fails"}

\* What is written next: code that passes, or any when none is validated.
Suffices(code) == code = "passes" \/ toolPc.how = "unvalidated"

\* Code that is generated and validated, and is good enough.
GenerateTool ==
  /\ toolPc.stage = "generate"
  /\ \E code \in Answers :
       /\ Suffices(code)
       /\ toolPc' = [toolPc EXCEPT !.stage = "write", !.code = code]
  /\ UNCHANGED <<tools, TheFiles, TheRuns, toolStops>>

\* Code that fails: another attempt, with the model's reflection on this one,
\* or the end of the build.
GenerateInVain ==
  /\ toolPc.stage = "generate"
  /\ \E code \in Answers : ~Suffices(code)
  /\ toolPc' = IF toolPc.how = "reflect" /\ toolPc.tries + 1 < MaxAttempts
               THEN [toolPc EXCEPT !.tries = @ + 1]
               ELSE NoToolCommand
  /\ UNCHANGED <<tools, TheFiles, TheRuns, toolStops>>

\* create_tool: the user may refuse, and the write may fail half way.
WriteBuilt ==
  /\ toolPc.stage = "write"
  /\ \E n \in toolPc.about :
       \/ /\ toolFile' = [toolFile EXCEPT ![n] = toolPc.code]
          /\ accepted' = IF Suffices(toolPc.code) THEN accepted \cup {n} ELSE accepted \ {n}
          /\ toolPc' = At("registerBuilt", n)
       \/ /\ toolFile' = [toolFile EXCEPT ![n] = "fails"]
          /\ accepted' = accepted \ {n}
          /\ toolPc' = NoToolCommand
       \/ /\ toolPc' = NoToolCommand
          /\ UNCHANGED <<toolFile, accepted>>
  /\ UNCHANGED <<tools, toolIndex, TheRuns, toolStops>>

\* register takes the tool into memory before it saves.
RegisterBuilt ==
  /\ toolPc.stage = "registerBuilt"
  /\ \E n \in toolPc.about :
       /\ tools' = [tools EXCEPT ![n] = "enabled"]
       /\ toolPc' = At("saveBuilt", n)
  /\ UNCHANGED <<TheFiles, TheRuns, toolStops>>

\* The save; one that fails is caught and leaves the file as it was, or cut.
SaveBuilt ==
  /\ toolPc.stage = "saveBuilt"
  /\ toolIndex' \in {[parses |-> TRUE, entries |-> tools], toolIndex, BrokenIndex}
  /\ toolPc' = NoToolCommand
  /\ UNCHANGED <<tools, toolFile, accepted, TheRuns, toolStops>>

\* update_tool: a new version passes validation or needs none, replaces the
\* file and is counted; a write that fails part way is reported.
UpdateTool(n) ==
  /\ ToolsIdle
  /\ ~Free(n)
  /\ \/ /\ \E content \in {"passes", "fails"} :
             toolFile' = [toolFile EXCEPT ![n] = content]
        /\ accepted' = accepted \cup {n}
        /\ ChangeTool(n, tools[n])
     \/ /\ toolFile' = [toolFile EXCEPT ![n] = "torn"]
        /\ accepted' = accepted \ {n}
        /\ UNCHANGED <<tools, toolPc>>
  /\ UNCHANGED <<toolIndex, TheRuns, toolStops>>

BuilderNext ==
  \/ \E n \in ToolNames : BeginBuild(n) \/ UpdateTool(n)
  \/ GenerateTool \/ GenerateInVain \/ WriteBuilt \/ RegisterBuilt \/ SaveBuilt

\* The commands and the library work on the same tools.
BuilderSpec == ToolsInit /\ [][ToolsNext \/ BuilderNext]_toolVars
=============================================================================

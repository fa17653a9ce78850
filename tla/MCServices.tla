----------------------------- MODULE MCServices -----------------------------
(***************************************************************************)
(* The instances of the services whose ends are checked.  The program does *)
(* one command at a time and these share no state, so one run takes them   *)
(* together: a behaviour works on one of them, which topic names.          *)
(***************************************************************************)
EXTENDS TestFixLoop, McpStdio, ModelCall, ResearchFetch, WorkspaceMap, SshSession

CONSTANTS f1, f2, f3

VARIABLE topic

everything == <<topic, fixVars, mcpVars, modelVars, fetchVars, mapVars, sshVars>>

Init ==
  /\ topic \in {"fix-tests", "mcp", "model", "research", "map", "ssh"}
  /\ FixInit /\ McpInit /\ ModelInit /\ FetchInit /\ MapInit /\ SshInit
  /\ folder = "d"
  /\ topic # "ssh" => paramiko

Next ==
  /\ UNCHANGED topic
  /\ IF topic = "fix-tests" THEN FixNext ELSE UNCHANGED fixVars
  /\ IF topic = "mcp" THEN McpNext ELSE UNCHANGED mcpVars
  /\ IF topic = "model" THEN ModelNext ELSE UNCHANGED modelVars
  /\ IF topic = "research" THEN FetchNext ELSE UNCHANGED fetchVars
  /\ IF topic = "map" THEN MapNext ELSE UNCHANGED mapVars
  /\ IF topic = "ssh" THEN SshNext ELSE UNCHANGED sshVars

Fairness ==
  /\ WF_fixVars(FixLoop)
  /\ McpFairness
  /\ WF_modelVars(ModelStep)
  /\ \A t \in Fetchers : WF_fetchVars(FetchStep(t))
  /\ \A b \in Builders : WF_mapVars(topic = "map" /\ BuilderStep(b))
  /\ SshFairness

Spec == Init /\ [][Next]_everything /\ Fairness

ThreeThreads == {f1, f2, f3}
TwoServers == <<"s", "t">>
SomeChains ==
  {<<"ollama">>, <<"anthropic">>, <<"openai">>, <<"gemini">>, <<"ollama", "openai">>,
   <<"anthropic", "gemini">>}
=============================================================================

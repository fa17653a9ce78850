----------------------------- MODULE MCToolTurn -----------------------------
(* An instance of ToolTurn for TLC. *)
EXTENDS ToolTurn

CONSTANTS a, one, two, none, test

OneFile == {a}
AllTexts == {none, one, two}
OneCommand == {test}

\* One file, by its name and by ./name.
BothSpellings == {"a", "./a"}
Resolve == [s \in BothSpellings |-> a]

WriteOne(path) == [tool |-> "write_file", path |-> path, text |-> one]
PatchOne(path) == [tool |-> "apply_patch", path |-> path, old |-> one, new |-> two]
ReadIt(path) == [tool |-> "read_file", path |-> path]
RunTest == [tool |-> "run_command", command |-> test]

\* Calls that must keep their order, next to a command; commands at the
\* same time as a read; a single call; a file under two names.
SomeRounds ==
  {<<WriteOne("a"), PatchOne("a"), RunTest>>,
   <<PatchOne("a"), ReadIt("a")>>,
   <<RunTest, ReadIt("a"), RunTest>>,
   <<WriteOne("a")>>,
   <<WriteOne("a"), PatchOne("./a")>>}

Rules(m, p, s, allowed, denied) ==
  [mode |-> m, profile |-> p, sandbox |-> s, allow |-> allowed, deny |-> denied]
With(rules) == [rules |-> rules, tools |-> TRUE]

\* Questions; no questions; each reason for a refusal; streaming.
SomeConfigs ==
  {With(Rules("ask", "coding", "workspace", {}, {})),
   With(Rules("auto_approve", "ci", "workspace", {}, {test})),
   With(Rules("auto_approve", "coding", "read_only", {test}, {})),
   With(Rules("auto_approve", "review", "workspace", {}, {})),
   With(Rules("deny_all", "ci", "disabled", {test}, {})),
   [rules |-> Rules("ask", "coding", "workspace", {}, {}), tools |-> FALSE]}
=============================================================================

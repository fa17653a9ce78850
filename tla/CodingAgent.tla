----------------------------- MODULE CodingAgent -----------------------------
(***************************************************************************)
(* codex/app/controller.py: CodingAgent.run(), and its streaming twin      *)
(* run_streaming() of controller_streaming.py.  A task is a bounded number *)
(* of attempts; an attempt asks the model for a response, carries out its  *)
(* file actions one by one, each with the user's consent, and then runs    *)
(* the response's command, or checks the files when there is none.         *)
(*                                                                         *)
(* The two variants differ where `mode` is tested below: only run() fires  *)
(* the PreToolUse hook, saves a snapshot before it replaces a file, and    *)
(* parses the Python files it wrote.                                       *)
(*                                                                         *)
(* The model, the user, the hooks, the disk and the commands are the       *)
(* environment: each answers as it likes.                                  *)
(***************************************************************************)
EXTENDS SnapshotStore

CONSTANTS
  PyFiles,       \* the paths that end in .py
  Broken,        \* the chunks that make a Python file unparseable
  Responses,     \* the well-formed responses the model may give
  OutsideTexts,  \* what the user's editor and the commands may leave in a file
  MaxAttempts    \* cfg.autofix_max_iterations

Op == {"replace", "append", "delete"}

\* A FileAction of a response; the text of a delete is not looked at.
Action == [path : Paths, op : Op, text : Content]

ASSUME AgentAssumption ==
  /\ PyFiles \subseteq Paths
  /\ Broken \subseteq Chunks
  /\ Responses \subseteq [files : Seq(Action), command : BOOLEAN]
  /\ OutsideTexts \subseteq Content
  /\ MaxAttempts \in Nat \ {0}

VARIABLES
  pc,        \* where the agent is
  mode,      \* "run" or "stream"
  attempt,   \* the number of the current attempt
  todo,      \* the file actions of the response still to carry out
  command,   \* the response has a command_to_run
  wrote,     \* attempt_files_written
  allWrote,  \* all_files_written
  result     \* how the last task ended

responseVars == <<todo, command>>
agentVars == <<pc, mode, attempt, todo, command, wrote, allWrote, result>>

Verdicts ==
  {"none", "exit0", "filesWritten", "commandDenied", "deniedEmpty", "aborted", "exhausted"}

AgentInit ==
  /\ StoreInit
  /\ pc = "idle"
  /\ mode \in {"run", "stream"}
  /\ attempt = 0
  /\ todo = <<>>
  /\ command = FALSE
  /\ wrote = {}
  /\ allWrote = {}
  /\ result = "none"

AgentTypeOK ==
  /\ StoreTypeOK
  /\ pc \in {"idle", "calling", "files", "consent", "command", "running"}
  /\ mode \in {"run", "stream"}
  /\ attempt \in 0..MaxAttempts
  /\ todo \in Seq(Action)
  /\ pc = "consent" => todo # <<>>
  /\ command \in BOOLEAN
  /\ wrote \subseteq Paths
  /\ allWrote \subseteq Paths
  /\ result \in Verdicts

-----------------------------------------------------------------------------
(* The loop over the attempts.                                             *)

StartTask(m) ==
  /\ pc = "idle"
  /\ pc' = "calling"
  /\ mode' = m
  /\ attempt' = 1
  /\ wrote' = {}
  /\ allWrote' = {}
  /\ result' = "none"
  /\ UNCHANGED <<storeVars, responseVars>>

Finish(verdict) ==
  /\ pc' = "idle"
  /\ result' = verdict
  /\ UNCHANGED attempt

\* Mutant of Retry: the failed attempt is not counted.
RetryUncounted ==
  /\ pc' = "calling"
  /\ UNCHANGED <<attempt, result>>

\* "continue": the next attempt, or the failure after the last one.
Retry ==
  \/ /\ attempt < MaxAttempts
     /\ pc' = "calling"
     /\ attempt' = attempt + 1
     /\ UNCHANGED result
  \/ /\ attempt = MaxAttempts
     /\ Finish("exhausted")

\* The call raises a retriable error, or the response does not parse or is
\* refused by the validator.
CallFails ==
  /\ pc = "calling"
  /\ Retry
  /\ UNCHANGED <<storeVars, responseVars, mode, wrote, allWrote>>

\* The call raises an error that no retry cures.
CallAborts ==
  /\ pc = "calling"
  /\ Finish("aborted")
  /\ UNCHANGED <<storeVars, responseVars, mode, wrote, allWrote>>

\* Mutant of CallAnswers: the report starts anew with every attempt.
CallAnswersAnew(r) ==
  /\ pc = "calling"
  /\ pc' = "files"
  /\ todo' = r.files
  /\ command' = r.command
  /\ wrote' = {}
  /\ allWrote' = {}
  /\ UNCHANGED <<storeVars, mode, attempt, result>>

CallAnswers(r) ==
  /\ pc = "calling"
  /\ pc' = "files"
  /\ todo' = r.files
  /\ command' = r.command
  /\ wrote' = {}
  /\ UNCHANGED <<storeVars, mode, attempt, allWrote, result>>

-----------------------------------------------------------------------------
(* The file actions of the response, one by one.                           *)

\* The step is over for the first action, which leaves the list.
NextAction ==
  /\ pc' = "files"
  /\ todo' = Tail(todo)
  /\ UNCHANGED <<mode, attempt, command, result>>

\* An exit code 2 of a PreToolUse hook; deletions are not shown to it.  A
\* replace of a file that is not text ends here too: its diff raises.
HookBlocks ==
  /\ pc = "files" /\ todo # <<>>
  /\ mode = "run"
  /\ Head(todo).op # "delete"
  /\ NextAction
  /\ UNCHANGED <<storeVars, wrote, allWrote>>

\* The permission prompt: the user has it on the screen from here on.
Ask ==
  /\ pc = "files" /\ todo # <<>>
  /\ pc' = "consent"
  /\ UNCHANGED <<storeVars, responseVars, mode, attempt, wrote, allWrote, result>>

\* Also a granted action that raises before it has done anything.
Deny ==
  /\ pc = "consent"
  /\ NextAction
  /\ UNCHANGED <<storeVars, wrote, allWrote>>

Report(p) ==
  /\ wrote' = wrote \cup {p}
  /\ allWrote' = allWrote \cup {p}

Saves(fa) == mode = "run" /\ fa.op = "replace"

\* Mutant of Snapshot: taken after the write.
SnapshotAfter(fa) ==
  stacks' = IF Saves(fa) THEN [stacks EXCEPT ![fa.path] = Push(@, fa.text)] ELSE stacks

\* The store after the snapshot of the text read just before the write.
Snapshot(fa) ==
  stacks' = IF Saves(fa) THEN [stacks EXCEPT ![fa.path] = Push(@, disk[fa.path])] ELSE stacks

\* The file system after the action has been carried out.
Perform(fa) ==
  \/ fa.op = "replace" /\ WriteFile(fa.path, fa.text)
  \/ fa.op = "append" /\ WriteFile(fa.path, disk[fa.path] \o fa.text)
  \/ fa.op = "delete" /\ DeleteFile(fa.path)

Apply ==
  /\ pc = "consent"
  /\ LET fa == Head(todo) IN Snapshot(fa) /\ Perform(fa) /\ Report(fa.path)
  /\ NextAction

\* The file cannot be opened for writing, or unlinked; the exception is logged
\* and the loop goes on.  The snapshot has been taken.
ApplyFails ==
  /\ pc = "consent"
  /\ Snapshot(Head(todo))
  /\ NextAction
  /\ UNCHANGED <<fileVars, wrote, allWrote>>

\* write_text has truncated the file when the write itself fails.
ApplyTruncates ==
  /\ pc = "consent"
  /\ LET fa == Head(todo) IN
       /\ fa.op # "delete"
       /\ Snapshot(fa)
       /\ WriteFile(fa.path, Empty)
  /\ NextAction
  /\ UNCHANGED <<wrote, allWrote>>

-----------------------------------------------------------------------------
(* The end of an attempt.                                                  *)

AllCarriedOut == pc = "files" /\ todo = <<>>

Parses(text) == \A i \in DOMAIN text : text[i] \notin Broken

\* _python_syntax_errors: of the files of this attempt, those that do not
\* parse, and those that cannot be read back.
SyntaxErrors ==
  {p \in wrote \cap PyFiles : p \notin present \/ ~Parses(disk[p])}

Rejected ==
  \/ wrote = {}
  \/ mode = "run" /\ SyntaxErrors # {}

CheckFiles ==
  /\ AllCarriedOut
  /\ ~command
  /\ IF Rejected THEN Retry ELSE Finish("filesWritten")
  /\ UNCHANGED <<storeVars, responseVars, mode, wrote, allWrote>>

AskCommand ==
  /\ AllCarriedOut
  /\ command
  /\ pc' = "command"
  /\ UNCHANGED <<storeVars, responseVars, mode, attempt, wrote, allWrote, result>>

\* A denied command ends the task: well if this attempt wrote a file.
DenyCommand ==
  /\ pc = "command"
  /\ Finish(IF wrote # {} THEN "commandDenied" ELSE "deniedEmpty")
  /\ UNCHANGED <<storeVars, responseVars, mode, wrote, allWrote>>

GrantCommand ==
  /\ pc = "command"
  /\ pc' = "running"
  /\ UNCHANGED <<storeVars, responseVars, mode, attempt, wrote, allWrote, result>>

\* The command may leave a file changed whether it succeeds or not.
CommandWrites(p, text) ==
  /\ pc = "running"
  /\ WriteFile(p, text)
  /\ UNCHANGED <<stacks, agentVars>>

CommandEnds(ok) ==
  /\ pc = "running"
  /\ IF ok THEN Finish("exit0") ELSE Retry
  /\ UNCHANGED <<storeVars, responseVars, mode, wrote, allWrote>>

-----------------------------------------------------------------------------
\* The agent's steps that leave the files and the store alone.
TalkStep ==
  \/ CallFails \/ CallAborts
  \/ \E r \in Responses : CallAnswers(r)
  \/ HookBlocks \/ Ask \/ Deny
  \/ CheckFiles \/ AskCommand \/ DenyCommand \/ GrantCommand
  \/ \E ok \in BOOLEAN : CommandEnds(ok)

=============================================================================

------------------------------ MODULE ToolTurn ------------------------------
(***************************************************************************)
(* cli/chat_session.py: ChatSession, one conversation with a model.  A     *)
(* turn is one call of send(): a streamed answer, or up to MaxRounds       *)
(* rounds in which the model answers with tool calls, the calls are        *)
(* carried out by MCPClient.call (app/core/mcp_client.py) under the        *)
(* permission engine, and their results go back to the model.              *)
(*                                                                         *)
(* The calls of a round are made by a pool of Workers threads, except that *)
(* calls that name the same path wait until the pool is empty and are then *)
(* made one after the other.  Every call has its own position, stage[i];   *)
(* one step is what no other thread can come between: one look at the      *)
(* permission engine, one answer at the console, one file operation.       *)
(* write_file empties the file and then fills it; apply_patch reads it     *)
(* and later replaces it.                                                  *)
(***************************************************************************)
EXTENDS Permissions, SequencesExt

CONSTANTS
  Files,        \* the files of the working folder that the calls touch
  Texts,        \* what they can hold
  Empty,        \* the text of a file that write_file has opened
  Spellings,    \* the paths as the model writes them
  FileOf,       \* FileOf[s]: the file that spelling s resolves to
  Rounds,       \* the sequences of tool calls a model may answer with
  Configs,      \* the settings the user may choose
  MaxRounds,    \* range(5) in _send_with_tools
  Workers,      \* the size of the pool, min(4, len(tool_calls))
  MaxDenials,   \* _DenialTracker._MAX_DENIALS
  MaxTurns      \* bound: the calls of send()

\* A tool call: what it does, on which path, and
\*   write_file   the text it writes;
\*   apply_patch  the text its context is found in, and the text it makes of it;
\*   run_command  the command.
ToolCall ==
  [tool : {"read_file"}, path : Spellings] \cup
  [tool : {"write_file"}, path : Spellings, text : Texts] \cup
  [tool : {"apply_patch"}, path : Spellings, old : Texts, new : Texts] \cup
  [tool : {"run_command"}, command : Commands]

\* What can come of a call, besides the text that read_file returns.
Outcomes ==
  {"none", "denied", "failed", "ran", "written", "cut", "patched", "no context"}

ASSUME ToolTurnAssumption ==
  /\ Empty \in Texts
  /\ Texts \cap Outcomes = {}
  /\ FileOf \in [Spellings -> Files]
  /\ Rounds \subseteq Seq(ToolCall)
  /\ <<>> \notin Rounds
  /\ \A cfg \in Configs : cfg.rules \in Configuration /\ cfg.tools \in BOOLEAN
  /\ MaxRounds \in Nat \ {0}
  /\ Workers \in Nat \ {0}
  /\ MaxDenials \in Nat \ {0}
  /\ MaxTurns \in Nat

VARIABLES
  cfg,       \* the settings: the engine's (rules) and tool_use_enabled (tools)
  history,   \* the roles of self.history
  saved,     \* the roles in the newest session file
  torn,      \* ghost: the history came from a file that was cut short
  turns,     \* the calls of send() so far
  pc,        \* where send() is
  round,     \* the round of the turn
  calls,     \* tool_calls of the round
  stage,     \* stage[i]: where the thread of the i-th call is
  result,    \* result[i]: what came of it
  denials,   \* denials[k]: the recent denials that _denial_tracker holds
  disk,      \* disk[f]: the text of file f
  before     \* ghost: the disk at the start of the round

sessionVars == <<cfg, history, saved, torn, turns>>
roundVars == <<calls, stage, result>>
vars == <<sessionVars, pc, round, roundVars, denials, disk, before>>

Init ==
  /\ cfg \in Configs
  /\ history = <<>>
  /\ saved = <<>>
  /\ torn = FALSE
  /\ turns = 0
  /\ pc = "idle"
  /\ round = 0
  /\ calls = <<>>
  /\ stage = <<>>
  /\ result = <<>>
  /\ denials = [k \in Kinds |-> 0]
  /\ disk \in [Files -> Texts]
  /\ before = disk

-----------------------------------------------------------------------------
(* Between the turns.                                                      *)

AtPrompt == pc = "idle"

\* The commands of the session leave the work of the last turn alone.
BetweenTurns ==
  /\ AtPrompt
  /\ UNCHANGED <<turns, pc, round, roundVars, denials, disk, before>>

ChangeSettings ==
  /\ BetweenTurns
  /\ cfg' \in Configs
  /\ UNCHANGED <<history, saved, torn>>

\* clear()
Clear ==
  /\ BetweenTurns
  /\ history' = <<>>
  /\ torn' = FALSE
  /\ UNCHANGED <<cfg, saved>>

Dropped(s, role) == IF s # <<>> /\ Last(s) = role THEN Front(s) ELSE s

\* undo(): the answer, then the question.
Undo ==
  /\ BetweenTurns
  /\ Len(history) >= 2
  /\ history' = Dropped(Dropped(history, "assistant"), "user")
  /\ UNCHANGED <<cfg, saved, torn>>

\* compact(), when the model gives a summary.
Compact ==
  /\ BetweenTurns
  /\ Len(history) >= 4
  /\ history' = <<"system">>
  /\ torn' = FALSE
  /\ UNCHANGED <<cfg, saved>>

\* The program ends, in the middle of whatever it does, and starts again.
StartAgain ==
  /\ pc' = "idle"
  /\ history' = <<>>
  /\ torn' = FALSE
  /\ denials' = [k \in Kinds |-> 0]
  /\ round' = 0
  /\ calls' = <<>> /\ stage' = <<>> /\ result' = <<>>
  /\ before' = disk
  /\ UNCHANGED <<cfg, turns, disk>>

\* /quit saves the history, message by message, to a file of its own; a
\* disk that fills up cuts it short, or no file is made.
Quit ==
  /\ AtPrompt
  /\ history # <<>>
  /\ saved' \in {saved} \cup {SubSeq(history, 1, n) : n \in 0..Len(history)}
  /\ StartAgain

\* Ctrl-C, or an exception outside the try blocks of send(): nothing between
\* send() and the interpreter handles them, and nothing is saved.
Stop ==
  /\ ~AtPrompt
  /\ UNCHANGED saved
  /\ StartAgain

Paired(s) ==
  LET first == IF s # <<>> /\ s[1] = "system" THEN 1 ELSE 0
  IN  /\ (Len(s) - first) % 2 = 0
      /\ \A i \in first + 1..Len(s) :
            s[i] = IF (i - first) % 2 = 1 THEN "user" ELSE "assistant"

\* /resume: the messages of the file replace the history.
Resume ==
  /\ BetweenTurns
  /\ saved # <<>>
  /\ history' = saved
  /\ torn' = ~Paired(saved)
  /\ UNCHANGED <<cfg, saved>>

\* A minute passes, and denials are no longer recent.
DenialExpires ==
  /\ \E k \in Kinds :
        denials[k] > 0 /\ denials' = [denials EXCEPT ![k] = @ - 1]
  /\ UNCHANGED <<sessionVars, pc, round, roundVars, disk, before>>

-----------------------------------------------------------------------------
(* send(), and the rounds of _send_with_tools.                             *)

Send ==
  /\ AtPrompt
  /\ turns < MaxTurns
  /\ turns' = turns + 1
  /\ history' = Append(history, "user")
  /\ pc' = IF cfg.tools THEN "model" ELSE "streaming"
  /\ round' = 1
  /\ UNCHANGED <<cfg, saved, torn, roundVars, denials, disk, before>>

\* The turn is over, with the given history.
TurnOver(messages) ==
  /\ pc' = "idle"
  /\ history' = messages
  /\ round' = 0
  /\ calls' = <<>>
  /\ stage' = <<>>
  /\ result' = <<>>
  /\ before' = disk
  /\ UNCHANGED <<cfg, saved, torn, turns, denials, disk>>

Answered == Append(history, "assistant")

\* Streaming: the answer, or an exception (after the fallback providers).
StreamEnds ==
  /\ pc = "streaming"
  /\ TurnOver(Answered)

StreamFails ==
  /\ pc = "streaming"
  /\ TurnOver(Dropped(history, "user"))

\* chat_with_tools() gives a text ...
ModelAnswers ==
  /\ pc = "model"
  /\ TurnOver(Answered)

\* ... or raises ...
ModelFails ==
  /\ pc = "model"
  /\ TurnOver(Front(history))

\* ... or gives tool calls.
ModelCalls ==
  /\ pc = "model"
  /\ calls' \in Rounds
  /\ stage' = [i \in DOMAIN calls' |-> "todo"]
  /\ result' = [i \in DOMAIN calls' |-> "none"]
  /\ pc' = "tools"
  /\ before' = disk
  /\ UNCHANGED <<sessionVars, round, denials, disk>>

Over(i) == stage[i] = "over"

\* Every call of the round is over: the model gets the results, or the turn
\* ends with "(tool-use loop limit reached)".
RoundOver == pc = "tools" /\ \A i \in DOMAIN calls : Over(i)

\* Mutant of NextRound: the rounds are not counted.
NextRoundUncounted ==
  /\ RoundOver
  /\ round < MaxRounds
  /\ pc' = "model"
  /\ calls' = <<>> /\ stage' = <<>> /\ result' = <<>>
  /\ before' = disk
  /\ UNCHANGED <<sessionVars, round, denials, disk>>

NextRound ==
  /\ RoundOver
  /\ round < MaxRounds
  /\ round' = round + 1
  /\ pc' = "model"
  /\ calls' = <<>> /\ stage' = <<>> /\ result' = <<>>
  /\ before' = disk
  /\ UNCHANGED <<sessionVars, denials, disk>>

LimitReached ==
  /\ RoundOver
  /\ round = MaxRounds
  /\ TurnOver(Answered)
-----------------------------------------------------------------------------
(* _execute_tool_calls_parallel(): which call may start when.              *)

OnFile(i) == calls[i].tool # "run_command"
SamePath(i, j) == OnFile(i) /\ OnFile(j) /\ calls[i].path = calls[j].path

\* Mutant of Serial: only calls that write wait for each other.
SerialWrites(i) ==
  \/ Len(calls) = 1
  \/ /\ calls[i].tool = "write_file"
     /\ \E j \in DOMAIN calls \ {i} : calls[j].tool = "write_file" /\ SamePath(i, j)

\* Made by the caller's own thread: the only call, or one of several that
\* spell their path alike.
Serial(i) == Len(calls) = 1 \/ \E j \in DOMAIN calls \ {i} : SamePath(i, j)

Pooled == {i \in DOMAIN calls : ~Serial(i)}
Working == {i \in Pooled : stage[i] \notin {"todo", "over"}}

MayStart(i) ==
  IF Serial(i)
  THEN \A j \in DOMAIN calls \ {i} : j \in Pooled \/ j < i => Over(j)
  ELSE /\ \A j \in Pooled : j < i => stage[j] # "todo"
       /\ Cardinality(Working) < Workers

-----------------------------------------------------------------------------
(* MCPClient.call(): the gate of the callback, a second one for commands.  *)

OpType(tool) ==
  CASE tool \in {"write_file", "apply_patch"} -> "write"
    [] tool = "run_command" -> "execute"
    [] OTHER -> "read"
CallKind(i) == KindOf(OpType(calls[i].tool))

\* A step of the i-th call while the turn goes on.
CallStep(i) == pc = "tools" /\ i \in DOMAIN calls
TurnGoesOn == UNCHANGED <<sessionVars, pc, round, calls, before>>

Goto(i, place) == stage' = [stage EXCEPT ![i] = place] /\ UNCHANGED result
Ends(i, outcome) ==
  /\ stage' = [stage EXCEPT ![i] = "over"]
  /\ result' = [result EXCEPT ![i] = outcome]

\* request_permission(), up to the question.
Gate(i, listed, asking, passed) ==
  LET kind == CallKind(i)
  IN  IF denials[kind] >= MaxDenials \/ Refused(cfg.rules, kind, listed)
      THEN Ends(i, "denied")
      ELSE Goto(i, IF Granted(cfg.rules, kind, listed) THEN passed ELSE asking)

\* The callback shows the engine the arguments as JSON, which match no list.
CallTool(i) ==
  /\ CallStep(i)
  /\ stage[i] = "todo"
  /\ MayStart(i)
  /\ Gate(i, "none", "asked", "cleared")
  /\ UNCHANGED <<denials, disk>>
  /\ TurnGoesOn

\* Mutant of CommandGate: like the other tools, a command passes one gate.
CommandUngated(i) ==
  /\ CallStep(i)
  /\ stage[i] = "cleared"
  /\ calls[i].tool = "run_command"
  /\ Goto(i, "ready")
  /\ UNCHANGED <<denials, disk>>
  /\ TurnGoesOn

\* _call_builtin() asks the engine again, about the command itself.
CommandGate(i) ==
  /\ CallStep(i)
  /\ stage[i] = "cleared"
  /\ calls[i].tool = "run_command"
  /\ Gate(i, ListDecision(cfg.rules, calls[i].command), "asked again", "ready")
  /\ UNCHANGED <<denials, disk>>
  /\ TurnGoesOn

Asked == {"asked", "asked again"}

AnswerYes(i) ==
  /\ CallStep(i)
  /\ stage[i] \in Asked
  /\ Goto(i, IF stage[i] = "asked" THEN "cleared" ELSE "ready")
  /\ UNCHANGED <<denials, disk>>
  /\ TurnGoesOn

\* _DenialTracker.record() appends to a list and then replaces it by a copy,
\* without a lock: another thread that records at the same time may lose
\* what was recorded in between.
AnswerNo(i) ==
  /\ CallStep(i)
  /\ stage[i] \in Asked
  /\ LET kind == CallKind(i)
         others == {j \in DOMAIN calls \ {i} : stage[j] \in Asked /\ CallKind(j) = kind}
     IN  \E n \in (IF others = {} THEN {denials[kind]} ELSE 0..denials[kind]) :
           denials' = [denials EXCEPT ![kind] = n + 1]
  /\ Ends(i, "denied")
  /\ UNCHANGED disk
  /\ TurnGoesOn

\* The question cannot be printed on this console: an error of the call ...
PromptBreaks(i) ==
  /\ CallStep(i)
  /\ stage[i] \in Asked
  /\ stage[i] = "asked" => ~Serial(i)
  /\ Ends(i, "failed")
  /\ UNCHANGED <<denials, disk>>
  /\ TurnGoesOn

\* Mutant of TurnFails: the question stays in the history.
TurnFailsUnanswered(i) ==
  /\ CallStep(i)
  /\ stage[i] = "asked"
  /\ Serial(i)
  /\ TurnOver(history)

\* ... but of the turn, for a call that the caller's thread makes.
TurnFails(i) ==
  /\ CallStep(i)
  /\ stage[i] = "asked"
  /\ Serial(i)
  /\ TurnOver(Front(history))

-----------------------------------------------------------------------------
(* _call_builtin().                                                        *)

Cleared(i, tool) == CallStep(i) /\ stage[i] = "cleared" /\ calls[i].tool = tool
Target(i) == FileOf[calls[i].path]

RunCommand(i) ==
  /\ CallStep(i)
  /\ stage[i] = "ready"
  /\ Ends(i, "ran")
  /\ UNCHANGED <<denials, disk>>
  /\ TurnGoesOn

ReadFile(i) ==
  /\ Cleared(i, "read_file")
  /\ Ends(i, disk[Target(i)])
  /\ UNCHANGED <<denials, disk>>
  /\ TurnGoesOn

\* The file cannot be opened, or the command cannot be started: nothing
\* changes.
ToolFails(i) ==
  /\ CallStep(i)
  /\ \/ stage[i] \in {"ready", "patching"}
     \/ (stage[i] = "cleared" /\ OnFile(i))
  /\ Ends(i, "failed")
  /\ UNCHANGED <<denials, disk>>
  /\ TurnGoesOn

\* write_file: open() empties the file ...
OpenForWrite(i) ==
  /\ Cleared(i, "write_file")
  /\ disk' = [disk EXCEPT ![Target(i)] = Empty]
  /\ Goto(i, "writing")
  /\ UNCHANGED denials
  /\ TurnGoesOn

\* ... and the text goes in, or the write fails.
Write(i) ==
  /\ CallStep(i)
  /\ stage[i] = "writing"
  /\ disk' = [disk EXCEPT ![Target(i)] = calls[i].text]
  /\ Ends(i, "written")
  /\ UNCHANGED denials
  /\ TurnGoesOn

WriteCut(i) ==
  /\ CallStep(i)
  /\ stage[i] = "writing"
  /\ Ends(i, "cut")
  /\ UNCHANGED <<denials, disk>>
  /\ TurnGoesOn

\* apply_patch: the file is read, and the patch made ...
ReadForPatch(i) ==
  /\ Cleared(i, "apply_patch")
  /\ IF disk[Target(i)] = calls[i].old
     THEN Goto(i, "patching")
     ELSE Ends(i, "no context")
  /\ UNCHANGED <<denials, disk>>
  /\ TurnGoesOn

\* ... and a temporary file replaces it.
ReplaceFile(i) ==
  /\ CallStep(i)
  /\ stage[i] = "patching"
  /\ disk' = [disk EXCEPT ![Target(i)] = calls[i].new]
  /\ Ends(i, "patched")
  /\ UNCHANGED denials
  /\ TurnGoesOn

-----------------------------------------------------------------------------
SessionStep ==
  ChangeSettings \/ Clear \/ Undo \/ Compact \/ Quit \/ Resume \/ Send
StreamStep == StreamEnds \/ StreamFails
ModelStep ==
  ModelAnswers \/ ModelFails \/ ModelCalls \/ NextRound \/ LimitReached
AskStep(i) ==
  \/ CallTool(i) \/ CommandGate(i) \/ AnswerYes(i) \/ AnswerNo(i)
  \/ PromptBreaks(i) \/ TurnFails(i)
ToolStep(i) ==
  \/ RunCommand(i) \/ ReadFile(i) \/ ToolFails(i) \/ OpenForWrite(i) \/ Write(i)
  \/ WriteCut(i) \/ ReadForPatch(i) \/ ReplaceFile(i)

TurnStep ==
  StreamStep \/ ModelStep \/ \E i \in DOMAIN calls : AskStep(i) \/ ToolStep(i)

Next == SessionStep \/ TurnStep \/ Stop \/ DenialExpires

Spec == Init /\ [][Next]_vars

\* A request to the model times out, a question is answered and a tool ends:
\* while a turn goes on some step of it is made.
FairSpec == Spec /\ WF_vars(TurnStep)

-----------------------------------------------------------------------------
Roles == {"system", "user", "assistant"}
Stages == {"todo", "cleared", "ready", "writing", "patching", "over"} \cup Asked
TurnTypeOK ==
  /\ cfg \in Configs
  /\ history \in Seq(Roles)
  /\ saved \in Seq(Roles)
  /\ torn \in BOOLEAN
  /\ turns \in 0..MaxTurns
  /\ pc \in {"idle", "streaming", "model", "tools"}
  /\ round \in 0..MaxRounds
  /\ calls \in Rounds \cup {<<>>}
  /\ stage \in [DOMAIN calls -> Stages]
  /\ result \in [DOMAIN calls -> Outcomes \cup Texts]
  /\ denials \in [Kinds -> 0..MaxDenials + Workers]
  /\ disk \in [Files -> Texts]
  /\ before \in [Files -> Texts]

(* Whatever failed, was taken back, compacted, saved or resumed: at the    *)
(* prompt the history is question and answer in turn, after a summary      *)
(* perhaps, and inside a turn it ends with the question, unless a session  *)
(* file that was cut short has been resumed.  Providers reject two         *)
(* questions in a row.                                                     *)
HistoryPaired ==
  ~torn => Paired(IF AtPrompt THEN history ELSE Append(history, "assistant"))

CallsOn(f) == {i \in DOMAIN calls : OnFile(i) /\ Target(i) = f}

\* The calls before the n-th that changed f, and what such a call leaves.
Writers(f, n) ==
  {i \in CallsOn(f) : i < n /\ result[i] \in {"written", "cut", "patched"}}
Leaves(i) ==
  CASE result[i] = "written" -> calls[i].text
    [] result[i] = "cut"     -> Empty
    [] result[i] = "patched" -> calls[i].new

\* The text of f before the n-th call, had the calls been made one after the
\* other, each with the consent and the luck it had: what the last of them
\* left.
InTurn(f, n, text) ==
  IF Writers(f, n) = {}
  THEN text = before[f]
  ELSE \E i \in Writers(f, n) :
          text = Leaves(i) /\ \A j \in Writers(f, n) : j <= i

\* What the i-th call found in its file is what the calls before it left.
FoundInTurn(i) ==
  /\ result[i] \in Texts        => InTurn(Target(i), i, result[i])
  /\ result[i] = "patched"    => InTurn(Target(i), i, calls[i].old)
  /\ result[i] = "no context" => ~InTurn(Target(i), i, calls[i].old)

OneSpelling(f) == \A i, j \in CallsOn(f) : SamePath(i, j)

(* "serialize calls that write to the same path": where the calls on a     *)
(* file spell its path alike, the file ends up, and every call finds it,   *)
(* as if the calls had been made in the order the model gave them.         *)
RoundInOrder ==
  RoundOver =>
    \A f \in Files : OneSpelling(f) =>
       /\ InTurn(f, Len(calls) + 1, disk[f])
       /\ \A i \in CallsOn(f) : FoundInTurn(i)

Forbids(rules, kind) ==
  \/ rules.mode = "deny_all"
  \/ Profiles[rules.profile][kind] = "deny"
  \/ kind = "execute" /\ rules.sandbox = "read_only"

(* The settings bind every call, also those that other threads make while  *)
(* questions are open: no command runs that the mode, the profile or the   *)
(* sandbox forbids, or that is on the denylist, and no file changes.       *)
NothingForbidden ==
  /\ \A i \in DOMAIN calls : result[i] = "ran" =>
        /\ ~Forbids(cfg.rules, "execute")
        /\ calls[i].command \notin cfg.rules.deny
  /\ Forbids(cfg.rules, "write") => disk = before

(* A turn ends: the rounds are few, the pool takes every call, and no call *)
(* waits for one that waits for it.                                        *)
TurnEnds == ~AtPrompt ~> AtPrompt

=============================================================================

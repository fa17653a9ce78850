-------------------------------- MODULE Repl --------------------------------
(***************************************************************************)
(* main.py, cli/app.py and their helpers: one program from its start to    *)
(* its end.  ILXApp.run hands a line to the chat, to the coding agent or,  *)
(* when it starts with a slash, to _dispatch_command, which expands one    *)
(* alias, tries the registry (a whole name or the only one that begins     *)
(* so), then the commands it knows, then the user's tools, and at last the *)
(* aliases once more, this time by calling itself.  Nothing in the loop    *)
(* catches what a command raises.  What outlives the program are the       *)
(* session files and aliases.json.                                         *)
(***************************************************************************)
EXTENDS Integers, SequencesExt, FiniteSets

CONSTANTS
  Words,        \* the first words of the lines that start with a slash
  Registered,   \* those the registry has a handler for
  Built,        \* those _dispatch_command compares with
  ToolWords,    \* those a tool of the user has for its name
  Begun,        \* Begun[w]: the registered words that begin with w
  AliasNames,   \* the words the user makes aliases of
  AliasTargets, \* the words those stand for
  MaxDepth,     \* Python's limit on calls within calls
  MaxMessages,  \* bound: the lines sent to the model
  MaxSessions,  \* bound: the session files
  MaxRuns       \* bound: the starts of the program

ASSUME ReplAssumption ==
  /\ Registered \cup Built \cup ToolWords \cup AliasNames \cup AliasTargets \subseteq Words
  /\ Begun \in [Words -> SUBSET Registered]
  /\ MaxDepth \in Nat \ {0}

VARIABLES
  at,          \* "down", "prompt", "dispatch", or how the program ended
  word,        \* the command that _dispatch_command was called with
  depth,       \* the calls of _dispatch_command inside one another
  mode,        \* "chat" or "code"
  talk,        \* chat.history, by the numbers of its exchanges
  sessions,    \* the session files, newest first: text, and whether whole
  aliases,     \* the alias store in memory
  aliasFile,   \* aliases.json: the store in it, and whether it parses
  sent,        \* the lines sent so far
  runs,        \* the starts so far
  mishap      \* ghost: a write failed, or two programs saved in one second

sessionFiles == <<sessions, aliases, aliasFile>>
counters == <<sent, runs>>
replVars == <<at, word, depth, mode, talk, sessionFiles, counters, mishap>>

NoWord == "no word"
NoAliases == [w \in {} |-> w]
File(store) == [parses |-> TRUE, store |-> store]
CutFile == [parses |-> FALSE, store |-> NoAliases]

ReplInit ==
  /\ at = "down"
  /\ word = NoWord /\ depth = 0 /\ mode = "chat"
  /\ talk = <<>> /\ sessions = <<>>
  /\ aliases = NoAliases /\ aliasFile = File(NoAliases)
  /\ sent = 0 /\ runs = 0
  /\ mishap = FALSE

-----------------------------------------------------------------------------
(* The start, and the ways to run without a prompt.                        *)

Starts == at \notin {"prompt", "dispatch"} /\ runs < MaxRuns /\ runs' = runs + 1

\* parse_argv: what is left of the arguments without the flags is the prompt;
\* --code wins over --chat, and a prompt with neither is a task.
AskedMode(chat, code) == IF code \/ ~chat THEN "task" ELSE "message"

\* main(): without a terminal and without a prompt the input is the prompt, and
\* without a prompt at all the program is interactive.
StartedMode(terminal, prompt, asked) ==
  IF prompt THEN asked ELSE IF terminal THEN "interactive" ELSE "pipe"

Starting(m) ==
  m \in {StartedMode(c[1], c[2], AskedMode(c[3], c[4])) :
           c \in BOOLEAN \X BOOLEAN \X BOOLEAN \X BOOLEAN}

\* ILXApp() starts with an empty conversation and reads the aliases; a file that
\* does not parse counts for none.
StartRepl ==
  /\ Starts /\ Starting("interactive")
  /\ at' = "prompt"
  /\ word' = NoWord /\ depth' = 0 /\ mode' = "chat"
  /\ talk' = <<>>
  /\ aliases' = aliasFile.store
  /\ UNCHANGED <<sessions, aliasFile, sent, mishap>>

\* A message or a task is answered, or not, and the program exits with 0 or 1,
\* or breaks where no client can be made; sessions and aliases are left alone.
Exits ==
  /\ talk' = <<>>
  /\ UNCHANGED <<word, depth, mode, sessionFiles, sent, mishap>>

PipeMode ==
  /\ Starts /\ Starting("pipe")
  /\ at' \in {"exit 0", "exit 1", "broken"}
  /\ Exits

ArgvChat ==
  /\ Starts /\ Starting("message")
  /\ at' \in {"exit 0", "exit 1", "broken"}
  /\ Exits

ArgvCode ==
  /\ Starts /\ Starting("task")
  /\ at' \in {"exit 0", "exit 1", "broken"}
  /\ Exits

-----------------------------------------------------------------------------
(* The prompt.                                                             *)

AtLine ==
  /\ at = "prompt"
  /\ UNCHANGED <<sessionFiles, runs, mishap>>

\* Mutant of the next: the end of the input reaches the loop, which breaks.
EmptyLineEnds ==
  /\ AtLine
  /\ at' = "quit"
  /\ UNCHANGED <<word, depth, mode, talk, sent>>

\* read_input makes an empty line of the end of the input and of Ctrl-C, and
\* run() reads on.
EmptyLine ==
  /\ AtLine
  /\ UNCHANGED <<at, word, depth, mode, talk, sent>>

\* A turn of the conversation, which fails or adds to it, or a task of the
\* coding agent; what either raises ends the program.
ChatLine ==
  /\ AtLine /\ sent < MaxMessages
  /\ sent' = sent + 1
  /\ at' \in {"prompt", "broken"}
  /\ talk' \in IF mode = "chat" THEN {talk, Append(talk, sent')} ELSE {talk}
  /\ UNCHANGED <<word, depth, mode>>

CommandLine ==
  /\ AtLine
  /\ \E w \in Words : word' = w
  /\ depth' = 1
  /\ at' = "dispatch"
  /\ UNCHANGED <<mode, talk, sent>>

-----------------------------------------------------------------------------
(* _dispatch_command.                                                      *)

Expanded == IF word \in DOMAIN aliases THEN aliases[word] ELSE word

\* CommandRegistry.lookup: a whole name, or the one name that begins so.
Lookup(w) ==
  IF w \in Registered THEN {w} ELSE IF Cardinality(Begun[w]) = 1 THEN Begun[w] ELSE {}

\* The branch that takes an expanded word.
Branch(w) ==
  CASE Lookup(w) # {} -> "registered"
    [] Lookup(w) = {} /\ w \in Built -> w
    [] OTHER -> IF w \in ToolWords THEN "tool" ELSE "none"

Runs(c) == at = "dispatch" /\ Branch(Expanded) = c

\* Whoever called _dispatch_command drops its result but for run().
Return ==
  /\ at' = "prompt"
  /\ word' = NoWord /\ depth' = 0
  /\ UNCHANGED counters

\* SessionManager.save: an error leaves a part of the file, or none, and the
\* command says nothing of it.
SaveSession ==
  IF talk = <<>> THEN UNCHANGED <<sessions, mishap>>
  ELSE /\ Len(sessions) < MaxSessions
       /\ \/ /\ sessions' = <<[text |-> talk, whole |-> TRUE]>> \o sessions
             /\ UNCHANGED mishap
          \/ /\ sessions' \in {sessions, <<[text |-> talk, whole |-> FALSE]>> \o sessions}
             /\ mishap' = TRUE

Quit ==
  /\ Runs("/quit")
  /\ SaveSession
  /\ at' = IF depth = 1 THEN "quit" ELSE "prompt"
  /\ word' = NoWord /\ depth' = 0
  /\ UNCHANGED <<mode, talk, aliases, aliasFile, counters>>

SwitchMode ==
  /\ Runs("/chat") \/ Runs("/code")
  /\ mode' = IF Runs("/chat") THEN "chat" ELSE "code"
  /\ Return
  /\ UNCHANGED <<talk, sessionFiles, mishap>>

\* An exchange is two messages, the summary that compact leaves in the place of
\* all of them is one, and the first.
Summary == -1
Messages == IF talk = <<>> THEN 0 ELSE 2 * Len(talk) - (IF Head(talk) = Summary THEN 1 ELSE 0)

\* ChatSession.clear, undo and compact, whose request to the model may fail.
Shorter(c) ==
  CASE c = "/clear" -> {<<>>}
    [] c = "/context" -> {talk, <<>>}
    [] c = "/undo" -> {IF Messages < 2 THEN talk ELSE Front(talk)}
    [] c = "/compact" -> {talk} \cup (IF Messages < 4 THEN {} ELSE {<<Summary>>})

Shorten ==
  /\ \E c \in {"/clear", "/context", "/undo", "/compact"} :
       Runs(c) /\ talk' \in Shorter(c)
  /\ Return
  /\ UNCHANGED <<mode, sessionFiles, mishap>>

\* _do_resume: one of the ten newest files, put in the place of the
\* conversation, when the user agrees to lose that.
ResumeSession ==
  /\ Runs("/resume")
  /\ \/ UNCHANGED talk
     \/ \E i \in 1..Len(sessions) : i <= 10 /\
          \E n \in 0..Len(sessions[i].text) :
            /\ sessions[i].whole => n = Len(sessions[i].text)
            /\ talk' = SubSeq(sessions[i].text, 1, n)
  /\ Return
  /\ UNCHANGED <<mode, sessionFiles, mishap>>

\* /session name: set_title writes the newest file again, in place, and keeps
\* quiet about an error.
NameSession ==
  /\ Runs("/session")
  /\ \/ UNCHANGED <<sessions, mishap>>
     \/ /\ sessions # <<>>
        /\ sessions' = [sessions EXCEPT ![1].whole = FALSE]
        /\ mishap' = TRUE
  /\ Return
  /\ UNCHANGED <<mode, talk, aliases, aliasFile>>

\* AliasStore.set and remove write the whole store in place; an error leaves
\* the file cut short and goes up through run().
Bind(w, to) == [v \in DOMAIN aliases \cup {w} |-> IF v = w THEN to ELSE aliases[v]]
Unbind(w) == [v \in DOMAIN aliases \ {w} |-> aliases[v]]

ChangeAliases ==
  /\ Runs("/alias")
  /\ \/ \E w \in AliasNames, to \in AliasTargets : aliases' = Bind(w, to)
     \/ \E w \in DOMAIN aliases : aliases' = Unbind(w)
  /\ \/ /\ aliasFile' = File(aliases')
        /\ Return
        /\ UNCHANGED mishap
     \/ /\ aliasFile' \in {aliasFile, CutFile}
        /\ at' = "broken" /\ mishap' = TRUE
        /\ UNCHANGED <<word, depth, counters>>
  /\ UNCHANGED <<mode, talk, sessions>>

\* Every other command leaves this state alone; it returns, or ends the program
\* by what it raises, Ctrl-C among it.
Delegate ==
  /\ Runs("registered") \/ Runs("tool")
  /\ \/ Return
     \/ at' = "broken" /\ UNCHANGED <<word, depth, counters>>
  /\ UNCHANGED <<mode, talk, sessionFiles, mishap>>

\* The last branch: the expanded word may be an alias itself.  Aliases in a
\* circle end the program.
Again ==
  /\ Runs("none")
  /\ IF Expanded \notin DOMAIN aliases THEN Return
     ELSE /\ IF depth = MaxDepth
             THEN at' = "broken" /\ UNCHANGED <<word, depth>>
             ELSE at' = at /\ word' = aliases[Expanded] /\ depth' = depth + 1
          /\ UNCHANGED counters
  /\ UNCHANGED <<mode, talk, sessionFiles, mishap>>

\* Another program of the same user saves its conversation, which is not this
\* one's, perhaps under the name of the newest file.
OtherSession == [text |-> <<0>>, whole |-> TRUE]

OtherSaves ==
  /\ \/ /\ Len(sessions) < MaxSessions
        /\ sessions' = <<OtherSession>> \o sessions
        /\ UNCHANGED mishap
     \/ /\ sessions # <<>>
        /\ sessions' = <<OtherSession>> \o Tail(sessions)
        /\ mishap' = TRUE
  /\ UNCHANGED <<at, word, depth, mode, talk, aliases, aliasFile, counters>>

ReplNext ==
  \/ StartRepl \/ PipeMode \/ ArgvChat \/ ArgvCode
  \/ EmptyLine \/ ChatLine \/ CommandLine
  \/ Quit \/ SwitchMode \/ Shorten \/ ResumeSession \/ NameSession \/ ChangeAliases
  \/ Delegate \/ Again
  \/ OtherSaves

ReplSpec == ReplInit /\ [][ReplNext]_replVars

-----------------------------------------------------------------------------
\* Whoever leaves the program in order finds the conversation in a session file,
\* all of it, and the aliases in theirs, unless a write has failed or another
\* program has saved in the same second (run, _dispatch_command, read_input,
\* SessionManager.save, AliasStore).
LeftInOrder ==
  at = "quit" /\ ~mishap =>
    /\ talk = <<>> \/ [text |-> talk, whole |-> TRUE] \in Range(sessions)
    /\ aliasFile = File(aliases)
=============================================================================

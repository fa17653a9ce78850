------------------------------ MODULE McpStdio ------------------------------
(***************************************************************************)
(* app/core/mcp_stdio.py and /mcp servers (cli/commands/mcp_cmds.py): one  *)
(* process per server, JSON-RPC lines over its stdin and stdout.  Every    *)
(* command builds a manager of its own, connects, asks, and drops the      *)
(* manager; the servers then find their stdin closed.                      *)
(*                                                                         *)
(* A request is written and the next JSON line is its answer: the          *)
(* identifier that the line carries is not looked at.  A server may write  *)
(* lines that are no JSON, and notifications, at any time; a reader waits  *)
(* without a timeout.                                                      *)
(***************************************************************************)
EXTENDS Naturals, Sequences, SequencesExt

CONSTANTS
  Servers,      \* the servers of mcp_servers.json, in the order of the file
  MaxLines      \* bound: the lines the servers write besides their answers

ASSUME McpAssumption ==
  /\ Servers \in Seq(STRING) /\ IsInjective(Servers)
  /\ MaxLines \in Nat

Named == ToSet(Servers)

VARIABLES
  proc,      \* proc[s]: the server's process
  conn,      \* conn[s]: the manager has s in its _connections
  lastId,    \* lastId[s]: the connection's _id
  asked,     \* asked[s]: the requests in the server's stdin
  pipe,      \* pipe[s]: the lines in its stdout that are not read yet
  command,   \* the command under way
  waiting,   \* the request whose answer it waits for, or NoRequest
  extra,     \* ghost: the lines the servers wrote besides their answers
  notes,     \* notes[s]: ghost: the notifications read as answers of s
  got        \* ghost: the last request that was answered, and its answer

mcpVars == <<proc, conn, lastId, asked, pipe, command, waiting, extra, notes, got>>

NoCommand == [for |-> "nothing", about |-> {}, stage |-> "over", left |-> <<>>]
NoRequest == [of |-> {}, id |-> 0, method |-> "none"]
Answer(id) == [line |-> "answer", id |-> id]
Note == [line |-> "note", id |-> 0]
Noise == [line |-> "noise", id |-> 0]
Unasked == [request |-> 0, behind |-> 0, answer |-> Note]

McpInit ==
  /\ proc = [s \in Named |-> "none"]
  /\ conn = [s \in Named |-> FALSE]
  /\ lastId = [s \in Named |-> 0]
  /\ asked = [s \in Named |-> <<>>]
  /\ pipe = [s \in Named |-> <<>>]
  /\ command = NoCommand
  /\ waiting = NoRequest
  /\ extra = 0
  /\ notes = [s \in Named |-> 0]
  /\ got = Unasked

McpIdle == command.for = "nothing"
Free == ~McpIdle /\ waiting = NoRequest
Alive(s) == conn[s] /\ proc[s] = "running"
TheManager == <<proc, conn, lastId, asked, pipe, waiting, notes>>

-----------------------------------------------------------------------------
(* The transport.                                                          *)

\* The request is in the server's stdin and its answer is waited for.
Request(s, method) ==
  /\ lastId' = [lastId EXCEPT ![s] = @ + 1]
  /\ asked' = [asked EXCEPT ![s] = Append(@, lastId[s] + 1)]
  /\ waiting' = [of |-> {s}, id |-> lastId[s] + 1, method |-> method]

\* A line that is no JSON is skipped.
SkipNoise ==
  \E s \in waiting.of :
    /\ pipe[s] # <<>> /\ Head(pipe[s]) = Noise
    /\ pipe' = [pipe EXCEPT ![s] = Tail(@)]
    /\ UNCHANGED <<proc, conn, lastId, asked, command, waiting, extra, notes, got>>

\* Mutant of the next: whatever line comes next is the response.
ReceiveAnyLine ==
  \E s \in waiting.of :
    /\ pipe[s] # <<>>
    /\ pipe' = [pipe EXCEPT ![s] = Tail(@)]
    /\ got' = [request |-> waiting.id, behind |-> notes[s], answer |-> Head(pipe[s])]
    /\ notes' = [notes EXCEPT ![s] = @ + IF Head(pipe[s]) = Note THEN 1 ELSE 0]
    /\ conn' = [conn EXCEPT ![s] = @ \/ proc[s] = "running"]
    /\ waiting' = NoRequest
    /\ UNCHANGED <<proc, lastId, asked, command, extra>>

\* The next line of JSON is the response.  A handshake ends with a notification
\* from the client, for which the server has to be there still.
Receive ==
  \E s \in waiting.of :
    /\ pipe[s] # <<>> /\ Head(pipe[s]) # Noise
    /\ pipe' = [pipe EXCEPT ![s] = Tail(@)]
    /\ got' = [request |-> waiting.id, behind |-> notes[s], answer |-> Head(pipe[s])]
    /\ notes' = [notes EXCEPT ![s] = @ + IF Head(pipe[s]) = Note THEN 1 ELSE 0]
    /\ conn' = [conn EXCEPT ![s] = @ \/ proc[s] = "running"]
    /\ waiting' = NoRequest
    /\ UNCHANGED <<proc, lastId, asked, command, extra>>

\* The pipe is broken, or at its end: StdioMCPError.  connect and all_tools go
\* on without the server; a call prints the error; /mcp servers connect <name>
\* does not catch it, which ends the program, and the user starts it again.
ServerGone ==
  \E s \in waiting.of :
    /\ proc[s] = "dead"
    /\ pipe[s] = <<>> \/ asked[s] # <<>>
    /\ waiting' = NoRequest
    /\ UNCHANGED <<proc, conn, lastId, asked, pipe, command, extra, notes, got>>

-----------------------------------------------------------------------------
(* The manager and the commands.                                           *)

\* /mcp servers tools, connect, connect <name> and call <name>__<tool>.
McpCommand(for, s) ==
  /\ McpIdle
  /\ command' = [for |-> for, about |-> IF for = "tools" THEN {} ELSE {s}, stage |-> "connect",
                 left |-> IF for = "connect" THEN <<s>> ELSE Servers]
  /\ UNCHANGED <<TheManager, extra, got>>

\* A new connection starts a process and a count of its own; it is filed when
\* its handshake has been answered.
Launch(s) ==
  /\ proc' = [proc EXCEPT ![s] = "running"]
  /\ conn' = [conn EXCEPT ![s] = FALSE]
  /\ lastId' = [lastId EXCEPT ![s] = 1]
  /\ asked' = [asked EXCEPT ![s] = <<1>>]
  /\ pipe' = [pipe EXCEPT ![s] = <<>>]
  /\ notes' = [notes EXCEPT ![s] = 0]
  /\ waiting' = [of |-> {s}, id |-> 1, method |-> "initialize"]

\* The server's program is not installed.
NotInstalled(s) ==
  /\ conn' = [conn EXCEPT ![s] = FALSE]
  /\ UNCHANGED <<proc, lastId, asked, pipe, notes, waiting>>

\* Mutant of the next: a server is launched until its connection is alive.
ConnectInsisting ==
  /\ Free /\ command.stage \in {"connect", "reconnect"} /\ command.left # <<>>
  /\ LET s == Head(command.left) IN
       IF Alive(s)
       THEN command' = [command EXCEPT !.left = Tail(@)] /\ UNCHANGED TheManager
       ELSE Launch(s) /\ UNCHANGED command
  /\ UNCHANGED <<extra, got>>

\* connect(s): a connection that is alive is used again.
Connect ==
  /\ Free /\ command.stage \in {"connect", "reconnect"} /\ command.left # <<>>
  /\ command' = [command EXCEPT !.left = Tail(@)]
  /\ LET s == Head(command.left) IN
       IF Alive(s) THEN UNCHANGED TheManager ELSE Launch(s) \/ NotInstalled(s)
  /\ UNCHANGED <<extra, got>>

\* A call connects to its server once more, with all of them connected.
Connected ==
  /\ Free /\ command.stage \in {"connect", "reconnect"} /\ command.left = <<>>
  /\ command' = [command EXCEPT
       !.stage = IF command.for = "call" /\ @ = "connect" THEN "reconnect" ELSE "ask",
       !.left = IF command.for = "tools" THEN Servers ELSE SetToSeq(command.about)]
  /\ UNCHANGED <<TheManager, extra, got>>

\* list_tools of every connection that is alive, or of the one that was made;
\* call_tool.
AskServer ==
  /\ Free /\ command.stage = "ask" /\ command.left # <<>>
  /\ command' = [command EXCEPT !.left = Tail(@)]
  /\ LET s == Head(command.left) IN
       IF IF command.for = "tools" THEN Alive(s) ELSE conn[s]
       THEN Request(s, IF command.for = "call" THEN "tools/call" ELSE "tools/list")
       ELSE UNCHANGED <<lastId, asked, waiting>>
  /\ UNCHANGED <<proc, conn, pipe, extra, notes, got>>

\* The command is over; its manager goes, and with it the servers' stdin.
McpDone ==
  /\ Free /\ command.stage = "ask" /\ command.left = <<>>
  /\ command' = NoCommand
  /\ proc' = [s \in Named |-> "none"]
  /\ conn' = [s \in Named |-> FALSE]
  /\ lastId' = [s \in Named |-> 0]
  /\ asked' = [s \in Named |-> <<>>]
  /\ pipe' = [s \in Named |-> <<>>]
  /\ notes' = [s \in Named |-> 0]
  /\ got' = Unasked
  /\ extra' = 0
  /\ UNCHANGED waiting

-----------------------------------------------------------------------------
(* The servers.                                                            *)

ServerAnswers(s) ==
  /\ proc[s] = "running" /\ asked[s] # <<>>
  /\ asked' = [asked EXCEPT ![s] = Tail(@)]
  /\ pipe' = [pipe EXCEPT ![s] = Append(@, Answer(Head(asked[s])))]
  /\ UNCHANGED <<proc, conn, lastId, command, waiting, extra, notes, got>>

ServerSays(s, line) ==
  /\ proc[s] = "running" /\ extra < MaxLines
  /\ pipe' = [pipe EXCEPT ![s] = Append(@, line)]
  /\ extra' = extra + 1
  /\ UNCHANGED <<proc, conn, lastId, asked, command, waiting, notes, got>>

ServerDies(s) ==
  /\ proc[s] = "running"
  /\ proc' = [proc EXCEPT ![s] = "dead"]
  /\ UNCHANGED <<conn, lastId, asked, pipe, command, waiting, extra, notes, got>>

McpClient ==
  SkipNoise \/ Receive \/ ServerGone \/ Connect \/ Connected \/ AskServer \/ McpDone

McpServer(s) == ServerAnswers(s) \/ ServerDies(s)

McpNext ==
  \/ \E for \in {"connect", "tools", "call"}, s \in Named : McpCommand(for, s)
  \/ McpClient
  \/ \E s \in Named : McpServer(s)
  \/ \E s \in Named, line \in {Note, Noise} : ServerSays(s, line)

\* A reader waits for as long as the server keeps silent: that a command ends
\* rests on servers that answer what they are asked, or die.
McpFairness ==
  /\ WF_mcpVars(McpClient)
  /\ \A s \in Named : WF_mcpVars(McpServer(s))

McpSpec == McpInit /\ [][McpNext]_mcpVars /\ McpFairness

-----------------------------------------------------------------------------
(* What the module promises.                                               *)

\* Responses are taken in the order of the lines, whatever identifier they
\* carry: a request is handed the answer to one that was asked as many requests
\* before as the server has sent notifications, and its own as long as there was
\* none (StdioMCPConnection._rpc_raw, _read).
AnswersLagByNotes ==
  got.answer.line = "answer" => got.answer.id + got.behind = got.request

\* A command on servers that answer or die comes to its end, through banners,
\* notifications, deaths before, during and after the handshake and servers
\* that are launched a second time (StdioMCPManager, /mcp servers).
McpCommandEnds == ~McpIdle ~> McpIdle
=============================================================================

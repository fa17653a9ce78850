# ILX AI CLI in TLA+

ILX AI CLI is a terminal assistant for programming, written in Python: a
read-eval-print loop that chats with a language model, lets the model edit the
files of a workspace, runs background processes, and keeps enough history to
take its edits back. This directory models the parts of it that keep state
across steps and can go wrong in an order nobody tested, checks the models with
TLC and proves their safety properties with TLAPS.

## Inventory

Paths are under `src/`.

| Part | Source | State | What is hard | What makes it correct |
|---|---|---|---|---|
| Process supervisor | `app/core/supervisor.py` | task table, process table, queue, shutdown flag | many threads, a lock released between count and launch, processes that ignore signals, timeouts, launches that fail | the tables agree; queued tasks start, in order, once; no final status is revised; nothing reported over is left running |
| Coding agent | `codex/app/controller*.py`, `workspace.py`, `runner.py`, `cli/code_session.py` | attempt number, files written, prompt | retries after half-done attempts, consent while the user edits, failing writes | tasks end; the report is complete |
| Snapshots | `app/core/snapshot_store.py`, `cli/commands/rollback_cmds.py` | a stack of texts per file, in memory | writes that take no snapshot, trimming, restarts | each rollback gives the text before the last change; the bottom is the original |
| Chat session | `cli/chat_session.py`, `cli/context.py`, `app/core/mcp_client.py` | history, pinned messages | tools called in parallel, failures in the middle of a turn | questions and answers stay paired; calls on one file keep their order |
| Permissions | `app/core/permissions.py`, `permission_profiles.py` | recent denials | the order of the rules; two gates; several threads asking | nothing forbidden is done |
| Model clients | `codex/app/llm_client*.py` | attempts, counts of tokens | retry loops in fallbacks in chains, streams that break | bounded attempts, no answer charged twice |
| Test-fix loop | `app/core/test_fix_loop.py` | round, failures | patches that hide failures instead of repairing them | it stops, and says that the tests pass only if they do |
| MCP over stdio | `app/core/mcp_stdio.py`, `cli/commands/mcp_cmds.py` | a process and a pipe per server | answers taken by position, servers that die or chatter | a request gets its own answer; commands end |
| Research | `app/core/research_fetcher.py` | cache, pages in flight | several threads for one page, stops in the middle of a file | one fetch at a time; waiters find what was fetched |
| SSH | `app/core/ssh_client.py`, `cli/commands/ssh_cmds.py` | a connection | connections that break, commands that do not end, output nobody reads | commands return |
| Workspace map | `cli/context.py`, `app/core/repo_map.py` | a block of text, its makers | threads started for another workspace | prompts get the present map in the end |
| Plans | `cli/plan_session.py` | steps, a checkpoint file | a stop between a step and its checkpoint, or within the file | checkpoints never run ahead; nothing is done twice without cause |
| User tools | `app/core/user_tools/`, `app/core/reflexion.py`, `cli/commands/user_tools_cmds.py` | registry, files, runs | file and registry are two writes; a run is a thread and a process | only what was accepted runs |
| Settings | `app/core/config.py`, `cli/commands/settings.py`, `perms`, `sandbox`, `route` | the configuration in memory and in a file | a command is several writes, any of which may fail or be the last | what is set is saved; a stop widens nothing |
| Durable stores | `app/core/json_store.py`, `supervisor.py` (`tasks.json`) | files | two programs on one file, overlapping saves | files stay whole |
| Project memory, crash database | `app/core/project_memory.py`, `app/core/crash_db.py` | two SQLite files, a transaction | commits that fail and are not told, shared locks | what is deleted stays deleted |
| Parallel writer | `app/core/parallel_writer.py` | results, temporary files | one of several writers fails | all or nothing |
| Retrieval | `app/core/hybrid_retriever.py`, `semantic_rag.py`, `rag.py` | index, embeddings, cached answers | files that change under the index, a database others write to | the index is of one piece |
| Read-eval-print loop | `main.py`, `cli/app.py`, `cli/session.py` | conversation, aliases, session files | commands that call commands, failures on the way out | who leaves in order loses nothing |
| Debug runner | `cli/debug_runner.py` | a process, four threads, two logs | readers that are waited for only so long | the logs are whole |
| Audit trail | `app/core/audit.py`, `cli/commands/audit_log_cmds.py` | a file that programs share, put aside when long | a rotation between another program's steps | what is logged can be read, in order |
| Git | `app/core/git_helper.py`, `cli/commands/git_cmds.py` | the repository | the user's editor, shell and colleagues; git killed at its time limit | no work is lost |
| Choice of model | `cli/commands/settings.py`, `setup_cmds.py` | a cached list of models | servers that change while the list is kept | the list is recent |
| Prompts, hooks, routing, secrets, output, other commands | see `PROJECT.json` | little | text, other programs | |

How they interact: the loop of `cli/app.py` hands each line to a command, to
`ChatSession.send` or to `CodeSession.run_task`. The session calls a model
client and carries out what the model answers: file actions through
`WorkspaceManager` (after the hooks and the permission callback), commands
through `CommandRunner`. `/rollback` and `/checkpoint` work on the snapshot
stacks that `CodingAgent.run` fills. `/run` and `/test` go through the
supervisor, which owns a thread per process, and files its crashes in the crash
database. `/plan` gives its steps to the chat session. Every system prompt
takes the workspace map and the project memory along. Everything in the main thread
is sequential but for the user, who edits files while a prompt waits; the
supervisor, the parallel tool calls, the parallel writer, the research fetcher,
the map, the debug runner and the runs of user tools have threads of their own.
Several programs may run at a time: they share the configuration, the audit
trail, the databases, the session files and the repository.

The hazards, each at its line and with the properties that watch it, are listed
in `PROJECT.json`. Four waits have no bound in the code, and no property covers them: of a
reader for a silent process past its deadline (`supervisor.py:538`), of the runner for a
pipe that a grandchild holds (`runner.py:214`), for a silent MCP server
(`mcp_stdio.py:156`), and for an exit status that cannot come (`ssh_client.py:250`).
`LaunchedTaskEnds`, `TaskEnds`, `McpCommandEnds` and `SshCommandReturns` assume that these
waits end, and say that nothing else keeps their callers.

## Modules

| Module | Models | Extends | Instance |
|---|---|---|---|
| `TaskPool` | what the supervisor promises: a first-come-first-served pool | | refined by `Supervisor` |
| `Supervisor` | `ProcessSupervisor`: the threads in `spawn`, the readers, `kill`, `shutdown`, the processes | | `MCSupervisor` |
| `SpawnBlocking` | `spawn_blocking` on top of it: two task objects, an event, a timed wait | `Supervisor` | `MCSpawnBlocking` |
| `SnapshotStore` | the files, and `SnapshotStore`'s stacks | | |
| `CodingAgent` | `run` and `run_streaming` | `SnapshotStore` | |
| `EditSession` | tasks, the user's edits, commands, rollbacks, checkpoints, restarts | `CodingAgent` | `MCEditSession` |
| `Permissions` | what `PermissionEngine` decides before it asks | | |
| `ToolTurn` | `ChatSession`: turns, tool rounds, parallel calls under the engine, the history | `Permissions` | `MCToolTurn` |
| `TestFixLoop` | `/fix-tests` | | `MCServices` |
| `McpStdio` | connections, handshakes and requests of `/mcp servers` | | `MCServices` |
| `ModelCall` | the model clients under a chat turn or a request of the agent | | `MCServices` |
| `ResearchFetch` | `fetch_research` and its cache, one page | | `MCServices` |
| `WorkspaceMap` | `ContextManager`'s block of signatures and `RepoMap` | | `MCServices` |
| `SshSession` | `/ssh` | | `MCServices` |
| `PlanSession` | `/plan` and the plan files | | `MCStores` |
| `UserTools` | `/tool` and `/<name>` | | |
| `ToolBuilder` | the builder with its attempts | `UserTools` | `MCStores` |
| `Settings` | the live configuration, its commands and its file | `Permissions` | `MCStores` |
| `SettingsFile` | what the store promises: a file that is written in one step | | refined by `JsonStore` |
| `JsonStore` | what one write of that file is made of, with two programs | `SettingsFile` (its promise) | `MCStores` |
| `TaskFile` | `tasks.json` | | `MCStores` |
| `Retrieval` | `/index` | | `MCStores` |
| `ParallelWriter` | `write_parallel` | | `MCStores` |
| `Repl` | one program from start to end, the prompt's commands | | `MCStores` |
| `DebugRun` | `/debug` | | `MCStores` |
| `Trail` | the audit trail and its readers | | `MCStores` |
| `GitWork` | `/git`, `/branch`, the agent's commits | | `MCStores` |
| `ModelChoice` | `/models`, `/model`, `/server`, `/provider`, `/setup local` | | `MCStores` |
| `Databases` | the project memory and the crash database | | `MCStores` |
| `SupervisorProofs`, `EditSessionProofs`, `ToolTurnProofs`, `DatabasesProofs`, `SpawnBlockingProofs` | the proofs | the module they are named after | |
| `ServicesProofs` | the proofs about | `TestFixLoop`, `ResearchFetch`, `ModelCall`, `McpStdio` | |
| `StoresProofs` | the proofs about | `JsonStore`, `ParallelWriter`, `TaskFile`, `Retrieval`, `Trail` | |
| `CommandsProofs` | the proofs about | `PlanSession`, `ToolBuilder`, `Settings`, `Repl`, `ModelChoice`, `DebugRun`, `GitWork` | |

`MCServices` and `MCStores` take components together that share no state: a
behaviour works on one of them, which the variable `topic` names, while the
others stand still. So the states of the run are the sum, not the product, of the
states of its components. Fairness of a component whose step would be enabled
without its topic names the topic.

### Supervisor

The variables are the fields of `ProcessSupervisor` (`status`, `queue`, the
process of each task, the shutdown flag) and, for each thread that is between
two sections of the lock, where it is. One action is one critical section, one
system call, or one wait: `SpawnEnter` tests the flag, `SpawnQueue` or
`SpawnAdmit` counts and queues or goes on, `LaunchProcess` is `Popen`,
`Register` files the record. A reader waits for the end of stdout, waits for the
process, files the final status, frees the slot and calls `_on_task_done`. A
process ends when it likes; it may close stdout first, catch SIGTERM, and exit
with a code of its own. `SpawnBlocking` adds the caller's view: it keeps the
object `spawn` returned, while a task taken off the queue gets another one.
`TaskFile` is the registry that every reader saves: copied under the lock,
written outside it, and read by the next program, which counts from T0001 again.

### Editing

A text is a sequence of chunks, some of which make a Python file unparseable: a
replace sets the text, an append extends it. `CodingAgent` has one action per
step that the environment can come between: the call of the model, the prompt
for each file action, the write with its three outcomes (done, not begun, and
truncated: `write_text` empties the file before it writes), the command, the
check of the files. The two loops of the code are one model with a `mode`; they
differ in the hook, the snapshot and the syntax check. `EditSession` adds the
rest of the session. The user edits files while a prompt is up, which is between
the text the agent shows as a diff and the one it snapshots. `Restart` is the end of
the program by any cause.

The history variables of `EditSession` (`undo`, `first`, `strayed`, `before`,
`outside`) have no counterpart in the code. They record what a user remembers:
what each file was, which of the changes the store has seen.

### Chat turns

`Permissions` holds the order of `request_permission`'s rules as two operators,
`Refused` and `Granted`; what is neither is asked. `ToolTurn` models one
conversation. A turn streams an answer, or goes through rounds: the model
answers with calls (`ModelCalls`, from a set of rounds), each call passes the
engine (`CallTool`, and for a command a second time, `CommandGate`) and works on
the disk, and the results go back (`NextRound`). `MayStart` is the scheduling of
`_execute_tool_calls_parallel`: calls that spell a path alike wait for the pool
to empty and run one by one; the others are taken in order by at most `Workers`
threads. `OpenForWrite`/`Write` and `ReadForPatch`/`ReplaceFile` are the two
halves of the file tools, between which other threads come. A text is one value, and a
patch finds its context in one text. An exception of a question costs a pooled call its
result and the caller's own call the turn (`PromptBreaks`, `TurnFails`). Between
turns the user takes back, compacts, saves, resumes and changes settings.

`before` and `torn` have no counterpart in the code: the disk when the round
began, and whether the history came from a session file that was cut short.

### Services

`TestFixLoop` reduces the workspace to what a test run can tell of it: the tests
that fail, and whether they can be collected at all. A run that cannot collect
them, or takes more than its 120 seconds, has an exit code but names no failing
test, and a patch may bring the workspace there.

`McpStdio` has, for every server, its process, the lines on its pipes, and the
connection the manager keeps. `Receive` takes the next line of JSON for the
answer, whatever identifier it has (`_rpc_raw`); servers write banners and
notifications when they like and die when they like.

`ModelCall` counts attempts. A turn goes along its chain of providers; the call
of each is a loop of POSTs, which for the local server's tools is followed by a
plain chat in a loop of its own. An attempt ends as the network likes: with an answer,
a retriable or a final error, or in the middle of a stream. The token counts of
an answer are known by its number.

`ResearchFetch` follows one page: several threads claim it, fetch it, store it
in memory and on the disk, release the claim and wake the others, in the order of
`fetch_research`. A cached file may be cut short by an end of the program, or
grow stale.

`WorkspaceMap`: a prompt takes the block that is ready and starts the next thread
of makers, which share a `RepoMap` without a lock. `folder` may change under
them.

`SshSession`: `DoRun` gives the host a command, which ends by itself, ends when
somebody reads what it writes, or never ends. `RunParamiko` returns when there is
an exit status or no connection any more, `RunSubprocess` in at most 60 seconds.

### What is kept

`PlanSession` keeps the steps of each plan in memory and in its file, which is
emptied before it is filled. Steps are known by their numbers, as in the code, and
the model may give two of them one number.

`UserTools` has the registry in memory and on the disk, the file of each tool, and
for each run its thread and its process; `ToolBuilder` adds the two entries that
no command uses, which validate before they write.

`Settings` changes the live configuration and then writes the settings that
differ, one write of the store each (`Change`, `SetValue`). Any write may fail and
any may be the last. A save leaves the sandbox out, which `/sandbox` sets and saves, and a
load puts it at its default (`SaveOrder`, `Loaded`). A start may be unable to read the
file, whole as it is: then everything is at its default, and the file is put aside
or stays (`StartWithNothing`). What a stop leaves is a promise about the settings before the
command and after it, as long as the file had the former when the command began or
has taken a part of the latter since; `before` and `inStep` remember this and have
no counterpart in the code. A write that failed in an earlier command voids it until
the next one that succeeds. `JsonStore` is such a write in three steps (the temporary file is
opened, filled, renamed), done by two programs that share the name of the
temporary file. A write or the replacement may fail at each step (`NotOpened`,
`SaveFails`), with or without the temporary file removed, and a start that finds a file may fail
to read it, whether it is torn or whole: it then begins with nothing and moves the file
out of the way if it can (`Load`). A name is a link to a file, since who has opened a file goes on
writing to it after it was renamed. `content` is what each file has, where `Torn` stands for
all that does not parse, and `held` is the memory (`_data`) of each program.
`SettingsFile` has neither files nor names: a program starts with what the file has, and
what it changes comes into the file in one step or not at all; a start that cannot read
the file begins with nothing, and the file goes or stays (`StartUnread`). `Found`, what a start would
read now, maps the one to the other; a program is saving there from `OpenTmp` to `Replace`.

`Retrieval` has the files in the index with the text they had, their embeddings in
memory, the database they are stored in by file name, and the cached answers.
`ParallelWriter` has one action for each step of a worker and the roll-back of
`write_parallel`. `Repl` is one program from its start to its end: `Lookup`
follows a line through alias, registry, commands, tools and aliases again. What a
command does that belongs to another module is left there. `DebugRun` has one
counter per stream for each place a line comes to: written, read, in the text
log, in the list for the JSON log. Each write of a log may fail: of the text log it
ends the thread that makes it, after the line was listed; of the JSON log it is
swallowed. `failed` remembers which.

`Trail` splits `log_event` where another program may come between: the look at the
length, the renaming, the pruning, the opening, the write. `GitWork` has the tree,
the index, the commits, the stash and the remote; a text is the number of its
edit, so that lost work is an edit that is nowhere any more. Git's own commands
are external definitions. `ModelChoice` has the cached list and two servers whose
models change.

`Databases` has for each of the two files the committed rows and the rows of the
open transaction, if there is one. The memory's `_exec` executes and commits in two
steps and swallows the errors of both, on a connection that stays open; the
crash database opens one for every call.

## Runs

| Run | Question | Bounds |
|---|---|---|
| `sup_safety` | Do the tables agree under every interleaving, does no queued task get lost, does the supervisor implement the pool? | 3 tasks, 1 slot, any launch may fail |
| `sup_calls` | Is what `spawn_blocking` answers the record's state, and does a call return once its task is over? | 2 callers, 1 slot, one with a timeout |
| `sup_live` | Do queued tasks start and launched tasks end; is the process of a finished task over or about to be killed? | 2 tasks, 1 slot; deadlines, detached stdout, kills, SIGTERM caught |
| `sup_limit` | *violated*: is `max_concurrent` kept? | 2 tasks, 1 slot |
| `sup_stranded` | *violated*: does a queued task start when a task before it cannot be launched? | 3 tasks, 1 slot; one cannot be launched |
| `edit_session` | Do rollbacks give back what they owe, do tasks end and report what they changed? | 1 file, stacks of 2, 2 attempts, 2 tasks |
| `edit_original` | *violated*: is the bottom of a stack the text from before the session? | as `edit_session` |
| `edit_delete` | *violated*: does deleting a Python file end a task? | as `edit_session` |
| `turn` | Do parallel calls keep their order, does the history stay paired, do the settings bind, do turns end? | 3 turns, 2 rounds, 1 file under 2 names, 2 threads, refusals after 1 denial (5 in the code), 5 settings with tools and 1 without |
| `services` | Is a pass a pass, is an answer the request's own, are attempts bounded, is what was fetched found, does the map catch up; and does everything return? | per component, in the head of `services.cfg` |
| `stores` | Is what is kept whole, in order, and neither lost nor revived, over failures, stops and other programs? | per component, in the head of `stores.cfg` |
| `sandbox` | *violated*: does `/sandbox read-only` refuse commands? | as `stores` |

The properties of `services` and `stores`, one for each component:

| Property | Says |
|---|---|
| `PassIsTrue`, `FixEnds` | `/fix-tests` says that all tests pass only if they do, and ends |
| `AnswersLagByNotes`, `McpCommandEnds` | an MCP request is handed the answer of as many requests before as there were notifications, its own if there were none; commands end with servers that answer or die |
| `WithinBudget`, `TurnReturns` | attempts are bounded for each provider, providers are asked in order, a turn is charged for its last answer or none; turns end |
| `WaiterFindsText` | who waited for another thread's download finds it in the cache |
| `MapCatchesUp` | prompts get the map of this workspace, once it is left alone |
| `SshCommandReturns` | `/ssh` returns, unless its paramiko connection waits for a status that cannot come |
| `PlanFollowsExecution` | a completed step was executed; a step is repeated only after a stop or a failed write |
| `ToolsInHand` | a registered tool is one that was accepted; a reported run is over |
| `SettingsHold` | the next start has every setting as it is, but the route, which the environment may decide, and the sandbox, which is back at `workspace`, unless a write or the last read failed; after a stop within a save it grants nothing that neither the old nor the new settings grant, and refuses what both refuse if it can read the file |
| `SavesAreWhole` | the configuration file has a whole save or the one before, whoever stops or fails where, unless two programs save at once; only a start that cannot read it begins with nothing, and may put it aside |
| `EndsAreSaved` | the last undisturbed save has the end of every task, and no task of another run under its number |
| `IndexIsCoherent` | an embedding is of the indexed text, a cached answer of the indexed files |
| `AllOrNothing` | parallel writes are all reported and there, or none is |
| `LeftInOrder` | who leaves in order finds the conversation and the aliases on the disk |
| `ReportIsWhole` | when a debug run is reported its logs have every line of a stream, unless the pipe outlived the wait or a write of the text log ended the stream's thread; the JSON log has what the text log has, or could not be written |
| `TrailKept` | the last records of a session can be read in order and without a gap |
| `NoWorkLost` | no git command loses a text that is in the tree or the stash, or another's commit, and a commit has what was shown for it, or later |
| `ListIsRecent` | a list of models that is shown was the server's within thirty seconds |
| `DeletedStaysDeleted` | a row that was said to be deleted is in no database and no transaction again |

Why these bounds are enough. In the supervisor the races are between two callers
of `spawn`, or a caller and a reader, for one slot; a third task is the one left
behind in the queue, and the symmetry of the tasks makes the rest repetition. In
the editing model files do not interact except in `/rollback all`, which treats
each alone, so one file shows every order of writes, edits and rollbacks on it;
a stack of two is trimmed by the third snapshot; two attempts make a retry and
an exhaustion; two tasks a rollback between tasks. In a chat, order is a matter of two calls on
one file and one call elsewhere, a second thread makes them race, a second round
meets the limit, and a third turn follows a compaction. In the services and the
stores, what races is two of a kind (programs, threads, servers, edits of a file),
and a third comes after them (a third thread that finds the page, a third record
that is put aside, a third edit that overwrites the first); a limit is one or two, so that
it is reached; a chain of two providers has a first and a last; one stop or failed
write per behaviour shows what it leaves, and a second one comes during the
repair where there is one (plans, connections). The proofs cover all values.

The five violations are described under `findings` in `PROJECT.json`. In short:
the limit of the supervisor is counted in one critical section and used in
another; a failed launch from the queue leaves nobody to look at the queue; a
snapshot is taken only where `run` replaces a file; a deleted Python file
counts as one that does not parse; and `/sandbox read-only` stores a word that the
engine does not know.

### Fairness

`Supervisor`: weak fairness of the next step of each thread that serves a task,
of the escalation timers and of the signal `kill` is about to send (Python's
threads and lock are fair enough for that; nothing is needed of the order).
A reader's end of file is fair only once the process is gone. Nothing obliges a
caller to call, a process to print, to end or to close its stdout. Only
`EndingSpec`, which `sup_live` and `sup_stranded` use, assumes that every process
ends by itself; the code looks at a deadline only when a line of output
arrives (`supervisor.py:538`), so that without it nothing can be promised of
`LaunchedTaskEnds`. In `sup_live` no task is `Unstartable`; with one the
property fails, as `sup_stranded` shows. `SpawnBlocking` (`BlockingFair`) adds the
callers' own steps, and assumes no ends of processes: it promises a return only once
the task is over.

`EditSession`: weak fairness of the agent's next step as a whole. The agent is one
thread; the clients have timeouts, a prompt is answered, a hook and a command end
(the runner kills it at its timeout, and the pipes then close unless a
grandchild holds them). The user and `Restart` have no fairness.

`ToolTurn`: weak fairness of a turn's next step, whoever makes it. Requests to
the model and commands have timeouts, a question is answered in the end. Nothing
obliges the user between turns.

`TestFixLoop`, `ModelCall`: weak fairness of the loop's next step: test runs, git,
requests and waits between attempts all have time limits. `McpStdio`: of the
client, and of every server, which answers what it was asked or dies; it need
not write anything else. The client's `readline` has no time limit, so a server
that does neither keeps the command for ever. `ResearchFetch` and `WorkspaceMap`: of every
thread; requests have time limits. `SshSession`: of the client, and of the
commands on the host that can end. Nothing obliges a user to begin, a connection to
break, or time to pass.

## Proofs

Every safety property that a passing run checks, the refinements of the pool and of
the settings file among them, is a theorem. The theorems hold for every value of the constants (numbers of tasks,
slots, files, texts, attempts, programs, servers, rows, and sets of responses)
under the assumptions the modules state about them, and whatever the bounds that keep
the runs small (`MaxFaults`, `MaxLogged`, ...), which are no more than guards.
The argument is the same everywhere: an inductive invariant,
named after the module, of a type invariant and the parts that the property rests on;
one lemma per action, or per group of actions that leave the same parts alone;
a last lemma that splits the next-state relation. TLC has checked each of these
invariants on the run's instance. What follows is why each is needed.

`SupervisorProofs`. The inductive invariant is `TableInv`: the types, `PlaceInv`
(for every place of a thread, what the tables say of the task it holds),
`QueueMatchesTasks` and `RunningHasReader`; `TablesAgree`, which `sup_safety`
checks, is the last two. They are not inductive alone: a
thread about to register a task must be known to hold a
process, and a task off the queue to be held by just one thread. `ShutdownInv`
adds what the flag excludes. From them: `TypeCorrect`, `TableCorrect`,
`FinishedDies`, `TerminalStatusFinal`, `NoneStranded`, `SurvivorsWereInFlight`,
and `SupervisorImplementsPool`, the refinement, with one lemma per action that
maps it to a step of the pool or to a stutter.

`EditSessionProofs`. `SessionTypes` is inductive with one clause that is not
about types (a prompt is up only for an action that is left). `RollbackRestores`
needs `UndoInv`: what is owed to the user is the upper end of what the store
holds, for which the lemmas on stacks say that pushing on both (with trimming on
either) and popping both keep it; it matters that a pop leaves the bottom entry, so
the two may differ in length from then on. `OriginalsStay` and `ReportComplete`
are inductive given the types.

`ToolTurnProofs`. Each theorem has an invariant of its own on top of `TurnInv`
(types, and the tool of a call in the middle of something).
`SettingsBind`: a call past a gate was not forbidden there (`BindInv`), and the
settings change only between turns; the first gate excludes what the mode, the
profile and the sandbox forbid, since no list matches the arguments it sees,
and the second what is on the denylist. `HistoryStaysPaired`: inside a turn the history
ends with the question, so that the last message taken back is the question.
`CallsKeepOrder`: while a call on a file is not over, those after it have not
begun (`InOrder`), so what is in turn for it is what is on the disk, except between
the two halves of a write. It is `OneSpelling` that makes the calls on a file
wait for each other; without it the proof fails where the code does.

`DatabasesProofs`. `DeletedForGood` has the invariant `DbInv`: a row carries the
number of its making, so that a new one is none that was deleted (`RowsInv`), and who
is about to say that rows are gone holds the lock with a transaction that has none
of them (`LockInv`), so that nobody's commit can bring them back and its own failure
is not told as a deletion.

`SpawnBlockingProofs`. Every step of `SpawnBlocking` is one of the supervisor or leaves
it alone (`CallsAreSpawns`), so that `TableInv` and `TerminalStatusFinal` hold; `AnswersAreTrue` then
needs only that an answer is read when it is given.

`ServicesProofs`. `PassMeansPassing`: a report that says so is made by the last run of the
tests, behind which no patch is applied. `FetchesAreApart` and
`WaitersFindText`: the claim is that of the thread that fetches, and the text is in
memory before the event of its fetch is set (`TextBeforeEvent`).
`TurnsStayWithinBudget`: the counter of a retry loop says how much has been posted
to a provider, but for the plain chat at the local server, before which there was
another loop (`PostsCounted`), and the counts that are held are those of the last
answer or none (`CountsOfLast`). `AnswersInOrder`: the answers in a pipe
and the requests still open are consecutive numbers in this order (`InTurn`), the first
of them as far behind the last request as there were notifications (`First`); this
holds of the servers that may still be asked, since one that has been given up keeps
its lines.

`StoresProofs`. `SavesTakeEffectAtOnce`: until two saves overlap, the name of
the temporary file is a file that one program has open, has filled with what it
holds or has left behind, unless another has removed it, and never the configuration or
what was put aside (`OneSaves`), so that the replacement is the write of
`SettingsFile` and the steps before it are stutters; that a new file is nobody's is a
matter of cardinalities. `StoreImplementsFile` says the same as an implementation,
of the behaviours in which no saves overlap, and `ConfigurationWhole` that the file always has the
whole of some settings, and what a start has put aside too: it was the read that failed. `AllWrittenOrNone`: in the pool a file holds a text of an
edit that went well, and an edit that went well has left its text or a later one
(`TextsOfEdits`); in the roll-back what still holds one has still to be taken back
(`LeftToUndo`). `EndsInTaskFile`: of an undisturbed run one save at a time is
under way, and its copy has already what the file will have to (`CopyIsLatest`), whose
limit is a matter of cardinalities. `IndexCoherent` is
inductive with the types. `TrailStays`: files are in the order of their names
(`FilesOK`), a session's records in the order of files and lines (`RecordsInOrder`), and
a program that has opened a file has nothing in later ones (`OpenIsLast`), without
which a slow write would come behind a rotation of somebody else and break the order;
names are lost from the oldest on (`LatestReadable`), and a query takes the newest by
rank, for which `Ranks` says that the elements of a finite set of numbers have as many
above them as one likes, one each.

`CommandsProofs`. `PlansFollowExecution`: file and memory tell the same of a plan but
for the step that is executed and not written yet (`FileTells`, `PlanTells`,
`Unwritten`). `ToolsStayInHand`: the registry in memory leads, but for a removal to be
saved (`MemoryLeads`), and a command knows of its tool what it is about to rely on
(`CommandKnows`). `SettingsStay`: the file has the new settings up to one of them and the
old ones from there (`PartlySaved`), so that what it grants is granted by either, and the defaults, with which a start that
cannot read the file begins, grant nothing; the
list of what is left to save is one of seven, and `/allow` and `/deny` change both lists in
a way that makes every mixture of them harmless (`OneKindOfChange`; `Drifts` is what they
leave in the store). `QuitInOrder`: the aliases
are in their file at every moment, and the loops that leave in order save the talk in
their last step. `ListsAreRecent`: what is kept is as old as its age says (`EntriesAge`).
`ReportsAreWhole`: how far behind a line may be at each place of a reader
(`LinesFollow`), that a reader that has ended well has seen the end of its pipe
(`DoneIsAll`), that a thread fails only at a log that is closed or takes no line
(`OpenLog`), and what the main thread has waited for (`Joined`). `WorkIsKept`: texts
are known by the number of the edit, so that "later" is an order; what is staged or
was shown is no newer than the file (`StagedIsOlder`, `ShownIsOlder`), and commits come
after others as their sets say (`Placed`), by which a pull or a push loses none.

`TypeCorrect` and `SessionTypes` state type invariants, which no run checks beside
the properties: they are the first part of every proof. `FetchesAreApart`,
`ConfigurationWhole`, `StoreImplementsFile` and `CallsAreSpawns` are checked by no run of
their own: they say what another theorem rests on, or the same in another form.

For the sake of the proofs some definitions of the models are not written in the
shortest way: recursion and folds are avoided where a quantifier says the same
(`TrailKept`, `Query` of `Trail`), and the place after a join is a parameter (`Join` of
`DebugRun`) instead of a string put together.

Only model-checked: the liveness properties (`QueuedTaskStarts`,
`LaunchedTaskEnds`, `FinishedCallReturns`, `TaskEnds`, `TurnEnds`, `FixEnds`,
`McpCommandEnds`, `TurnReturns`, `MapCatchesUp`, `SshCommandReturns`). They rest on
fairness, hence on `ENABLED`, which is out of the prover's reach. `WorkspaceMap` and
`SshSession` promise nothing else, and have no theorem.

## Not modelled, and the plan

`PROJECT.json` lists every part with the reason. What is left falls into three
kinds: text (prompts, the parser of responses, ranking, chunks, reports, output),
single calls of other programs (`docker`, linters, hooks, benchmarks, the
review commands), and packaging. None has state that a step of somebody else can
invalidate. Two parts are candidates for a later model: `HybridRetriever` under
`/research` and `/rag`, once its index is filled by more than `/index`, and the HTTP
side of MCP, whose requests share nothing.

Left out of the modelled parts: the text of prompts and responses, output
formatting and logging, the ring buffer of task output, the reuse of process
numbers, a failing write in `/rollback` (it ends the program, and the stacks with it),
edits of the user while a chat turn runs, the lookup of the path argument of
`/rollback`, conflicts in git, a configuration file that was cut within a character (the
`UnicodeDecodeError` is not caught and the program does not start, so that nothing
changes), and `auto_commit` within a task, which no caller
turns on (the commit itself is `MaybeCommit` of `GitWork`).

To prove next: what the liveness properties rest on besides fairness, such as the bound on
the rounds of a loop.

## What the models say and no run checks

Behaviour that was met while translating the code, that contradicts no sentence
of a document or is outside the models, kept for who works on it next:

- **Supervisor.** `kill` signals outside the lock (`supervisor.py:292`), when the
  process may be over. A killed process that catches SIGTERM is recorded as a
  crash (`:587`).
- **Agent.** The syntax check looks at the files of the last attempt only, so a broken
  file of an earlier one stays behind a task that succeeds (`controller.py:406`).
- **Chat.** A file that one round names in two ways is written by two threads.
  The denial tracker has no lock. With fallback providers configured, streaming never
  works (`FallbackLLMClient` has no `chat_stream`). A local stream that ends without
  its last event passes for a whole answer. Only the last round of a turn with
  tools is charged; with a chain the end of such a turn raises, for the chain has no
  `.model`. `CostTracker.record_usage` has no caller.
- **Plans.** A step whose chat raised `TypeError` is filed as done if there is no
  chain of fallbacks.
- **Prompt.** Ctrl-D never ends the loop. An alias of an alias of `/quit` saves, says
  Goodbye and goes on; aliases in a circle recurse until Python gives up.
  Exceptions of commands, and Ctrl-C in one, end the program without saving the
  session. `/session name` rewrites the newest file in place and swallows errors.
  `/drop` drops every pinned entry with the same content but at most one file of
  the index. Flags such as `--yes` are applied to a configuration that `ILXApp`
  loads again.
- **Git.** `/git commit` and `ai-commit` stage everything, untracked files that were
  not shown included; `ai-commit` writes its message from what was staged before. The
  agent commits only what the user has staged. The 60 seconds of `ai-commit` bound
  nothing, since leaving the pool waits for its thread. A killed git leaves `index.lock`.
- **Settings.** `/sandbox` saves, and warns if it "could not persist" the mode, but no
  save writes `sandbox_mode` (`config.py:136-157`) and no load looks for it: the next start is at
  "workspace". A `config.json` that is whole but cannot be read once is renamed to
  `.corrupt` (`json_store.py:93-101`): a locked profile is "ask" again, the denylist is
  empty, and the next save makes it so for good. The store's memory takes a value before the
  file, and a value it holds is not written again, so after a failing write the same command
  repeated repairs nothing.
- **Debug.** The report names the text log whatever became of it, and says nothing of a
  JSON log that is missing or cut. A full disk ends a reader, and nobody
  empties its pipe from then on. `/debug` of a program that ignores SIGTERM raises through the loop and
  leaves the log open. The last typed lines may miss from the text log.
- **Audit.** `/trust --save` calls a method that does not exist. `/audit diff` filters
  by operations that are never logged. `/trust` counts refused operations as changes.
  `/audit replay 0` shows everything.
- **User tools.** A registry that cannot be saved leaves a tool registered in memory
  though it was reported as not built; a new version that cannot be written
  leaves a cut file registered.
- **Models.** `/setup local` takes any size of a model for the one it looks for, makes an
  uninstalled one the default, and makes it the default also when the pull failed. Nothing takes
  the cached list out when a model is pulled, and failures are cached too.
- **Routing.** The last resort of the router ignores "local-only" and "free-only".
- **Retrieval.** `refresh_changed_files` indexes under absolute names, so the old text
  stays under the relative one. What `/research` indexes is never asked.
- **Parallel writer.** A roll-back removes the new file; the old content is lost.
- **Memory.** `/memory add` says "Remembered" although the error was swallowed. A
  commit that fails keeps the database locked for other programs until the next
  statement. Fixes, symbols and API errors have readers but no writer. The prompt
  opens the memory before anybody gives it a session, so facts carry none.
- **SSH.** A run by paramiko waits for the exit status before it reads, for ever if
  the command fills the channel. A connection that broke is not made again. The
  message of a timeout is in a field that `/ssh run` does not print.
- **Map.** The first build is always forced, so the cache on the disk never helps.

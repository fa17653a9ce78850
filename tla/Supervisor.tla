----------------------------- MODULE Supervisor -----------------------------
(***************************************************************************)
(* app/core/supervisor.py: ProcessSupervisor, the owner of every           *)
(* subprocess the CLI starts.  Many threads share it: the callers of       *)
(* spawn(), one reader thread per launched process (which also launches    *)
(* the next queued task when its own is over), one escalation thread per   *)
(* signal sent, the callers of kill() and the caller of shutdown().        *)
(*                                                                         *)
(* One step is one critical section of self._lock, or one effect outside   *)
(* it.  Everything between two sections is a place where the threads       *)
(* interleave, so the position of the thread that works for task t is the  *)
(* control state pc[t].                                                    *)
(*                                                                         *)
(* A task stands for one call of spawn(); _next_id() hands every call an   *)
(* identifier of its own under the lock, so the task is its identifier.    *)
(***************************************************************************)
EXTENDS Naturals, Sequences, FiniteSets

CONSTANTS
  Tasks,          \* the calls of spawn() made while the program runs
  MaxConcurrent,  \* ProcessSupervisor(max_concurrent)
  Unstartable,    \* the tasks whose Popen may raise (no such command, fork failure)
  Timed,          \* the tasks spawned with a timeout
  Detaching,      \* the tasks whose process may close its stdout and live on
  Targets,        \* the tasks the user may name to kill()
  ProcessCodes,   \* the kinds of exit code the processes may end with
  NoTask          \* a value that is no task: the thread has no target

\* Exit codes by what the code tells apart: 0; a signal's -9 or -15; the
\* shell's 130 and 137; any other code.
ExitClass == {"zero", "signal", "shellkill", "other"}

ASSUME SupervisorAssumption ==
  /\ IsFiniteSet(Tasks)
  /\ MaxConcurrent \in Nat \ {0}
  /\ Unstartable \subseteq Tasks
  /\ Timed \subseteq Tasks
  /\ Detaching \subseteq Tasks
  /\ Targets \subseteq Tasks
  /\ ProcessCodes \subseteq ExitClass
  /\ NoTask \notin Tasks

VARIABLES
  shuttingDown, \* self._shutting_down
  queue,        \* self._queue, the task of each _QueuedItem
  status,       \* status[t]: self._tasks[t].status, "absent" when t is not a key
  procs,        \* the keys of self._procs
  pc,           \* where the thread that works for t is
  overdue,      \* tasks whose deadline has passed while they were read
  timedOut,     \* tasks whose reader set its local timed_out
  exit,         \* exit[t]: the process of t in the system's table: no entry,
                \* running, or dead with a code nobody has collected
  code,         \* code[t]: proc.returncode, then the reader's local exit_code
  escalating,   \* tasks signalled while alive whose _escalate thread sleeps
  killer,       \* killer[k]: the task kill() has checked and is about to signal
  shutPc,       \* where the caller of shutdown() is
  todo,         \* the tasks kill_all() has still to visit for shutdown()
  crashes,      \* tasks recorded by crash_db.record
  lost,         \* history: tasks taken off the queue whose launch failed
  inFlight      \* history: tasks between two sections of spawn when the flag was set

queueVars == <<shuttingDown, queue>>
taskVars  == <<status, procs, lost>>
procVars  == <<exit, code, escalating>>
readVars  == <<overdue, timedOut, crashes>>
killVars  == <<killer, shutPc, todo, inFlight>>
vars == <<queueVars, taskVars, procVars, readVars, killVars, pc>>

TaskStatus == {"QUEUED", "RUNNING", "COMPLETED", "FAILED", "KILLED", "TIMEOUT"}
Terminal == TaskStatus \ {"QUEUED", "RUNNING"}

\* The two threads that call kill(): one of the user's, one in shutdown().
Killers == {"user", "shutdown"}

\* Before the reader thread, in it, and after the task's record is closed.
Entering == {"admitting", "queued", "launching", "registering"}
Reading == {"reading", "waiting", "closing"}
Closing == {"notifying", "refilling", "recording", "done"}
Places == {"idle", "refused", "failed", "dropped"} \cup Entering \cup Reading \cup Closing

Running == {t \in Tasks : status[t] = "RUNNING"}
Queued == {queue[i] : i \in DOMAIN queue}
Alive(t) == exit[t] = "running"

Goto(t, place) == pc' = [pc EXCEPT ![t] = place]

Init ==
  /\ shuttingDown = FALSE
  /\ queue = <<>>
  /\ status = [t \in Tasks |-> "absent"]
  /\ procs = {}
  /\ lost = {}
  /\ pc = [t \in Tasks |-> "idle"]
  /\ exit = [t \in Tasks |-> "none"]
  /\ code = [t \in Tasks |-> "None"]
  /\ escalating = {}
  /\ overdue = {}
  /\ timedOut = {}
  /\ crashes = {}
  /\ killer = [k \in Killers |-> NoTask]
  /\ shutPc = "idle"
  /\ todo = {}
  /\ inFlight = {}

-----------------------------------------------------------------------------
(* spawn(): the shutdown test, then the count of the running tasks, in two *)
(* critical sections; then the launch, outside both.                       *)

\* Mutant of SpawnEnter: the shutdown test is missing.
SpawnEnterUnchecked(t) ==
  /\ pc[t] = "idle"
  /\ Goto(t, "admitting")
  /\ UNCHANGED <<queueVars, taskVars, procVars, readVars, killVars>>

SpawnEnter(t) ==
  /\ pc[t] = "idle"
  /\ Goto(t, IF shuttingDown THEN "refused" ELSE "admitting")
  /\ UNCHANGED <<queueVars, taskVars, procVars, readVars, killVars>>

\* Mutant of SpawnQueue: appendleft.
SpawnQueueLeft(t) ==
  /\ pc[t] = "admitting"
  /\ Cardinality(Running) >= MaxConcurrent
  /\ status' = [status EXCEPT ![t] = "QUEUED"]
  /\ queue' = <<t>> \o queue
  /\ Goto(t, "queued")
  /\ UNCHANGED <<shuttingDown, procs, lost, procVars, readVars, killVars>>

SpawnQueue(t) ==
  /\ pc[t] = "admitting"
  /\ Cardinality(Running) >= MaxConcurrent
  /\ status' = [status EXCEPT ![t] = "QUEUED"]
  /\ queue' = Append(queue, t)
  /\ Goto(t, "queued")
  /\ UNCHANGED <<shuttingDown, procs, lost, procVars, readVars, killVars>>

SpawnAdmit(t) ==
  /\ pc[t] = "admitting"
  /\ Cardinality(Running) < MaxConcurrent
  /\ Goto(t, "launching")
  /\ UNCHANGED <<queueVars, taskVars, procVars, readVars, killVars>>

\* _launch(): Popen succeeds; the process runs before anyone can find it.
LaunchProcess(t) ==
  /\ pc[t] = "launching"
  /\ exit' = [exit EXCEPT ![t] = "running"]
  /\ Goto(t, "registering")
  /\ UNCHANGED <<queueVars, taskVars, code, escalating, readVars, killVars>>

\* _launch(): Popen raises.  The task is filed as FAILED, and neither
\* on_finish nor _on_task_done is called for it.
LaunchFails(t) ==
  /\ pc[t] = "launching"
  /\ t \in Unstartable
  /\ status' = [status EXCEPT ![t] = "FAILED"]
  /\ lost' = IF status[t] = "QUEUED" THEN lost \cup {t} ELSE lost
  /\ Goto(t, "failed")
  /\ UNCHANGED <<queueVars, procs, procVars, readVars, killVars>>

\* _launch(): a new ManagedTask (RUNNING) and the Popen object are filed and
\* the reader thread starts.
Register(t) ==
  /\ pc[t] = "registering"
  /\ status' = [status EXCEPT ![t] = "RUNNING"]
  /\ procs' = procs \cup {t}
  /\ Goto(t, "reading")
  /\ UNCHANGED <<queueVars, lost, procVars, readVars, killVars>>

-----------------------------------------------------------------------------
(* The process and the clock.                                              *)

\* The process ends, by itself or of a signal.  One that catches SIGTERM
\* may end with any code, or not end at all.
ProcessExits(t) ==
  /\ Alive(t)
  /\ \E c \in ProcessCodes : exit' = [exit EXCEPT ![t] = c]
  /\ UNCHANGED <<queueVars, taskVars, code, escalating, readVars, killVars, pc>>

DeadlinePasses(t) ==
  /\ pc[t] = "reading"
  /\ t \in Timed
  /\ overdue' = overdue \cup {t}
  /\ UNCHANGED <<queueVars, taskVars, procVars, timedOut, crashes, killVars, pc>>

\* A SIGTERM to the process group, and an _escalate thread.  (The thread
\* that follows a signal to a dead process has nothing left to do.)
Signal(t) == escalating' = IF Alive(t) THEN escalating \cup {t} ELSE escalating

\* _escalate(), five seconds after a SIGTERM: a live process gets SIGKILL.
\* For a dead one poll() collects the code, which the reader may then see.
Escalate(t) ==
  /\ t \in escalating
  /\ escalating' = escalating \ {t}
  /\ CASE Alive(t) -> exit' = [exit EXCEPT ![t] = "signal"] /\ UNCHANGED code
       [] exit[t] \in ExitClass ->
            /\ exit' = [exit EXCEPT ![t] = "none"]
            /\ code' = IF pc[t] \in Reading THEN [code EXCEPT ![t] = exit[t]] ELSE code
       [] OTHER -> UNCHANGED <<exit, code>>
  /\ UNCHANGED <<queueVars, taskVars, readVars, killVars, pc>>

-----------------------------------------------------------------------------
(* _reader().                                                              *)

\* A line arrives after the deadline.  The deadline is looked at only here:
\* a process that prints nothing is not timed out.
ReadPastDeadline(t) ==
  /\ pc[t] = "reading"
  /\ t \in overdue
  /\ overdue' = overdue \ {t}
  /\ timedOut' = timedOut \cup {t}
  /\ Signal(t)
  /\ Goto(t, "waiting")
  /\ UNCHANGED <<queueVars, taskVars, exit, code, crashes, killVars>>

\* End of file on stdout: the process is over, or it closed its stdout.
ReadEof(t) ==
  /\ pc[t] = "reading"
  /\ Alive(t) => t \in Detaching
  /\ overdue' = overdue \ {t}
  /\ Goto(t, "waiting")
  /\ UNCHANGED <<queueVars, taskVars, procVars, timedOut, crashes, killVars>>

\* Mutants of WaitReturns: the code is taken without asking whether poll()
\* has collected the process; a process already collected is waited for.
WaitTakesCode(t) ==
  /\ pc[t] = "waiting"
  /\ ~Alive(t)
  /\ exit' = [exit EXCEPT ![t] = "none"]
  /\ code' = [code EXCEPT ![t] = exit[t]]
  /\ Goto(t, "closing")
  /\ UNCHANGED <<queueVars, taskVars, escalating, readVars, killVars>>

WaitOnCollected(t) ==
  /\ exit[t] # "none"
  /\ WaitTakesCode(t)

\* proc.wait(timeout=5) collects the process, unless poll() already has ...
WaitReturns(t) ==
  /\ pc[t] = "waiting"
  /\ ~Alive(t)
  /\ exit' = [exit EXCEPT ![t] = "none"]
  /\ code' = IF exit[t] = "none" THEN code ELSE [code EXCEPT ![t] = exit[t]]
  /\ Goto(t, "closing")
  /\ UNCHANGED <<queueVars, taskVars, escalating, readVars, killVars>>

\* Mutant of WaitExpires: the process is left alone.
WaitExpiresQuietly(t) ==
  /\ pc[t] = "waiting"
  /\ Alive(t)
  /\ Goto(t, "closing")
  /\ UNCHANGED <<queueVars, taskVars, procVars, readVars, killVars>>

\* ... or gives up after five seconds, and the process is sent a SIGTERM.
WaitExpires(t) ==
  /\ pc[t] = "waiting"
  /\ Alive(t)
  /\ Signal(t)
  /\ Goto(t, "closing")
  /\ UNCHANGED <<queueVars, taskVars, exit, code, readVars, killVars>>

FinalStatus(t) ==
  CASE t \in timedOut      -> "TIMEOUT"
    [] t \notin timedOut /\ code[t] = "zero"   -> "COMPLETED"
    [] t \notin timedOut /\ code[t] = "signal" -> "KILLED"
    [] OTHER               -> "FAILED"

\* Mutant of Finish: the Popen object stays in self._procs.
FinishKeepsProc(t) ==
  /\ pc[t] = "closing"
  /\ status' = [status EXCEPT ![t] = FinalStatus(t)]
  /\ Goto(t, "notifying")
  /\ UNCHANGED <<queueVars, procs, lost, procVars, readVars, killVars>>

\* The section that closes the task's record; the code is None when the
\* wait expired and nobody polled since.
Finish(t) ==
  /\ pc[t] = "closing"
  /\ status' = [status EXCEPT ![t] = FinalStatus(t)]
  /\ procs' = procs \ {t}
  /\ Goto(t, "notifying")
  /\ UNCHANGED <<queueVars, lost, procVars, readVars, killVars>>

\* Mutant of Notify: an exception of on_finish ends the reader.
NotifyRaises(t) ==
  /\ pc[t] = "notifying"
  /\ \E place \in {"refilling", "done"} : Goto(t, place)
  /\ UNCHANGED <<queueVars, taskVars, procVars, readVars, killVars>>

\* save_registry() (module TaskRegistry) and on_finish().
Notify(t) ==
  /\ pc[t] = "notifying"
  /\ Goto(t, "refilling")
  /\ UNCHANGED <<queueVars, taskVars, procVars, readVars, killVars>>

\* Mutant of OnTaskDone: the queue is peeked at, not popped.
OnTaskDonePeeks(t) ==
  /\ pc[t] = "refilling"
  /\ pc' = IF queue = <<>> \/ shuttingDown THEN [pc EXCEPT ![t] = "recording"]
           ELSE [pc EXCEPT ![t] = "recording", ![Head(queue)] = "launching"]
  /\ UNCHANGED <<queueVars, taskVars, procVars, readVars, killVars>>

\* _on_task_done(): t's reader takes the oldest queued task and launches it.
\* (t's own last step, RecordCrash, touches nothing the launch touches.)
OnTaskDone(t) ==
  /\ pc[t] = "refilling"
  /\ IF queue = <<>> \/ shuttingDown
     THEN /\ Goto(t, "recording")
          /\ UNCHANGED queue
     ELSE /\ queue' = Tail(queue)
          /\ pc' = [pc EXCEPT ![t] = "recording", ![Head(queue)] = "launching"]
  /\ UNCHANGED <<shuttingDown, taskVars, procVars, readVars, killVars>>

\* crash_db.record for an exit code that is neither success nor a kill.
RecordCrash(t) ==
  /\ pc[t] = "recording"
  /\ crashes' = IF code[t] = "other" /\ t \notin timedOut
                THEN crashes \cup {t} ELSE crashes
  /\ timedOut' = timedOut \ {t}                \* the reader's locals are gone
  /\ code' = [code EXCEPT ![t] = "None"]
  /\ Goto(t, "done")
  /\ UNCHANGED <<queueVars, taskVars, exit, escalating, overdue, killVars>>

-----------------------------------------------------------------------------
(* kill(): the test under the lock, the signal outside it.                 *)

Killable(t) == t \in procs /\ status[t] = "RUNNING"

KillCheck(t) ==
  /\ killer["user"] = NoTask
  /\ t \in Targets
  /\ Killable(t)
  /\ killer' = [killer EXCEPT !["user"] = t]
  /\ UNCHANGED <<queueVars, taskVars, procVars, readVars, shutPc, todo, inFlight, pc>>

KillSignal(k) ==
  /\ killer[k] # NoTask
  /\ Signal(killer[k])
  /\ killer' = [killer EXCEPT ![k] = NoTask]
  /\ UNCHANGED <<queueVars, taskVars, exit, code, readVars, shutPc, todo, inFlight, pc>>

-----------------------------------------------------------------------------
(* shutdown(): the flag and the queue in one section; the drain; kill_all. *)

\* Mutant of ShutdownBegin: every QUEUED record is marked, also that of a
\* task just taken off the queue.
ShutdownMarksAll ==
  /\ shutPc = "idle"
  /\ shutPc' = "draining"
  /\ shuttingDown' = TRUE
  /\ queue' = <<>>
  /\ status' = [t \in Tasks |-> IF status[t] = "QUEUED" THEN "KILLED" ELSE status[t]]
  /\ pc' = [t \in Tasks |-> IF t \in Queued THEN "dropped" ELSE pc[t]]
  /\ inFlight' = {t \in Tasks : pc[t] \in Entering \ {"queued"}}
  /\ UNCHANGED <<procs, lost, procVars, readVars, killer, todo>>

ShutdownBegin ==
  /\ shutPc = "idle"
  /\ shutPc' = "draining"
  /\ shuttingDown' = TRUE
  /\ queue' = <<>>
  /\ status' = [t \in Tasks |-> IF t \in Queued THEN "KILLED" ELSE status[t]]
  /\ pc' = [t \in Tasks |-> IF t \in Queued THEN "dropped" ELSE pc[t]]
  /\ inFlight' = {t \in Tasks : pc[t] \in Entering \ {"queued"}}
  /\ UNCHANGED <<procs, lost, procVars, readVars, killer, todo>>

\* The drain ends when nothing runs or the deadline passes (at once without
\* drain), and kill_all() lists the running tasks.
ShutdownKillAll ==
  /\ shutPc = "draining"
  /\ shutPc' = "killing"
  /\ todo' = Running
  /\ UNCHANGED <<queueVars, taskVars, procVars, readVars, killer, inFlight, pc>>

\* kill_all() calls kill() for the next task of its list.
ShutdownKill(t) ==
  /\ shutPc = "killing"
  /\ t \in todo
  /\ killer["shutdown"] = NoTask
  /\ todo' = todo \ {t}
  /\ killer' = IF Killable(t) THEN [killer EXCEPT !["shutdown"] = t] ELSE killer
  /\ UNCHANGED <<queueVars, taskVars, procVars, readVars, shutPc, inFlight, pc>>

ShutdownEnd ==
  /\ shutPc = "killing"
  /\ todo = {}
  /\ killer["shutdown"] = NoTask
  /\ shutPc' = "done"
  /\ UNCHANGED <<queueVars, taskVars, procVars, readVars, killer, todo, inFlight, pc>>

-----------------------------------------------------------------------------
SpawnStep(t) == SpawnEnter(t) \/ SpawnQueue(t) \/ SpawnAdmit(t)
LaunchStep(t) == LaunchProcess(t) \/ LaunchFails(t) \/ Register(t)
WaitStep(t) == WaitReturns(t) \/ WaitExpires(t)
CloseStep(t) == Finish(t) \/ Notify(t) \/ OnTaskDone(t) \/ RecordCrash(t)
ReadStep(t) == ReadPastDeadline(t) \/ ReadEof(t)
OutsideStep(t) == ProcessExits(t) \/ DeadlinePasses(t) \/ Escalate(t)
ShutdownStep ==
  \/ ShutdownBegin \/ ShutdownKillAll \/ ShutdownEnd
  \/ \E t \in Tasks : ShutdownKill(t)

Next ==
  \/ \E t \in Tasks :
        \/ SpawnStep(t) \/ LaunchStep(t) \/ OutsideStep(t)
        \/ ReadStep(t) \/ WaitStep(t) \/ CloseStep(t) \/ KillCheck(t)
  \/ \E k \in Killers : KillSignal(k)
  \/ ShutdownStep

Spec == Init /\ [][Next]_vars

-----------------------------------------------------------------------------
(* Fairness.  Every thread of the supervisor keeps running once started,   *)
(* and escalation timers fire.  Nothing obliges a caller to call, a        *)
(* process to end or to print, or a process that lives to close stdout:    *)
(* ReadEof is fair only once the process is gone.                          *)

ThreadStep(t) ==
  \/ SpawnQueue(t) \/ SpawnAdmit(t)
  \/ LaunchStep(t)
  \/ ~Alive(t) /\ ReadEof(t)
  \/ WaitStep(t)
  \/ CloseStep(t)

ThreadFairness ==
  /\ \A t \in Tasks : WF_vars(ThreadStep(t)) /\ WF_vars(Escalate(t))
  /\ \A k \in Killers : WF_vars(KillSignal(k))

FairSpec == Spec /\ ThreadFairness

\* What the environment may or may not do: every process ends some day.
ProcessesEnd == \A t \in Tasks : WF_vars(ProcessExits(t))

EndingSpec == FairSpec /\ ProcessesEnd

-----------------------------------------------------------------------------
TypeOK ==
  /\ shuttingDown \in BOOLEAN
  /\ queue \in Seq(Tasks)
  /\ status \in [Tasks -> TaskStatus \cup {"absent"}]
  /\ procs \subseteq Tasks
  /\ lost \subseteq Tasks
  /\ pc \in [Tasks -> Places]
  /\ overdue \subseteq Tasks
  /\ timedOut \subseteq Tasks
  /\ exit \in [Tasks -> {"none", "running"} \cup ExitClass]
  /\ code \in [Tasks -> ExitClass \cup {"None"}]
  /\ escalating \subseteq Tasks
  /\ killer \in [Killers -> Tasks \cup {NoTask}]
  /\ shutPc \in {"idle", "draining", "killing", "done"}
  /\ todo \subseteq Tasks
  /\ crashes \subseteq Tasks
  /\ inFlight \subseteq Tasks

\* A task is in the queue at most once, is there exactly while it waits, and
\* its record says QUEUED.
QueueMatchesTasks ==
  /\ \A i, j \in DOMAIN queue : queue[i] = queue[j] => i = j
  /\ \A t \in Tasks : t \in Queued <=> pc[t] = "queued"
  /\ \A t \in Queued : status[t] = "QUEUED"

\* self._procs holds exactly the RUNNING tasks, whose readers are at work.
RunningHasReader ==
  /\ procs = Running
  /\ \A t \in Tasks : status[t] = "RUNNING" <=> pc[t] \in Reading

(* The queue, the task table and the process table, which spawn, the       *)
(* readers and shutdown change from different threads, agree.  A task      *)
(* listed twice would be launched twice under one identifier; kill() looks *)
(* a task up in both tables, and spawn() counts the records but relies on  *)
(* a reader to give the slot back.                                         *)
TablesAgree == QueueMatchesTasks /\ RunningHasReader

\* The tasks whose thread is bound to look at the queue again: a launch from
\* the queue unless it fails, and everything from a live process to the end
\* of its reader.  A launch straight from spawn() does not count: it may fail
\* without a trace.
Refilling(t) ==
  \/ pc[t] = "launching" /\ status[t] = "QUEUED"
  \/ pc[t] \in {"registering", "notifying", "refilling"} \cup Reading

(* Nobody polls the queue: a queued task starts only because some reader   *)
(* calls _on_task_done().  While the queue is not empty there is such a    *)
(* reader, or a launch on its way to one, unless a task taken off the      *)
(* queue could not be launched (_launch then returns and calls nobody).    *)
NoStrandedQueue ==
  queue # <<>> /\ ~shuttingDown /\ lost = {} => \E t \in Tasks : Refilling(t)

(* Where a task's thread is decides what its record and its process can    *)
(* be: the bookkeeping that the proofs of the other invariants rest on.    *)
PlaceInv ==
  \A t \in Tasks :
    /\ pc[t] \in {"idle", "refused", "admitting"} => status[t] = "absent"
    /\ pc[t] = "queued" => status[t] = "QUEUED"
    /\ pc[t] \in {"launching", "registering"} => status[t] \in {"absent", "QUEUED"}
    /\ pc[t] \in Reading => status[t] = "RUNNING"
    /\ pc[t] \in {"failed", "dropped"} \cup Closing => status[t] \in Terminal
    /\ Alive(t) => pc[t] \in {"registering"} \cup Reading \cup Closing
    /\ Alive(t) /\ pc[t] \in {"closing"} \cup Closing => t \in escalating

(* A task reported as over has a process that is over, or a SIGKILL on its *)
(* way: the reader gives up on proc.wait after five seconds and files the  *)
(* task with the process still there, trusting _escalate.                  *)
FinishedIsDeadOrDying ==
  \A t \in Tasks : status[t] \in Terminal /\ Alive(t) => t \in escalating

(* When shutdown() has returned, a process that was never signalled is one *)
(* whose spawn was already past the shutdown test when the flag was set.   *)
SurvivorWasInFlight ==
  shutPc = "done" =>
    \A t \in Tasks : Alive(t) /\ t \notin escalating => t \in inFlight

(* A terminal status is never revised, although readers, launches from the *)
(* queue and shutdown() all write it.  In particular a queued task that    *)
(* shutdown() marked KILLED is never launched.                             *)
TerminalIsFinal ==
  [][\A t \in Tasks : status[t] \in Terminal => status'[t] = status[t]]_vars

(* Every step is a step of the abstract pool: first come, first served, at *)
(* most one start and one end per task, nothing served after the closing.  *)
StageOf(place) ==
  CASE place \in {"idle", "refused", "admitting"} -> "new"
    [] place = "queued" -> "waiting"
    [] place \in {"launching", "registering"} \cup Reading -> "started"
    [] place \in {"failed", "dropped"} \cup Closing -> "ended"

Pool == INSTANCE TaskPool WITH
  stage <- [t \in Tasks |-> StageOf(pc[t])], line <- queue, open <- ~shuttingDown

ImplementsPool == Pool!PoolSpec

(* While processes end and launches from the queue succeed, a queued task  *)
(* leaves the queue: it is launched, or shutdown drops it.                 *)
QueuedTaskStarts ==
  \A t \in Tasks : pc[t] = "queued" ~> (pc[t] # "queued" \/ shuttingDown)

(* While processes end, every launched task gets to its end: its reader    *)
(* files a final status and calls on_finish.                               *)
LaunchedTaskEnds ==
  \A t \in Tasks : pc[t] = "registering" ~> pc[t] = "done"

-----------------------------------------------------------------------------
(* What spawn()'s docstring says and the code does not do: "If the         *)
(* concurrency limit has been reached, the task is queued": never more     *)
(* RUNNING tasks than max_concurrent.                                      *)
RunningWithinLimit == Cardinality(Running) <= MaxConcurrent
=============================================================================

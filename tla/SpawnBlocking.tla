--------------------------- MODULE SpawnBlocking ---------------------------
(***************************************************************************)
(* ProcessSupervisor.spawn_blocking(), the call behind /run, on top of     *)
(* Supervisor.  It spawns with an on_finish that sets an event, looks at   *)
(* the ManagedTask spawn() gave it, and waits for the event.               *)
(*                                                                         *)
(* The caller's ManagedTask is not always the one in the table: _launch()  *)
(* files a new object for a task taken off the queue, so the caller of a   *)
(* queued task keeps the QUEUED one, which only shutdown() can still mark. *)
(***************************************************************************)
EXTENDS Supervisor

CONSTANT Callers   \* the tasks spawned through spawn_blocking()

ASSUME CallersAssumption == Callers \subseteq Tasks

VARIABLES
  caller,    \* caller[t]: where the caller of spawn_blocking for t is
  answer,    \* answer[t]: the status of the ManagedTask it returned
  viaQueue   \* tasks whose spawn() returned the QUEUED object

callVars == <<caller, answer, viaQueue>>
allVars == <<vars, callVars>>

BlockingInit ==
  /\ Init
  /\ caller = [t \in Callers |-> "spawning"]
  /\ answer = [t \in Callers |-> "none"]
  /\ viaQueue = {}

\* The status the caller reads off the object spawn() gave it: the table's
\* until a launch from the queue files another.
Held(t) ==
  IF t \in viaQueue /\ pc[t] \notin {"queued", "dropped", "launching", "registering"}
  THEN "QUEUED" ELSE status[t]

Return(t, result) ==
  /\ caller' = [caller EXCEPT ![t] = "returned"]
  /\ answer' = [answer EXCEPT ![t] = result]
  /\ UNCHANGED <<vars, viaQueue>>

SpawnReturned(t) ==
  t \in viaQueue \/ pc[t] \in {"failed"} \cup Reading \cup Closing

\* "failed to start": the call returns without waiting.
ReturnAtOnce(t) ==
  /\ caller[t] = "spawning"
  /\ SpawnReturned(t)
  /\ Held(t) \notin {"RUNNING", "QUEUED"}
  /\ Return(t, Held(t))

Wait(t) ==
  /\ caller[t] = "spawning"
  /\ SpawnReturned(t)
  /\ Held(t) \in {"RUNNING", "QUEUED"}
  /\ caller' = [caller EXCEPT ![t] = "waiting"]
  /\ UNCHANGED <<vars, answer, viaQueue>>

\* on_finish has run: the event is set and task_ref holds the table's object.
EventSet(t) == pc[t] \in {"refilling", "recording", "done"}

\* Mutant of ReturnFinished: the caller returns the object spawn() gave it.
ReturnOwnObject(t) ==
  /\ caller[t] = "waiting"
  /\ EventSet(t)
  /\ Return(t, Held(t))

ReturnFinished(t) ==
  /\ caller[t] = "waiting"
  /\ EventSet(t)
  /\ Return(t, status[t])

\* Mutant of ReturnUnfinished: only a task that runs is given up on.
ReturnIfRunning(t) ==
  /\ status[t] = "RUNNING"
  /\ caller[t] = "waiting"
  /\ t \in Timed
  /\ ~EventSet(t)
  /\ Return(t, Held(t))

\* done.wait() gives up ten seconds after the task's own timeout; without a
\* timeout it never does.
ReturnUnfinished(t) ==
  /\ caller[t] = "waiting"
  /\ t \in Timed
  /\ ~EventSet(t)
  /\ Return(t, Held(t))

CallStep(t) == ReturnAtOnce(t) \/ Wait(t) \/ ReturnFinished(t) \/ ReturnUnfinished(t)

\* A step of the supervisor: the callers notice only what spawn() returns.
CallersLookOn ==
  /\ viaQueue' = viaQueue \cup {t \in Tasks : pc'[t] = "queued"}
  /\ UNCHANGED <<caller, answer>>

SupervisorStep == Next /\ CallersLookOn

BlockingNext ==
  \/ SupervisorStep
  \/ \E t \in Callers : CallStep(t)

BlockingSpec == BlockingInit /\ [][BlockingNext]_allVars

\* The supervisor's threads run on; a caller whose wait can end is woken.  That
\* processes end is not assumed: a task whose process runs on is not over.
BlockingFair ==
  /\ BlockingSpec
  /\ \A t \in Tasks : WF_allVars(ThreadStep(t) /\ CallersLookOn)
  /\ \A t \in Callers : WF_allVars(CallStep(t))

-----------------------------------------------------------------------------
(* What the caller was given is true, whichever of the two objects it was  *)
(* read from: a final status is the task's for good, and the caller of a   *)
(* task that did finish, and that saw it finish, is never told that it     *)
(* still runs (an unfinished answer means that the wait was given up on,   *)
(* on a task with a timeout).                                              *)
AnswerIsTrue ==
  \A t \in Callers :
    /\ answer[t] \in Terminal => status[t] = answer[t]
    /\ answer[t] \in {"RUNNING", "QUEUED"} => t \in Timed

(* The caller of a task that is over does not wait for ever: one that gave *)
(* a timeout however the task came to be over (finished, not launchable,   *)
(* or dropped by shutdown()), one that gave none if a reader filed it.     *)
FinishedCallReturns ==
  \A t \in Callers :
     /\ caller[t] = "waiting"
     /\ status[t] \in Terminal
     /\ t \in Timed \/ pc[t] \in Closing
     ~> caller[t] = "returned"

=============================================================================

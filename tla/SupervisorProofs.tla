-------------------------- MODULE SupervisorProofs --------------------------
(***************************************************************************)
(* Theorems about Supervisor, for every set of tasks and every limit.      *)
(***************************************************************************)
EXTENDS Supervisor, FiniteSetTheorems, TLAPS

(* What _queue.popleft() does to the set of tasks waiting: the head, and   *)
(* only the head, leaves, and no task comes to be listed twice.            *)
LEMMA TailOfDistinct ==
  ASSUME NEW S, NEW q \in Seq(S), q # <<>>,
         \A i, j \in DOMAIN q : q[i] = q[j] => i = j
  PROVE  /\ Head(q) \in S /\ Tail(q) \in Seq(S)
         /\ \E i \in DOMAIN q : q[i] = Head(q)
         /\ \A i, j \in DOMAIN Tail(q) : Tail(q)[i] = Tail(q)[j] => i = j
         /\ {Tail(q)[i] : i \in DOMAIN Tail(q)} = {q[i] : i \in DOMAIN q} \ {Head(q)}
<1>1. /\ Len(q) \in Nat \ {0} /\ DOMAIN q = 1..Len(q)
      /\ Head(q) = q[1] /\ Head(q) \in S /\ Tail(q) \in Seq(S)
  OBVIOUS
<1>2. DOMAIN Tail(q) = 1..(Len(q) - 1)
  OBVIOUS
<1>3. \A i \in 1..(Len(q) - 1) : Tail(q)[i] = q[i + 1]
  OBVIOUS
<1> DEFINE T == {Tail(q)[i] : i \in DOMAIN Tail(q)}
<1>4. ASSUME NEW v \in T PROVE v \in {q[i] : i \in DOMAIN q} \ {Head(q)}
  <2>1. PICK i \in 1..(Len(q) - 1) : v = Tail(q)[i]
    BY <1>2
  <2>2. v = q[i + 1] /\ i + 1 \in DOMAIN q /\ i + 1 # 1 /\ 1 \in DOMAIN q
    BY <1>1, <1>3, <2>1
  <2>3. QED
    BY <1>1, <2>2
<1>5. ASSUME NEW v \in {q[i] : i \in DOMAIN q} \ {Head(q)} PROVE v \in T
  <2>1. PICK i \in DOMAIN q : v = q[i]
    OBVIOUS
  <2>2. i # 1
    BY <1>1, <2>1
  <2>3. i - 1 \in 1..(Len(q) - 1) /\ (i - 1) + 1 = i
    BY <1>1, <2>1, <2>2
  <2>4. v = Tail(q)[i - 1]
    BY <1>3, <2>1, <2>3
  <2>5. QED
    BY <1>2, <2>3, <2>4
<1>6. \A i, j \in DOMAIN Tail(q) : Tail(q)[i] = Tail(q)[j] => i = j
  <2> SUFFICES ASSUME NEW i \in 1..(Len(q) - 1), NEW j \in 1..(Len(q) - 1),
                      q[i + 1] = q[j + 1]
               PROVE i = j
    BY <1>2, <1>3
  <2>1. i + 1 \in DOMAIN q /\ j + 1 \in DOMAIN q
    BY <1>1
  <2>2. QED
    BY <2>1
<1>7. \E i \in DOMAIN q : q[i] = Head(q)
  BY <1>1
<1>8. QED
  BY <1>1, <1>4, <1>5, <1>6, <1>7

(* What _queue.append() does: the appended task, and only it, joins.       *)
LEMMA AppendToDistinct ==
  ASSUME NEW S, NEW q \in Seq(S), NEW t \in S,
         \A i, j \in DOMAIN q : q[i] = q[j] => i = j,
         \A i \in DOMAIN q : q[i] # t
  PROVE  /\ Append(q, t) \in Seq(S)
         /\ \A i, j \in DOMAIN Append(q, t) :
               Append(q, t)[i] = Append(q, t)[j] => i = j
         /\ {Append(q, t)[i] : i \in DOMAIN Append(q, t)}
              = {q[i] : i \in DOMAIN q} \cup {t}
<1>1. /\ Len(q) \in Nat /\ DOMAIN q = 1..Len(q)
      /\ DOMAIN Append(q, t) = 1..(Len(q) + 1)
      /\ Append(q, t)[Len(q) + 1] = t
      /\ \A i \in 1..Len(q) : Append(q, t)[i] = q[i]
  OBVIOUS
<1>2. \A i \in 1..(Len(q) + 1) : i \in 1..Len(q) \/ i = Len(q) + 1
  BY <1>1
<1>3. \A i, j \in DOMAIN Append(q, t) : Append(q, t)[i] = Append(q, t)[j] => i = j
  BY <1>1, <1>2
<1>4. {Append(q, t)[i] : i \in DOMAIN Append(q, t)} = {q[i] : i \in DOMAIN q} \cup {t}
  <2> DEFINE A == {Append(q, t)[i] : i \in DOMAIN Append(q, t)}
  <2>1. ASSUME NEW v \in A PROVE v \in {q[i] : i \in DOMAIN q} \cup {t}
    <3>1. PICK i \in 1..(Len(q) + 1) : v = Append(q, t)[i]
      BY <1>1
    <3>2. QED
      BY <1>1, <1>2, <3>1
  <2>2. ASSUME NEW v \in {q[i] : i \in DOMAIN q} \cup {t} PROVE v \in A
    <3>1. CASE v = t
      <4>1. Len(q) + 1 \in DOMAIN Append(q, t)
        BY <1>1
      <4>2. QED
        BY <1>1, <3>1, <4>1
    <3>2. CASE v # t
      <4>1. PICK i \in 1..Len(q) : v = q[i]
        BY <1>1, <3>2
      <4>2. i \in DOMAIN Append(q, t) /\ Append(q, t)[i] = v
        BY <1>1, <4>1
      <4>3. QED
        BY <4>2
    <3>3. QED
      BY <3>1, <3>2
  <2>3. QED
    BY <2>1, <2>2
<1>5. QED
  BY <1>3, <1>4

(* The head of a queue that matches the tasks, and the queue without it.   *)
LEMMA QueueHead ==
  ASSUME TypeOK, QueueMatchesTasks, queue # <<>>
  PROVE  /\ Head(queue) \in Tasks /\ Head(queue) \in Queued
         /\ \A i, j \in DOMAIN Tail(queue) : Tail(queue)[i] = Tail(queue)[j] => i = j
         /\ {Tail(queue)[i] : i \in DOMAIN Tail(queue)} = Queued \ {Head(queue)}
<1>1. queue \in Seq(Tasks)
  BY DEF TypeOK
<1>2. \A i, j \in DOMAIN queue : queue[i] = queue[j] => i = j
  BY DEF QueueMatchesTasks
<1>3. QED
  BY <1>1, <1>2, TailOfDistinct, Zenon DEF Queued

(* The queue that matches the tasks with a task more.                      *)
LEMMA QueueAppend ==
  ASSUME TypeOK, QueueMatchesTasks, NEW t \in Tasks, t \notin Queued
  PROVE  /\ \A i, j \in DOMAIN Append(queue, t) :
               Append(queue, t)[i] = Append(queue, t)[j] => i = j
         /\ {Append(queue, t)[i] : i \in DOMAIN Append(queue, t)} = Queued \cup {t}
<1>1. queue \in Seq(Tasks)
  BY DEF TypeOK
<1>2. \A i, j \in DOMAIN queue : queue[i] = queue[j] => i = j
  BY DEF QueueMatchesTasks
<1>3. \A i \in DOMAIN queue : queue[i] # t
  BY DEF Queued
<1>4. QED
  BY <1>1, <1>2, <1>3, AppendToDistinct DEF Queued
(* Every variable keeps its type, whatever the threads do.                 *)
THEOREM TypeCorrect == Spec => []TypeOK
<1> USE SupervisorAssumption DEF TypeOK, Goto, Places, Entering, Reading, Closing,
         TaskStatus, ExitClass, Killers, queueVars, taskVars, procVars, readVars, killVars
<1>1. Init => TypeOK
  <2> SUFFICES ASSUME Init PROVE TypeOK
    OBVIOUS
  <2>1. queue \in Seq(Tasks)
    BY DEF Init
  <2>2. killer \in [Killers -> Tasks \cup {NoTask}]
    BY DEF Init
  <2>3. QED
    BY <2>1, <2>2 DEF Init
<1>2. TypeOK /\ [Next]_vars => TypeOK'
  <2> SUFFICES ASSUME TypeOK, [Next]_vars PROVE TypeOK'
    OBVIOUS
  <2>1. ASSUME NEW t \in Tasks, SpawnEnter(t) PROVE TypeOK'
    BY <2>1 DEF SpawnEnter
  <2>2. ASSUME NEW t \in Tasks, SpawnQueue(t) PROVE TypeOK'
    BY <2>2 DEF SpawnQueue
  <2>3. ASSUME NEW t \in Tasks, SpawnAdmit(t) PROVE TypeOK'
    BY <2>3 DEF SpawnAdmit
  <2>4. ASSUME NEW t \in Tasks, LaunchProcess(t) PROVE TypeOK'
    BY <2>4 DEF LaunchProcess
  <2>5. ASSUME NEW t \in Tasks, LaunchFails(t) PROVE TypeOK'
    BY <2>5 DEF LaunchFails
  <2>6. ASSUME NEW t \in Tasks, Register(t) PROVE TypeOK'
    BY <2>6 DEF Register
  <2>7. ASSUME NEW t \in Tasks, ProcessExits(t) PROVE TypeOK'
    BY <2>7 DEF ProcessExits
  <2>8. ASSUME NEW t \in Tasks, DeadlinePasses(t) PROVE TypeOK'
    BY <2>8 DEF DeadlinePasses
  <2>9. ASSUME NEW t \in Tasks, Escalate(t) PROVE TypeOK'
    BY <2>9 DEF Escalate
  <2>10. ASSUME NEW t \in Tasks, ReadPastDeadline(t) PROVE TypeOK'
    BY <2>10 DEF ReadPastDeadline, Signal
  <2>11. ASSUME NEW t \in Tasks, ReadEof(t) PROVE TypeOK'
    BY <2>11 DEF ReadEof
  <2>12. ASSUME NEW t \in Tasks, WaitReturns(t) PROVE TypeOK'
    BY <2>12 DEF WaitReturns, Alive
  <2>13. ASSUME NEW t \in Tasks, WaitExpires(t) PROVE TypeOK'
    BY <2>13 DEF WaitExpires, Signal
  <2>14. ASSUME NEW t \in Tasks, Finish(t) PROVE TypeOK'
    BY <2>14 DEF Finish, FinalStatus
  <2>15. ASSUME NEW t \in Tasks, Notify(t) PROVE TypeOK'
    BY <2>15 DEF Notify
  <2>16. ASSUME NEW t \in Tasks, OnTaskDone(t) PROVE TypeOK'
    <3>1. CASE queue = <<>> \/ shuttingDown
      BY <2>16, <3>1 DEF OnTaskDone
    <3>2. CASE ~(queue = <<>> \/ shuttingDown)
      <4>1. Head(queue) \in Tasks /\ Tail(queue) \in Seq(Tasks)
        BY <3>2
      <4>2. QED
        BY <2>16, <3>2, <4>1 DEF OnTaskDone
    <3>3. QED
      BY <3>1, <3>2
  <2>17. ASSUME NEW t \in Tasks, RecordCrash(t) PROVE TypeOK'
    BY <2>17 DEF RecordCrash
  <2>18. ASSUME NEW t \in Tasks, KillCheck(t) PROVE TypeOK'
    BY <2>18 DEF KillCheck
  <2>19. ASSUME NEW t \in Tasks, ShutdownKill(t) PROVE TypeOK'
    BY <2>19 DEF ShutdownKill, Killable
  <2>20. ASSUME NEW k \in Killers, KillSignal(k) PROVE TypeOK'
    BY <2>20 DEF KillSignal, Signal
  <2>21. ASSUME ShutdownBegin PROVE TypeOK'
    BY <2>21 DEF ShutdownBegin
  <2>22. ASSUME ShutdownKillAll PROVE TypeOK'
    BY <2>22 DEF ShutdownKillAll, Running
  <2>23. ASSUME ShutdownEnd PROVE TypeOK'
    BY <2>23 DEF ShutdownEnd
  <2>24. CASE UNCHANGED vars
    BY <2>24 DEF vars
  <2>25. QED
    BY <2>1, <2>2, <2>3, <2>4, <2>5, <2>6, <2>7, <2>8, <2>9, <2>10, <2>11, <2>12, <2>13, <2>14, <2>15, <2>16, <2>17, <2>18, <2>19, <2>20, <2>21, <2>22, <2>23, <2>24
       DEF Next, SpawnStep, LaunchStep, OutsideStep, ReadStep, WaitStep, CloseStep, ShutdownStep
<1>3. QED
  BY <1>1, <1>2, PTL DEF Spec

-----------------------------------------------------------------------------
\* What holds of the two tables, the queue and the places together.
TableInv == PlaceInv /\ QueueMatchesTasks /\ RunningHasReader

(* _on_task_done() keeps the tables together: the task it takes off the    *)
(* queue is one that waits, and stops being listed.                        *)
LEMMA DequeueKeepsTables ==
  ASSUME TypeOK, TableInv, NEW t \in Tasks, OnTaskDone(t)
  PROVE  TableInv'
<1>1. CASE queue = <<>> \/ shuttingDown
  <2>1. /\ UNCHANGED <<queue, status, procs, exit, escalating>>
        /\ pc[t] = "refilling" /\ pc' = [pc EXCEPT ![t] = "recording"]
    BY <1>1 DEF OnTaskDone, Goto, taskVars, procVars
  <2>2. QueueMatchesTasks'
    BY <2>1 DEF TypeOK, TableInv, QueueMatchesTasks, Queued
  <2>3. PlaceInv' /\ RunningHasReader'
    BY <2>1 DEF TypeOK, TableInv, PlaceInv, RunningHasReader, Running, Alive, Reading, Closing
  <2>4. QED
    BY <2>2, <2>3 DEF TableInv
<1>2. CASE ~(queue = <<>> \/ shuttingDown)
  <2> DEFINE u == Head(queue)
  <2>1. /\ u \in Tasks /\ u \in Queued
        /\ \A i, j \in DOMAIN Tail(queue) : Tail(queue)[i] = Tail(queue)[j] => i = j
        /\ {Tail(queue)[i] : i \in DOMAIN Tail(queue)} = Queued \ {u}
    BY <1>2, QueueHead DEF TableInv
  <2>2. /\ queue' = Tail(queue)
        /\ pc[t] = "refilling"
        /\ pc' = [pc EXCEPT ![t] = "recording", ![u] = "launching"]
        /\ UNCHANGED <<status, procs, exit, escalating>>
    BY <1>2 DEF OnTaskDone, taskVars, procVars
  <2>3. Queued' = Queued \ {u}
    BY <2>1, <2>2 DEF Queued
  <2>4. \A i, j \in DOMAIN queue' : queue'[i] = queue'[j] => i = j
    BY <2>1, <2>2
  <2> HIDE DEF u
  <2>5. status[u] = "QUEUED" /\ pc[u] = "queued" /\ u # t
    BY <2>1, <2>2 DEF TableInv, QueueMatchesTasks
  <2>6. QueueMatchesTasks'
    BY <2>1, <2>2, <2>3, <2>4, <2>5 DEF TypeOK, TableInv, QueueMatchesTasks
  <2>7. PlaceInv' /\ RunningHasReader'
    BY <2>1, <2>2, <2>5
       DEF TypeOK, TableInv, PlaceInv, RunningHasReader, Running, Alive, Reading, Closing
  <2>8. QED
    BY <2>6, <2>7 DEF TableInv
<1>3. QED
  BY <1>1, <1>2

(* The branch of spawn() that queues does too: the task it appends was not *)
(* waiting yet.                                                            *)
LEMMA EnqueueKeepsTables ==
  ASSUME TypeOK, TableInv, NEW t \in Tasks, SpawnQueue(t)
  PROVE  TableInv'
<1>1. /\ queue' = Append(queue, t)
      /\ pc[t] = "admitting" /\ pc' = [pc EXCEPT ![t] = "queued"]
      /\ status' = [status EXCEPT ![t] = "QUEUED"]
      /\ UNCHANGED <<procs, exit, escalating>>
  BY DEF SpawnQueue, Goto, procVars
<1>2. t \notin Queued
  BY <1>1 DEF TableInv, QueueMatchesTasks
<1>3. /\ \A i, j \in DOMAIN queue' : queue'[i] = queue'[j] => i = j
      /\ {queue'[i] : i \in DOMAIN queue'} = Queued \cup {t}
  BY <1>1, <1>2, QueueAppend DEF TableInv
<1>4. Queued' = Queued \cup {t}
  BY <1>3 DEF Queued
<1>5. QueueMatchesTasks'
  BY <1>1, <1>3, <1>4 DEF TypeOK, TableInv, QueueMatchesTasks
<1>6. PlaceInv' /\ RunningHasReader'
  BY <1>1 DEF TypeOK, TableInv, PlaceInv, RunningHasReader, Running, Alive, Reading, Closing
<1>7. QED
  BY <1>5, <1>6 DEF TableInv
(* The strengthening that is inductive: the threads' places, too, agree    *)
(* with the tables.                                                        *)
THEOREM TableInvariant == Spec => []TableInv
<1> USE SupervisorAssumption DEF TableInv, PlaceInv, QueueMatchesTasks, RunningHasReader,
         Queued, Running, Alive, Terminal, TypeOK, Goto, Places, Entering, Reading, Closing,
         TaskStatus, ExitClass, queueVars, taskVars, procVars, readVars, killVars
<1>1. Init => TableInv
  BY DEF Init
<1>2. TypeOK /\ TableInv /\ [Next]_vars => TableInv'
  <2> SUFFICES ASSUME TypeOK, TableInv, [Next]_vars PROVE TableInv'
    OBVIOUS
  <2>1. ASSUME NEW t \in Tasks, SpawnEnter(t) PROVE TableInv'
    BY <2>1 DEF SpawnEnter
  <2>2. ASSUME NEW t \in Tasks, SpawnQueue(t) PROVE TableInv'
    BY <2>2, EnqueueKeepsTables
  <2>3. ASSUME NEW t \in Tasks, SpawnAdmit(t) PROVE TableInv'
    BY <2>3 DEF SpawnAdmit
  <2>4. ASSUME NEW t \in Tasks, LaunchProcess(t) PROVE TableInv'
    BY <2>4 DEF LaunchProcess
  <2>5. ASSUME NEW t \in Tasks, LaunchFails(t) PROVE TableInv'
    BY <2>5 DEF LaunchFails
  <2>6. ASSUME NEW t \in Tasks, Register(t) PROVE TableInv'
    BY <2>6 DEF Register
  <2>7. ASSUME NEW t \in Tasks, ProcessExits(t) PROVE TableInv'
    BY <2>7 DEF ProcessExits
  <2>8. ASSUME NEW t \in Tasks, DeadlinePasses(t) PROVE TableInv'
    BY <2>8 DEF DeadlinePasses
  <2>9. ASSUME NEW t \in Tasks, Escalate(t) PROVE TableInv'
    BY <2>9 DEF Escalate
  <2>10. ASSUME NEW t \in Tasks, ReadPastDeadline(t) PROVE TableInv'
    BY <2>10 DEF ReadPastDeadline, Signal
  <2>11. ASSUME NEW t \in Tasks, ReadEof(t) PROVE TableInv'
    BY <2>11 DEF ReadEof
  <2>12. ASSUME NEW t \in Tasks, WaitReturns(t) PROVE TableInv'
    BY <2>12 DEF WaitReturns
  <2>13. ASSUME NEW t \in Tasks, WaitExpires(t) PROVE TableInv'
    BY <2>13 DEF WaitExpires, Signal
  <2>14. ASSUME NEW t \in Tasks, Finish(t) PROVE TableInv'
    BY <2>14 DEF Finish, FinalStatus
  <2>15. ASSUME NEW t \in Tasks, Notify(t) PROVE TableInv'
    BY <2>15 DEF Notify
  <2>16. ASSUME NEW t \in Tasks, OnTaskDone(t) PROVE TableInv'
    BY <2>16, DequeueKeepsTables
  <2>17. ASSUME NEW t \in Tasks, RecordCrash(t) PROVE TableInv'
    BY <2>17 DEF RecordCrash
  <2>18. ASSUME NEW t \in Tasks, KillCheck(t) PROVE TableInv'
    BY <2>18 DEF KillCheck
  <2>19. ASSUME NEW t \in Tasks, ShutdownKill(t) PROVE TableInv'
    BY <2>19 DEF ShutdownKill, Killable
  <2>20. ASSUME NEW k \in Killers, KillSignal(k) PROVE TableInv'
    BY <2>20 DEF KillSignal, Signal
  <2>21. ASSUME ShutdownBegin PROVE TableInv'
    BY <2>21 DEF ShutdownBegin
  <2>22. ASSUME ShutdownKillAll PROVE TableInv'
    BY <2>22 DEF ShutdownKillAll
  <2>23. ASSUME ShutdownEnd PROVE TableInv'
    BY <2>23 DEF ShutdownEnd
  <2>24. CASE UNCHANGED vars
    BY <2>24 DEF vars
  <2>25. QED
    BY <2>1, <2>2, <2>3, <2>4, <2>5, <2>6, <2>7, <2>8, <2>9, <2>10, <2>11, <2>12, <2>13, <2>14, <2>15, <2>16, <2>17, <2>18, <2>19, <2>20, <2>21, <2>22, <2>23, <2>24
       DEF Next, SpawnStep, LaunchStep, OutsideStep, ReadStep, WaitStep, CloseStep, ShutdownStep
<1>3. QED
  BY <1>1, <1>2, TypeCorrect, PTL DEF Spec

(* The task table, the process table and the queue agree at every step.    *)
THEOREM TableCorrect == Spec => []TablesAgree
<1>1. TableInv => TablesAgree
  BY DEF TableInv, TablesAgree
<1>2. QED
  BY <1>1, TableInvariant, PTL

(* A finished task's process is gone, or its SIGKILL is on the way.        *)
THEOREM FinishedDies == Spec => []FinishedIsDeadOrDying
<1>1. TypeOK /\ TableInv => FinishedIsDeadOrDying
  BY DEF TypeOK, TableInv, PlaceInv, FinishedIsDeadOrDying, Terminal, TaskStatus,
         Places, Entering, Reading, Closing
<1>2. QED
  BY <1>1, TypeCorrect, TableInvariant, PTL

(* No step revises a terminal status: the five that write one write the    *)
(* record of a task that has none yet, that waits or that runs.            *)
THEOREM TerminalStatusFinal == Spec => TerminalIsFinal
<1> USE DEF TypeOK, TableInv, PlaceInv, QueueMatchesTasks, Queued, Terminal, TaskStatus,
            Reading, Goto, taskVars
<1> DEFINE Kept == \A t \in Tasks : status[t] \in Terminal => status'[t] = status[t]
<1>1. TypeOK /\ TableInv /\ [Next]_vars => [Kept]_vars
  <2> SUFFICES ASSUME TypeOK, TableInv, [Next]_vars PROVE Kept
    OBVIOUS
  <2>1. ASSUME NEW t \in Tasks, SpawnEnter(t) PROVE Kept
    BY <2>1 DEF SpawnEnter
  <2>2. ASSUME NEW t \in Tasks, SpawnQueue(t) PROVE Kept
    BY <2>2 DEF SpawnQueue
  <2>3. ASSUME NEW t \in Tasks, SpawnAdmit(t) PROVE Kept
    BY <2>3 DEF SpawnAdmit
  <2>4. ASSUME NEW t \in Tasks, LaunchProcess(t) PROVE Kept
    BY <2>4 DEF LaunchProcess
  <2>5. ASSUME NEW t \in Tasks, LaunchFails(t) PROVE Kept
    BY <2>5 DEF LaunchFails
  <2>6. ASSUME NEW t \in Tasks, Register(t) PROVE Kept
    BY <2>6 DEF Register
  <2>7. ASSUME NEW t \in Tasks, ProcessExits(t) PROVE Kept
    BY <2>7 DEF ProcessExits
  <2>8. ASSUME NEW t \in Tasks, DeadlinePasses(t) PROVE Kept
    BY <2>8 DEF DeadlinePasses
  <2>9. ASSUME NEW t \in Tasks, Escalate(t) PROVE Kept
    BY <2>9 DEF Escalate
  <2>10. ASSUME NEW t \in Tasks, ReadPastDeadline(t) PROVE Kept
    BY <2>10 DEF ReadPastDeadline
  <2>11. ASSUME NEW t \in Tasks, ReadEof(t) PROVE Kept
    BY <2>11 DEF ReadEof
  <2>12. ASSUME NEW t \in Tasks, WaitReturns(t) PROVE Kept
    BY <2>12 DEF WaitReturns
  <2>13. ASSUME NEW t \in Tasks, WaitExpires(t) PROVE Kept
    BY <2>13 DEF WaitExpires
  <2>14. ASSUME NEW t \in Tasks, Finish(t) PROVE Kept
    BY <2>14 DEF Finish
  <2>15. ASSUME NEW t \in Tasks, Notify(t) PROVE Kept
    BY <2>15 DEF Notify
  <2>16. ASSUME NEW t \in Tasks, OnTaskDone(t) PROVE Kept
    BY <2>16 DEF OnTaskDone
  <2>17. ASSUME NEW t \in Tasks, RecordCrash(t) PROVE Kept
    BY <2>17 DEF RecordCrash
  <2>18. ASSUME NEW t \in Tasks, KillCheck(t) PROVE Kept
    BY <2>18 DEF KillCheck
  <2>19. ASSUME NEW t \in Tasks, ShutdownKill(t) PROVE Kept
    BY <2>19 DEF ShutdownKill
  <2>20. ASSUME NEW k \in Killers, KillSignal(k) PROVE Kept
    BY <2>20 DEF KillSignal
  <2>21. ASSUME ShutdownBegin PROVE Kept
    BY <2>21 DEF ShutdownBegin
  <2>22. ASSUME ShutdownKillAll PROVE Kept
    BY <2>22 DEF ShutdownKillAll
  <2>23. ASSUME ShutdownEnd PROVE Kept
    BY <2>23 DEF ShutdownEnd
  <2>24. CASE UNCHANGED vars
    BY <2>24 DEF vars
  <2>25. QED
    BY <2>1, <2>2, <2>3, <2>4, <2>5, <2>6, <2>7, <2>8, <2>9, <2>10, <2>11, <2>12, <2>13, <2>14, <2>15, <2>16, <2>17, <2>18, <2>19, <2>20, <2>21, <2>22, <2>23, <2>24
       DEF Next, SpawnStep, LaunchStep, OutsideStep, ReadStep, WaitStep, CloseStep, ShutdownStep
<1>2. QED
  BY <1>1, TypeCorrect, TableInvariant, PTL DEF Spec, TerminalIsFinal, Kept

(* While a task waits and no launch from the queue has failed, some thread *)
(* is bound to look at the queue again.  A task joins the queue only while *)
(* another runs; a reader that takes a task off the queue hands its duty   *)
(* on to that task.                                                        *)
THEOREM NoneStranded == Spec => []NoStrandedQueue
<1> USE SupervisorAssumption DEF TypeOK, TableInv, PlaceInv, RunningHasReader, NoStrandedQueue,
         Refilling, Reading, Goto, queueVars, taskVars, procVars, readVars, killVars
<1>1. Init => NoStrandedQueue
  BY DEF Init
<1>2. TypeOK /\ TableInv /\ NoStrandedQueue /\ [Next]_vars => NoStrandedQueue'
  <2> SUFFICES ASSUME TypeOK, TableInv, NoStrandedQueue, [Next]_vars PROVE NoStrandedQueue'
    OBVIOUS
  <2>1. ASSUME NEW t \in Tasks, SpawnEnter(t) PROVE NoStrandedQueue'
    BY <2>1 DEF SpawnEnter
  <2>2. ASSUME NEW t \in Tasks, SpawnQueue(t) PROVE NoStrandedQueue'
    <3>1. Running # {}
      <4>1. Cardinality(Running) >= MaxConcurrent
        BY <2>2 DEF SpawnQueue
      <4>2. Cardinality({}) = 0
        BY FS_EmptySet, Zenon
      <4>3. Running # {}
        <5> SUFFICES ASSUME Running = {} PROVE FALSE
          OBVIOUS
        <5>1. Cardinality(Running) = 0
          BY <4>2, Zenon
        <5>2. MaxConcurrent >= 1
          OBVIOUS
        <5> QED
          BY <4>1, <5>1, <5>2
      <4>4. QED
        BY <4>3
    <3>2. PICK w \in Tasks : status[w] = "RUNNING"
      BY <3>1 DEF Running
    <3>3. w # t /\ pc'[w] \in Reading
      BY <2>2, <3>2 DEF SpawnQueue
    <3>4. QED
      BY <3>3
  <2>3. ASSUME NEW t \in Tasks, SpawnAdmit(t) PROVE NoStrandedQueue'
    BY <2>3 DEF SpawnAdmit
  <2>4. ASSUME NEW t \in Tasks, LaunchProcess(t) PROVE NoStrandedQueue'
    BY <2>4 DEF LaunchProcess
  <2>5. ASSUME NEW t \in Tasks, LaunchFails(t) PROVE NoStrandedQueue'
    BY <2>5 DEF LaunchFails
  <2>6. ASSUME NEW t \in Tasks, Register(t) PROVE NoStrandedQueue'
    BY <2>6 DEF Register
  <2>7. ASSUME NEW t \in Tasks, ProcessExits(t) PROVE NoStrandedQueue'
    BY <2>7 DEF ProcessExits
  <2>8. ASSUME NEW t \in Tasks, DeadlinePasses(t) PROVE NoStrandedQueue'
    BY <2>8 DEF DeadlinePasses
  <2>9. ASSUME NEW t \in Tasks, Escalate(t) PROVE NoStrandedQueue'
    BY <2>9 DEF Escalate
  <2>10. ASSUME NEW t \in Tasks, ReadPastDeadline(t) PROVE NoStrandedQueue'
    BY <2>10 DEF ReadPastDeadline
  <2>11. ASSUME NEW t \in Tasks, ReadEof(t) PROVE NoStrandedQueue'
    BY <2>11 DEF ReadEof
  <2>12. ASSUME NEW t \in Tasks, WaitReturns(t) PROVE NoStrandedQueue'
    BY <2>12 DEF WaitReturns
  <2>13. ASSUME NEW t \in Tasks, WaitExpires(t) PROVE NoStrandedQueue'
    BY <2>13 DEF WaitExpires
  <2>14. ASSUME NEW t \in Tasks, Finish(t) PROVE NoStrandedQueue'
    BY <2>14 DEF Finish
  <2>15. ASSUME NEW t \in Tasks, Notify(t) PROVE NoStrandedQueue'
    BY <2>15 DEF Notify
  <2>16. ASSUME NEW t \in Tasks, OnTaskDone(t) PROVE NoStrandedQueue'
    <3>1. CASE queue = <<>> \/ shuttingDown
      BY <2>16, <3>1 DEF OnTaskDone
    <3>2. CASE ~(queue = <<>> \/ shuttingDown)
      <4>1. Head(queue) \in Tasks /\ Head(queue) \in Queued
        BY <3>2, QueueHead
      <4>2. status[Head(queue)] = "QUEUED" /\ pc[Head(queue)] = "queued"
        BY <4>1 DEF QueueMatchesTasks
      <4>3. pc'[Head(queue)] = "launching" /\ status'[Head(queue)] = "QUEUED"
        BY <2>16, <3>2, <4>1, <4>2 DEF OnTaskDone
      <4>4. QED
        BY <4>1, <4>3
    <3>3. QED
      BY <3>1, <3>2
  <2>17. ASSUME NEW t \in Tasks, RecordCrash(t) PROVE NoStrandedQueue'
    BY <2>17 DEF RecordCrash
  <2>18. ASSUME NEW t \in Tasks, KillCheck(t) PROVE NoStrandedQueue'
    BY <2>18 DEF KillCheck
  <2>19. ASSUME NEW t \in Tasks, ShutdownKill(t) PROVE NoStrandedQueue'
    BY <2>19 DEF ShutdownKill
  <2>20. ASSUME NEW k \in Killers, KillSignal(k) PROVE NoStrandedQueue'
    BY <2>20 DEF KillSignal
  <2>21. ASSUME ShutdownBegin PROVE NoStrandedQueue'
    BY <2>21 DEF ShutdownBegin
  <2>22. ASSUME ShutdownKillAll PROVE NoStrandedQueue'
    BY <2>22 DEF ShutdownKillAll
  <2>23. ASSUME ShutdownEnd PROVE NoStrandedQueue'
    BY <2>23 DEF ShutdownEnd
  <2>24. CASE UNCHANGED vars
    BY <2>24 DEF vars
  <2>25. QED
    BY <2>1, <2>2, <2>3, <2>4, <2>5, <2>6, <2>7, <2>8, <2>9, <2>10, <2>11, <2>12, <2>13, <2>14, <2>15, <2>16, <2>17, <2>18, <2>19, <2>20, <2>21, <2>22, <2>23, <2>24
       DEF Next, SpawnStep, LaunchStep, OutsideStep, ReadStep, WaitStep, CloseStep, ShutdownStep
<1>3. QED
  BY <1>1, <1>2, TypeCorrect, TableInvariant, PTL DEF Spec

-----------------------------------------------------------------------------
\* The flag and the caller of shutdown() agree; a spawn that is not in flight
\* when the flag is set never gets past the door; and what such a spawn left
\* running is on the list of kill_all(), in its hands, or signalled.
DoorInv == shuttingDown <=> shutPc # "idle"

ShutdownInv ==
  /\ DoorInv
  /\ shuttingDown => \A t \in Tasks \ inFlight : pc[t] \notin Entering
  /\ shutPc = "killing" =>
       \A t \in Tasks \ inFlight :
          Alive(t) /\ t \notin escalating => t \in todo \/ killer["shutdown"] = t
  /\ SurvivorWasInFlight

(* The bookkeeping of shutdown(), of which SurvivorWasInFlight is a part:  *)
(* what it leaves unsignalled was between two critical sections of *)
(* spawn() when the flag was set.                                          *)
THEOREM ShutdownCorrect == Spec => []ShutdownInv
<1> USE SupervisorAssumption DEF TypeOK, TableInv, PlaceInv, RunningHasReader, Running,
         QueueMatchesTasks, ShutdownInv, DoorInv, SurvivorWasInFlight, Alive, Entering, Reading,
         Closing, Killers, Goto, queueVars, taskVars, procVars, readVars, killVars
<1>1. Init => ShutdownInv
  BY DEF Init
<1>2. TypeOK /\ TableInv /\ ShutdownInv /\ [Next]_vars => ShutdownInv'
  <2> SUFFICES ASSUME TypeOK, TableInv, ShutdownInv, [Next]_vars PROVE ShutdownInv'
    OBVIOUS
  <2>1. ASSUME NEW t \in Tasks, SpawnEnter(t) PROVE ShutdownInv'
    BY <2>1 DEF SpawnEnter
  <2>2. ASSUME NEW t \in Tasks, SpawnQueue(t) PROVE ShutdownInv'
    BY <2>2 DEF SpawnQueue
  <2>3. ASSUME NEW t \in Tasks, SpawnAdmit(t) PROVE ShutdownInv'
    BY <2>3 DEF SpawnAdmit
  <2>4. ASSUME NEW t \in Tasks, LaunchProcess(t) PROVE ShutdownInv'
    BY <2>4 DEF LaunchProcess
  <2>5. ASSUME NEW t \in Tasks, LaunchFails(t) PROVE ShutdownInv'
    BY <2>5 DEF LaunchFails
  <2>6. ASSUME NEW t \in Tasks, Register(t) PROVE ShutdownInv'
    BY <2>6 DEF Register
  <2>7. ASSUME NEW t \in Tasks, ProcessExits(t) PROVE ShutdownInv'
    BY <2>7 DEF ProcessExits, ExitClass
  <2>8. ASSUME NEW t \in Tasks, DeadlinePasses(t) PROVE ShutdownInv'
    BY <2>8 DEF DeadlinePasses
  <2>9. ASSUME NEW t \in Tasks, Escalate(t) PROVE ShutdownInv'
    BY <2>9 DEF Escalate, ExitClass
  <2>10. ASSUME NEW t \in Tasks, ReadPastDeadline(t) PROVE ShutdownInv'
    BY <2>10 DEF ReadPastDeadline, Signal
  <2>11. ASSUME NEW t \in Tasks, ReadEof(t) PROVE ShutdownInv'
    BY <2>11 DEF ReadEof
  <2>12. ASSUME NEW t \in Tasks, WaitReturns(t) PROVE ShutdownInv'
    BY <2>12 DEF WaitReturns, ExitClass
  <2>13. ASSUME NEW t \in Tasks, WaitExpires(t) PROVE ShutdownInv'
    BY <2>13 DEF WaitExpires, Signal
  <2>14. ASSUME NEW t \in Tasks, Finish(t) PROVE ShutdownInv'
    BY <2>14 DEF Finish
  <2>15. ASSUME NEW t \in Tasks, Notify(t) PROVE ShutdownInv'
    BY <2>15 DEF Notify
  <2>16. ASSUME NEW t \in Tasks, OnTaskDone(t) PROVE ShutdownInv'
    <3>1. CASE queue = <<>> \/ shuttingDown
      BY <2>16, <3>1 DEF OnTaskDone
    <3>2. CASE ~(queue = <<>> \/ shuttingDown)
      BY <2>16, <3>2 DEF OnTaskDone
    <3>3. QED
      BY <3>1, <3>2
  <2>17. ASSUME NEW t \in Tasks, RecordCrash(t) PROVE ShutdownInv'
    BY <2>17 DEF RecordCrash
  <2>18. ASSUME NEW t \in Tasks, KillCheck(t) PROVE ShutdownInv'
    BY <2>18 DEF KillCheck
  <2>19. ASSUME NEW t \in Tasks, ShutdownKill(t) PROVE ShutdownInv'
    BY <2>19 DEF ShutdownKill, Killable
  <2>20. ASSUME NEW k \in Killers, KillSignal(k) PROVE ShutdownInv'
    BY <2>20 DEF KillSignal, Signal
  <2>21. ASSUME ShutdownBegin PROVE ShutdownInv'
    BY <2>21 DEF ShutdownBegin
  <2>22. ASSUME ShutdownKillAll PROVE ShutdownInv'
    BY <2>22 DEF ShutdownKillAll, Places
  <2>23. ASSUME ShutdownEnd PROVE ShutdownInv'
    BY <2>23 DEF ShutdownEnd
  <2>24. CASE UNCHANGED vars
    BY <2>24 DEF vars
  <2>25. QED
    BY <2>1, <2>2, <2>3, <2>4, <2>5, <2>6, <2>7, <2>8, <2>9, <2>10, <2>11, <2>12, <2>13, <2>14, <2>15, <2>16, <2>17, <2>18, <2>19, <2>20, <2>21, <2>22, <2>23, <2>24
       DEF Next, SpawnStep, LaunchStep, OutsideStep, ReadStep, WaitStep, CloseStep, ShutdownStep
<1>3. QED
  BY <1>1, <1>2, TypeCorrect, TableInvariant, PTL DEF Spec

(* What shutdown() leaves unsignalled was between two critical sections of *)
(* spawn() when the flag was set.                                          *)
THEOREM SurvivorsWereInFlight == Spec => []SurvivorWasInFlight
<1>1. ShutdownInv => SurvivorWasInFlight
  BY DEF ShutdownInv
<1>2. QED
  BY <1>1, ShutdownCorrect, PTL

-----------------------------------------------------------------------------
(* The pool's view of a step that moves one task's thread.                 *)
LEMMA MoveStage ==
  ASSUME TypeOK, NEW t \in Tasks, NEW p \in Places, pc' = [pc EXCEPT ![t] = p]
  PROVE  /\ pc'[t] = p /\ \A u \in Tasks : u # t => pc'[u] = pc[u]
         /\ [u \in Tasks |-> StageOf(pc'[u])]
              = [[u \in Tasks |-> StageOf(pc[u])] EXCEPT ![t] = StageOf(p)]
BY DEF TypeOK

(* A step that leaves the queue alone and moves one task's thread within   *)
(* a stage is no step of the pool.                                         *)
LEMMA SameStage ==
  ASSUME TypeOK, NEW t \in Tasks, NEW p \in Places, pc' = [pc EXCEPT ![t] = p],
         StageOf(pc[t]) = StageOf(p), UNCHANGED queueVars
  PROVE  UNCHANGED Pool!poolVars
<1>1. \A u \in Tasks : StageOf(pc'[u]) = StageOf(pc[u])
  BY DEF TypeOK
<1>2. [u \in Tasks |-> StageOf(pc'[u])] = [u \in Tasks |-> StageOf(pc[u])]
  BY <1>1
<1>3. QED
  BY <1>2 DEF queueVars, Pool!poolVars

(* The supervisor implements the pool: its tasks start and end at most     *)
(* once, those that wait start in the order they came, and none of them    *)
(* starts once the pool is closed.  Every step of the code is one step of  *)
(* the pool or none.                                                       *)
THEOREM SupervisorImplementsPool == Spec => ImplementsPool
<1> DEFINE Mapped == [Pool!PoolNext]_(Pool!poolVars)
<1>1. Init => Pool!PoolInit
  <2> SUFFICES ASSUME Init PROVE Pool!PoolInit
    OBVIOUS
  <2>1. [t \in Tasks |-> StageOf(pc[t])] = [t \in Tasks |-> "new"]
    <3>1. StageOf("idle") = "new"
      BY DEF StageOf, Reading, Closing
    <3>2. \A t \in Tasks : StageOf(pc[t]) = "new"
      BY <3>1 DEF Init
    <3>3. QED
      BY <3>2
  <2>2. queue = <<>> /\ (~shuttingDown) = TRUE
    BY DEF Init
  <2>3. QED
    BY <2>1, <2>2 DEF Pool!PoolInit
<1>2. TypeOK /\ TableInv /\ DoorInv /\ [Next]_vars => Mapped
  <2> SUFFICES ASSUME TypeOK, TableInv, DoorInv, [Next]_vars PROVE Mapped
    OBVIOUS
  <2> USE DEF Pool!poolVars, Places, Entering, Reading, Closing, Goto, queueVars
  <2>1. ASSUME NEW t \in Tasks, SpawnEnter(t) PROVE Mapped
    <3>1. PICK p \in {"refused", "admitting"} : pc' = [pc EXCEPT ![t] = p]
      BY <2>1 DEF SpawnEnter
    <3>2. StageOf(p) = StageOf(pc[t])
      BY <2>1, <3>1 DEF SpawnEnter, StageOf
    <3>3. QED
      BY <2>1, <3>1, <3>2, SameStage DEF SpawnEnter
  <2>2. ASSUME NEW t \in Tasks, SpawnQueue(t) PROVE Mapped
    <3>1. /\ StageOf(pc[t]) = "new" /\ StageOf("queued") = "waiting"
          /\ pc' = [pc EXCEPT ![t] = "queued"]
      BY <2>2 DEF SpawnQueue, StageOf
    <3>2. Pool!JoinLine(t)
      BY <2>2, <3>1, MoveStage DEF SpawnQueue, Pool!JoinLine
    <3>3. QED
      BY <3>2 DEF Pool!PoolNext
  <2>3. ASSUME NEW t \in Tasks, SpawnAdmit(t) PROVE Mapped
    <3>1. /\ StageOf(pc[t]) = "new" /\ StageOf("launching") = "started"
          /\ pc' = [pc EXCEPT ![t] = "launching"]
      BY <2>3 DEF SpawnAdmit, StageOf
    <3>2. Pool!StartAtOnce(t)
      BY <2>3, <3>1, MoveStage DEF SpawnAdmit, Pool!StartAtOnce
    <3>3. QED
      BY <3>2 DEF Pool!PoolNext
  <2>4. ASSUME NEW t \in Tasks, LaunchProcess(t) PROVE Mapped
    <3>1. /\ pc' = [pc EXCEPT ![t] = "registering"] /\ StageOf(pc[t]) = StageOf("registering")
          /\ UNCHANGED queueVars
      BY <2>4 DEF LaunchProcess, StageOf
    <3>2. QED
      BY <3>1, SameStage
  <2>5. ASSUME NEW t \in Tasks, LaunchFails(t) PROVE Mapped
    <3>1. /\ StageOf(pc[t]) = "started" /\ StageOf("failed") = "ended"
          /\ pc' = [pc EXCEPT ![t] = "failed"]
      BY <2>5 DEF LaunchFails, StageOf
    <3>2. Pool!End(t)
      BY <2>5, <3>1, MoveStage DEF LaunchFails, Pool!End
    <3>3. QED
      BY <3>2 DEF Pool!PoolNext
  <2>6. ASSUME NEW t \in Tasks, Register(t) PROVE Mapped
    <3>1. /\ pc' = [pc EXCEPT ![t] = "reading"] /\ StageOf(pc[t]) = StageOf("reading")
          /\ UNCHANGED queueVars
      BY <2>6 DEF Register, StageOf
    <3>2. QED
      BY <3>1, SameStage
  <2>7. ASSUME NEW t \in Tasks, ProcessExits(t) PROVE Mapped
    BY <2>7 DEF ProcessExits
  <2>8. ASSUME NEW t \in Tasks, DeadlinePasses(t) PROVE Mapped
    BY <2>8 DEF DeadlinePasses
  <2>9. ASSUME NEW t \in Tasks, Escalate(t) PROVE Mapped
    BY <2>9 DEF Escalate
  <2>10. ASSUME NEW t \in Tasks, ReadPastDeadline(t) PROVE Mapped
    <3>1. /\ pc' = [pc EXCEPT ![t] = "waiting"] /\ StageOf(pc[t]) = StageOf("waiting")
          /\ UNCHANGED queueVars
      BY <2>10 DEF ReadPastDeadline, StageOf
    <3>2. QED
      BY <3>1, SameStage
  <2>11. ASSUME NEW t \in Tasks, ReadEof(t) PROVE Mapped
    <3>1. /\ pc' = [pc EXCEPT ![t] = "waiting"] /\ StageOf(pc[t]) = StageOf("waiting")
          /\ UNCHANGED queueVars
      BY <2>11 DEF ReadEof, StageOf
    <3>2. QED
      BY <3>1, SameStage
  <2>12. ASSUME NEW t \in Tasks, WaitReturns(t) PROVE Mapped
    <3>1. /\ pc' = [pc EXCEPT ![t] = "closing"] /\ StageOf(pc[t]) = StageOf("closing")
          /\ UNCHANGED queueVars
      BY <2>12 DEF WaitReturns, StageOf
    <3>2. QED
      BY <3>1, SameStage
  <2>13. ASSUME NEW t \in Tasks, WaitExpires(t) PROVE Mapped
    <3>1. /\ pc' = [pc EXCEPT ![t] = "closing"] /\ StageOf(pc[t]) = StageOf("closing")
          /\ UNCHANGED queueVars
      BY <2>13 DEF WaitExpires, StageOf
    <3>2. QED
      BY <3>1, SameStage
  <2>14. ASSUME NEW t \in Tasks, Finish(t) PROVE Mapped
    <3>1. /\ StageOf(pc[t]) = "started" /\ StageOf("notifying") = "ended"
          /\ pc' = [pc EXCEPT ![t] = "notifying"]
      BY <2>14 DEF Finish, StageOf
    <3>2. Pool!End(t)
      BY <2>14, <3>1, MoveStage DEF Finish, Pool!End
    <3>3. QED
      BY <3>2 DEF Pool!PoolNext
  <2>15. ASSUME NEW t \in Tasks, Notify(t) PROVE Mapped
    <3>1. /\ pc' = [pc EXCEPT ![t] = "refilling"] /\ StageOf(pc[t]) = StageOf("refilling")
          /\ UNCHANGED queueVars
      BY <2>15 DEF Notify, StageOf
    <3>2. QED
      BY <3>1, SameStage
  <2>16. ASSUME NEW t \in Tasks, OnTaskDone(t) PROVE Mapped
    <3>1. CASE queue = <<>> \/ shuttingDown
      <4>1. /\ pc' = [pc EXCEPT ![t] = "recording"] /\ StageOf(pc[t]) = StageOf("recording")
            /\ UNCHANGED queueVars
        BY <2>16, <3>1 DEF OnTaskDone, StageOf
      <4>2. QED
        BY <4>1, SameStage
    <3>2. CASE ~(queue = <<>> \/ shuttingDown)
      <4> DEFINE u == Head(queue)
      <4>1. u \in Tasks /\ pc[u] = "queued"
        BY <3>2, QueueHead DEF TableInv, QueueMatchesTasks
      <4>2. /\ pc[t] = "refilling" /\ u # t
            /\ pc' = [pc EXCEPT ![t] = "recording", ![u] = "launching"]
            /\ queue' = Tail(queue) /\ shuttingDown' = shuttingDown
        BY <2>16, <3>2, <4>1 DEF OnTaskDone
      <4> HIDE DEF u
      <4>3. [v \in Tasks |-> StageOf(pc'[v])]
              = [[v \in Tasks |-> StageOf(pc[v])] EXCEPT ![u] = "started"]
        <5>1. StageOf("refilling") = StageOf("recording") /\ StageOf("launching") = "started"
          BY DEF StageOf
        <5>2. \A v \in Tasks : StageOf(pc'[v]) = IF v = u THEN "started" ELSE StageOf(pc[v])
          BY <4>1, <4>2, <5>1 DEF TypeOK
        <5>3. QED
          BY <4>1, <5>2
      <4>4. Pool!ServeNext
        BY <3>2, <4>2, <4>3 DEF Pool!ServeNext, u
      <4>5. QED
        BY <4>4 DEF Pool!PoolNext
    <3>3. QED
      BY <3>1, <3>2
  <2>17. ASSUME NEW t \in Tasks, RecordCrash(t) PROVE Mapped
    <3>1. /\ pc' = [pc EXCEPT ![t] = "done"] /\ StageOf(pc[t]) = StageOf("done")
          /\ UNCHANGED queueVars
      BY <2>17 DEF RecordCrash, StageOf
    <3>2. QED
      BY <3>1, SameStage
  <2>18. ASSUME NEW t \in Tasks, KillCheck(t) PROVE Mapped
    BY <2>18 DEF KillCheck
  <2>19. ASSUME NEW t \in Tasks, ShutdownKill(t) PROVE Mapped
    BY <2>19 DEF ShutdownKill
  <2>20. ASSUME NEW k \in Killers, KillSignal(k) PROVE Mapped
    BY <2>20 DEF KillSignal
  <2>21. ASSUME ShutdownBegin PROVE Mapped
    <3>1. \A t \in Tasks : t \in Queued <=> StageOf(pc[t]) = "waiting"
      BY DEF TypeOK, TableInv, QueueMatchesTasks, StageOf
    <3>2. \A t \in Tasks : StageOf(pc'[t])
                             = IF StageOf(pc[t]) = "waiting" THEN "ended" ELSE StageOf(pc[t])
      <4>1. StageOf("dropped") = "ended"
        BY DEF StageOf
      <4>2. QED
        BY <2>21, <3>1, <4>1 DEF ShutdownBegin
    <3>3. ~shuttingDown
      BY <2>21 DEF ShutdownBegin, DoorInv
    <3>4. Pool!Close
      BY <2>21, <3>2, <3>3 DEF ShutdownBegin, Pool!Close
    <3>5. QED
      BY <3>4 DEF Pool!PoolNext
  <2>22. ASSUME ShutdownKillAll PROVE Mapped
    BY <2>22 DEF ShutdownKillAll
  <2>23. ASSUME ShutdownEnd PROVE Mapped
    BY <2>23 DEF ShutdownEnd
  <2>24. CASE UNCHANGED vars
    BY <2>24 DEF vars
  <2>25. QED
    BY <2>1, <2>2, <2>3, <2>4, <2>5, <2>6, <2>7, <2>8, <2>9, <2>10, <2>11, <2>12, <2>13, <2>14, <2>15, <2>16, <2>17, <2>18, <2>19, <2>20, <2>21, <2>22, <2>23, <2>24
       DEF Next, SpawnStep, LaunchStep, OutsideStep, ReadStep, WaitStep, CloseStep, ShutdownStep
<1>3. QED
  BY <1>1, <1>2, TypeCorrect, TableInvariant, ShutdownCorrect, PTL DEF Spec, ShutdownInv, ImplementsPool, Pool!PoolSpec
=============================================================================

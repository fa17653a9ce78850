------------------------ MODULE SpawnBlockingProofs -------------------------
(***************************************************************************)
(* Theorems about SpawnBlocking, on top of those about Supervisor.         *)
(***************************************************************************)
EXTENDS SpawnBlocking, SupervisorProofs

\* The callers' own variables.
CallersTypeOK ==
  /\ caller \in [Callers -> {"spawning", "waiting", "returned"}]
  /\ answer \in [Callers -> TaskStatus \cup {"absent", "none"}]
  /\ viaQueue \subseteq Tasks

\* A final status that a caller was given is the one in the table.
AnswerInv == CallersTypeOK /\ AnswerIsTrue

\* What TerminalStatusFinal says of one step.
KeepsFinal == \A t \in Tasks : status[t] \in Terminal => status'[t] = status[t]

(* A caller changes nothing of the supervisor's: what is proved of the     *)
(* supervisor alone holds of the one that is called.                       *)
THEOREM CallsAreSpawns == BlockingSpec => Spec
<1>1. BlockingInit => Init
  BY DEF BlockingInit
<1>2. [BlockingNext]_allVars => [Next]_vars
  BY DEF BlockingNext, SupervisorStep, CallStep, ReturnAtOnce, Wait, ReturnFinished,
         ReturnUnfinished, Return, allVars
<1>3. QED
  BY <1>1, <1>2, PTL DEF BlockingSpec, Spec

(* The status that a caller reads is final only if the table's is.         *)
LEMMA HeldFinalIsStatus ==
  ASSUME TypeOK, NEW t \in Tasks
  PROVE  /\ Held(t) \in TaskStatus \cup {"absent"}
         /\ Held(t) \in Terminal => status[t] = Held(t)
BY DEF Held, TypeOK, Terminal, TaskStatus

(* An answer that is right for its own caller is right for all.            *)
LEMMA OneAnswers ==
  ASSUME TypeOK, AnswerInv, NEW t \in Callers, NEW result, Return(t, result),
         result \in TaskStatus \cup {"absent"},
         result \in Terminal => status[t] = result,
         result \in {"RUNNING", "QUEUED"} => t \in Timed
  PROVE  AnswerInv'
<1>1. /\ caller' = [caller EXCEPT ![t] = "returned"]
      /\ answer' = [answer EXCEPT ![t] = result]
      /\ status' = status /\ viaQueue' = viaQueue
  BY DEF Return, vars, taskVars
<1>2. CallersTypeOK'
  BY <1>1 DEF AnswerInv, CallersTypeOK
<1>3. AnswerIsTrue'
  BY <1>1 DEF AnswerInv, CallersTypeOK, AnswerIsTrue
<1>4. QED
  BY <1>2, <1>3 DEF AnswerInv

(* Every step of the supervisor and of a caller keeps the answers true.    *)
LEMMA AnswerKept ==
  TypeOK /\ TableInv /\ AnswerInv /\ [BlockingNext]_allVars /\ [KeepsFinal]_vars => AnswerInv'
<1> SUFFICES ASSUME TypeOK, TableInv, AnswerInv, [BlockingNext]_allVars, [KeepsFinal]_vars
             PROVE  AnswerInv'
  OBVIOUS
<1>1. Callers \subseteq Tasks
  BY CallersAssumption
<1>2. CASE SupervisorStep
  <2>1. UNCHANGED <<caller, answer>> /\ viaQueue' \subseteq Tasks
    BY <1>2 DEF SupervisorStep, CallersLookOn, AnswerInv, CallersTypeOK
  <2>2. KeepsFinal
    BY DEF KeepsFinal, vars, taskVars
  <2>3. CallersTypeOK'
    BY <2>1 DEF AnswerInv, CallersTypeOK
  <2>4. AnswerIsTrue'
    BY <1>1, <2>1, <2>2 DEF AnswerInv, AnswerIsTrue, KeepsFinal
  <2>5. QED
    BY <2>3, <2>4 DEF AnswerInv
<1>3. ASSUME NEW t \in Callers, ReturnAtOnce(t) PROVE AnswerInv'
  BY <1>1, <1>3, OneAnswers, HeldFinalIsStatus DEF ReturnAtOnce
<1>4. ASSUME NEW t \in Callers, Wait(t) PROVE AnswerInv'
  <2>1. /\ caller' = [caller EXCEPT ![t] = "waiting"]
        /\ UNCHANGED <<answer, viaQueue, status>>
    BY <1>4 DEF Wait, vars, taskVars
  <2>2. CallersTypeOK'
    BY <2>1 DEF AnswerInv, CallersTypeOK
  <2>3. QED
    BY <2>1, <2>2 DEF AnswerInv, AnswerIsTrue
<1>5. ASSUME NEW t \in Callers, ReturnFinished(t) PROVE AnswerInv'
  <2>1. pc[t] \in Closing
    BY <1>5 DEF ReturnFinished, EventSet, Closing
  <2>2. status[t] \in Terminal
    BY <1>1, <2>1 DEF TableInv, PlaceInv
  <2>3. QED
    BY <1>1, <1>5, <2>2, OneAnswers DEF ReturnFinished, Terminal
<1>6. ASSUME NEW t \in Callers, ReturnUnfinished(t) PROVE AnswerInv'
  BY <1>1, <1>6, OneAnswers, HeldFinalIsStatus DEF ReturnUnfinished
<1>7. CASE UNCHANGED allVars
  BY <1>7 DEF allVars, callVars, vars, taskVars, AnswerInv, CallersTypeOK, AnswerIsTrue
<1>8. QED
  BY <1>2, <1>3, <1>4, <1>5, <1>6, <1>7 DEF BlockingNext, CallStep

(* Whatever object a caller of spawn_blocking() read its answer from, the  *)
(* one spawn() gave it or the one in the table, a final status is the      *)
(* task's for good, and only a task with a timeout is reported unfinished: *)
(* for any tasks, callers, limit, and outcomes of their processes.         *)
THEOREM AnswersAreTrue == BlockingSpec => []AnswerIsTrue
<1>1. BlockingInit => AnswerInv
  BY DEF BlockingInit, AnswerInv, CallersTypeOK, AnswerIsTrue, Terminal, TaskStatus
<1>2. AnswerInv => AnswerIsTrue
  BY DEF AnswerInv
<1>3. TerminalIsFinal <=> [][KeepsFinal]_vars
  BY PTL DEF TerminalIsFinal, KeepsFinal
<1>4. QED
  BY <1>1, <1>2, <1>3, CallsAreSpawns, AnswerKept, TypeCorrect, TableInvariant,
     TerminalStatusFinal, PTL DEF BlockingSpec
=============================================================================

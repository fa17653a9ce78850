------------------------------ MODULE TaskPool ------------------------------
(***************************************************************************)
(* What ProcessSupervisor promises its callers, with the locks, threads    *)
(* and processes left out: a task submitted either starts at once or waits *)
(* in line; the line is served strictly first come, first served; a task   *)
(* starts at most once and ends at most once; closing the pool ends every  *)
(* waiting task and nothing is served from the line afterwards.            *)
(*                                                                         *)
(* The pool promises no bound on the tasks running together: the code's    *)
(* admission test does not provide one (run sup_limit of Supervisor).      *)
(***************************************************************************)
EXTENDS Sequences

CONSTANT Tasks     \* the tasks submitted to the pool

VARIABLES
  stage,    \* stage[t]: how far task t has come
  line,     \* the waiting line, oldest submission first
  open      \* FALSE once the pool has been closed

poolVars == <<stage, line, open>>

Stages == {"new", "waiting", "started", "ended"}

PoolInit ==
  /\ stage = [t \in Tasks |-> "new"]
  /\ line = <<>>
  /\ open = TRUE

StartAtOnce(t) ==
  /\ stage[t] = "new"
  /\ stage' = [stage EXCEPT ![t] = "started"]
  /\ UNCHANGED <<line, open>>

\* A submission that passed the door before the pool closed may still join
\* the line: it then waits for ever.
JoinLine(t) ==
  /\ stage[t] = "new"
  /\ stage' = [stage EXCEPT ![t] = "waiting"]
  /\ line' = Append(line, t)
  /\ UNCHANGED open

ServeNext ==
  /\ open
  /\ line # <<>>
  /\ stage' = [stage EXCEPT ![Head(line)] = "started"]
  /\ line' = Tail(line)
  /\ UNCHANGED open

End(t) ==
  /\ stage[t] = "started"
  /\ stage' = [stage EXCEPT ![t] = "ended"]
  /\ UNCHANGED <<line, open>>

Close ==
  /\ open
  /\ open' = FALSE
  /\ line' = <<>>
  /\ stage' = [t \in Tasks |-> IF stage[t] = "waiting" THEN "ended" ELSE stage[t]]

PoolNext ==
  \/ \E t \in Tasks : StartAtOnce(t) \/ JoinLine(t) \/ End(t)
  \/ ServeNext
  \/ Close

PoolSpec == PoolInit /\ [][PoolNext]_poolVars
=============================================================================

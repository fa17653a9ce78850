---------------------------- MODULE PlanSession ----------------------------
(***************************************************************************)
(* cli/plan_session.py: /plan.  A plan is generated by the model, saved in *)
(* a file of its own, executed step by step on approval, and resumed from  *)
(* its file after an interruption.  The file is rewritten in place after   *)
(* every step (write_text empties it and then fills it), so the end of the *)
(* program between the two leaves it torn.  Ctrl-C in a step is no         *)
(* Exception: nothing catches it and the program ends, like a crash.       *)
(***************************************************************************)
EXTENDS Naturals, Sequences, FiniteSets

CONSTANTS
  PlanIds,       \* the identifiers that uuid4 gives, one per plan
  Numberings,    \* the step numbers of the plans that the model may propose
  Fallbacks,     \* cfg.fallback_providers is not empty
  NoPlan,        \* self._current is None
  MaxTrouble     \* bound: ends of the program and failing writes

ASSUME PlanAssumption ==
  /\ Numberings \subseteq Seq(Nat)
  /\ Fallbacks \in BOOLEAN
  /\ NoPlan \notin PlanIds
  /\ MaxTrouble \in Nat

VARIABLES
  planFile,   \* planFile[p]: the file of plan p
  plan,       \* the plan's identifier, the numbers and the done flags of its
              \* steps, and whether saved_at is set; or NoPlan
  planPc,     \* where the command is
  planStep,   \* the step that approve is at
  tries,      \* ghost: tries[p][i]: how often step i of plan p was executed
  trouble     \* ghost: the ends of the program and failing writes so far

planVars == <<planFile, plan, planPc, planStep, tries, trouble>>

\* No file, and one that has been emptied and not yet filled.
NoFile == [numbers |-> <<>>, completed |-> {}, status |-> "absent"]
TornFile == [numbers |-> <<>>, completed |-> {}, status |-> "torn"]
Readable(p) == planFile[p] \notin {NoFile, TornFile}

PlanInit ==
  /\ planFile = [p \in PlanIds |-> NoFile]
  /\ plan = NoPlan
  /\ planPc = "idle"
  /\ planStep = 0
  /\ tries = [p \in PlanIds |-> <<>>]
  /\ trouble = 0

PlanIdle == planPc = "idle"

\* FallbackLLMClient.chat takes the temperature and max_tokens that this
\* module passes; chat() of a single provider's client raises TypeError.
PlanChat == IF Fallbacks THEN {"answer", "error"} ELSE {"error"}

\* One write_text of a plan file: it succeeds; or open() fails, or the file is
\* emptied and the text does not fit.
PlanWrite(p, content) ==
  /\ planFile' = [planFile EXCEPT ![p] = content]
  /\ UNCHANGED trouble

PlanWriteFails(p) ==
  /\ trouble < MaxTrouble
  /\ planFile' \in {planFile, [planFile EXCEPT ![p] = TornFile]}
  /\ trouble' = trouble + 1

-----------------------------------------------------------------------------
(* The subcommands.                                                        *)

\* _plan_generate up to _save_plan.  An answer without steps is a plan, too; a
\* model that fails changes nothing.
Generate(p, numbers) ==
  /\ PlanIdle
  /\ "answer" \in PlanChat
  /\ planFile[p] = NoFile /\ tries[p] = <<>>
  /\ plan' = [id |-> p, numbers |-> numbers, done |-> {}, saved |-> FALSE]
  /\ tries' = [tries EXCEPT ![p] = [i \in 1..Len(numbers) |-> 0]]
  /\ planPc' = "saving"
  /\ UNCHANGED <<planFile, planStep, trouble>>

\* _save_plan: saved_at stays empty when the file could not be written.
SavePlan ==
  /\ planPc = "saving"
  /\ \/ /\ PlanWrite(plan.id, [numbers |-> plan.numbers, completed |-> {},
                              status |-> "in_progress"])
        /\ plan' = [plan EXCEPT !.saved = TRUE]
     \/ /\ PlanWriteFails(plan.id)
        /\ UNCHANGED plan
  /\ planPc' = "idle"
  /\ UNCHANGED <<planStep, tries>>

\* The first step after i that is not done yet.
StepAfter(i) ==
  LET left == {j \in 1..Len(plan.numbers) : j > i /\ j \notin plan.done}
  IN IF left = {} THEN 0 ELSE CHOOSE j \in left : \A k \in left : j <= k

GoTo(i) ==
  /\ planStep' = i
  /\ planPc' = IF i = 0 THEN "completing" ELSE "executing"

Approve ==
  /\ PlanIdle /\ plan # NoPlan
  /\ GoTo(StepAfter(0))
  /\ UNCHANGED <<planFile, plan, tries, trouble>>

\* _execute_step prints the answer or the error; the step is done either way.
ExecuteStep ==
  /\ planPc = "executing"
  /\ tries' = [tries EXCEPT ![plan.id][planStep] = @ + 1]
  /\ plan' = [plan EXCEPT !.done = @ \cup {planStep}]
  /\ planPc' = "checkpoint"
  /\ UNCHANGED <<planFile, planStep, trouble>>

\* The read, change and write that _update_plan_checkpoint and
\* _mark_plan_complete share; a file that does not parse is left alone.
Rewrite(steps, status) ==
  IF plan.saved /\ Readable(plan.id)
  THEN \/ PlanWrite(plan.id, [planFile[plan.id] EXCEPT
                                !.completed = {plan.numbers[i] : i \in steps},
                                !.status = status])
       \/ PlanWriteFails(plan.id)
  ELSE UNCHANGED <<planFile, trouble>>

\* Mutant of the next: the step to come is taken for done.
CheckpointAhead ==
  /\ planPc = "checkpoint"
  /\ Rewrite(plan.done \cup ({planStep + 1} \cap 1..Len(plan.numbers)),
             planFile[plan.id].status)
  /\ GoTo(StepAfter(planStep))
  /\ UNCHANGED <<plan, tries>>

\* _update_plan_checkpoint
Checkpoint ==
  /\ planPc = "checkpoint"
  /\ Rewrite(plan.done, planFile[plan.id].status)
  /\ GoTo(StepAfter(planStep))
  /\ UNCHANGED <<plan, tries>>

\* _mark_plan_complete and the end of _plan_approve
Complete ==
  /\ planPc = "completing"
  /\ Rewrite(1..Len(plan.numbers), "complete")
  /\ plan' = NoPlan
  /\ planPc' = "idle"
  /\ UNCHANGED <<planStep, tries>>

Cancel ==
  /\ PlanIdle /\ plan # NoPlan
  /\ plan' = NoPlan
  /\ UNCHANGED <<planFile, planPc, planStep, tries, trouble>>

\* Mutant of the next: a resumed plan starts from its first step.
ResumeFromStart(p) ==
  /\ PlanIdle
  /\ Readable(p)
  /\ plan' = [id |-> p, numbers |-> planFile[p].numbers, saved |-> TRUE, done |-> {}]
  /\ UNCHANGED <<planFile, planPc, planStep, tries, trouble>>

\* _plan_resume: the numbers of the file decide which steps are done.
Resume(p) ==
  /\ PlanIdle
  /\ Readable(p)
  /\ LET f == planFile[p] IN
       plan' = [id |-> p, numbers |-> f.numbers, saved |-> TRUE,
                done |-> {i \in 1..Len(f.numbers) : f.numbers[i] \in f.completed}]
  /\ UNCHANGED <<planFile, planPc, planStep, tries, trouble>>

\* /plan resume with an id that no file name has: every file is parsed for its
\* id, and one that does not parse ends the program.
ResumeUnknown ==
  /\ PlanIdle
  /\ \E p \in PlanIds : planFile[p] = TornFile
  /\ plan' = NoPlan
  /\ UNCHANGED <<planFile, planPc, planStep, tries, trouble>>

\* The program ends (a crash, Ctrl-C, /quit) and is started again.  A write
\* that was under way may have emptied the file.
Writing ==
  \/ planPc = "saving"
  \/ /\ planPc \in {"checkpoint", "completing"}
     /\ plan.saved /\ Readable(plan.id)

PlanStop ==
  /\ trouble < MaxTrouble
  /\ trouble' = trouble + 1
  /\ planFile' \in {planFile} \cup
       IF Writing THEN {[planFile EXCEPT ![plan.id] = TornFile]} ELSE {}
  /\ plan' = NoPlan
  /\ planPc' = "idle"
  /\ UNCHANGED <<planStep, tries>>

PlanNext ==
  \/ \E p \in PlanIds, numbers \in Numberings : Generate(p, numbers)
  \/ SavePlan
  \/ Approve
  \/ ExecuteStep
  \/ Checkpoint
  \/ Complete
  \/ Cancel
  \/ \E p \in PlanIds : Resume(p)
  \/ ResumeUnknown
  \/ PlanStop

PlanSpec == PlanInit /\ [][PlanNext]_planVars

-----------------------------------------------------------------------------
(* Properties.                                                             *)

Distinct(numbers) ==
  \A i, j \in 1..Len(numbers) : numbers[i] = numbers[j] => i = j

CompletedWasTried ==
  \A p \in PlanIds :
    Readable(p) =>
      LET f == planFile[p] IN
        Distinct(f.numbers) =>
          \A i \in 1..Len(f.numbers) : f.numbers[i] \in f.completed => tries[p][i] > 0

RepeatedOnlyAfterTrouble ==
  \A p \in PlanIds : \A i \in DOMAIN tries[p] : tries[p][i] <= 1 + trouble

\* The checkpoint is written behind the step, never ahead of it: what a plan
\* file says is completed, over all interruptions and resumptions, was handed to
\* the model for execution, if the model gave its steps different numbers.  And
\* a step is executed a second time only if an end of the program or a failed
\* write came between its execution and its checkpoint: cancelling a plan and
\* resuming it from its file repeats nothing (_plan_approve,
\* _update_plan_checkpoint, _plan_resume).
PlanFollowsExecution == CompletedWasTried /\ RepeatedOnlyAfterTrouble
=============================================================================

--------------------------- MODULE CommandsProofs ---------------------------
(***************************************************************************)
(* Theorems about the commands of the prompt and what they keep, for every *)
(* number of plans, tools, settings, turns, servers, lines and edits:      *)
(* PlanSession, ToolBuilder, Settings, Repl, ModelChoice, DebugRun and     *)
(* GitWork.                                                                *)
(***************************************************************************)
EXTENDS PlanSession, ToolBuilder, Settings, Repl, ModelChoice, DebugRun,
  GitWork, SequenceTheorems, WellFoundedInduction, TLAPS

(* PlanSession: the plan files tell what was executed.                     *)

(* A set of numbers that is not empty has a smallest.                      *)
LEMMA LeastNumber ==
  ASSUME NEW S \in SUBSET Nat, S # {}
  PROVE  \E m \in S : \A k \in S : m <= k
<1>1. PICK m \in S : \A k \in S : <<k, m>> \notin OpToRel(<, Nat)
  BY WFMin, NatLessThanWellFounded, Zenon
<1>2. \A k \in S : ~(k < m)
  BY <1>1, Zenon DEF OpToRel
<1>3. QED
  BY <1>2

\* The files that hold a plan.
PlanFiles == [numbers : Seq(Nat), completed : SUBSET Nat,
              status : {"in_progress", "complete"}]

\* The plans in memory.
Plans == [id : PlanIds, numbers : Seq(Nat), done : SUBSET Nat, saved : BOOLEAN]

\* There is a plan in memory.
Planning == planPc # "idle" \/ plan # NoPlan

\* Every variable has its type; there is a plan in memory wherever it is used.
PlanTypeOK ==
  /\ planFile \in [PlanIds -> PlanFiles \cup {NoFile, TornFile}]
  /\ Planning => plan \in Plans
  /\ planPc \in {"idle", "saving", "executing", "checkpoint", "completing"}
  /\ planStep \in Nat
  /\ trouble \in Nat
  /\ DOMAIN tries = PlanIds
  /\ tries = [p \in PlanIds |-> tries[p]]

\* No step was executed more often than there was trouble, and once.
FewTries ==
  \A p \in PlanIds : \A i \in DOMAIN tries[p] :
    tries[p][i] \in Nat /\ tries[p][i] <= 1 + trouble

\* The step that has been executed and is not in the file yet.
Unwritten(p, i) == planPc = "checkpoint" /\ p = plan.id /\ i = planStep

\* A file tells what was executed: only that, and all of it but for trouble.
FileTells ==
  \A p \in PlanIds : planFile[p] \in PlanFiles =>
    /\ DOMAIN tries[p] = 1..Len(planFile[p].numbers)
    /\ Distinct(planFile[p].numbers) =>
         \A i \in 1..Len(planFile[p].numbers) :
           planFile[p].numbers[i] \in planFile[p].completed => tries[p][i] > 0
    /\ \A i \in 1..Len(planFile[p].numbers) :
         planFile[p].numbers[i] \notin planFile[p].completed /\ ~Unwritten(p, i)
           => tries[p][i] <= trouble

\* So does the plan in memory, with the same steps as its file.
PlanTells ==
  Planning =>
    /\ DOMAIN tries[plan.id] = 1..Len(plan.numbers)
    /\ plan.done \subseteq 1..Len(plan.numbers)
    /\ Distinct(plan.numbers) => \A i \in plan.done : tries[plan.id][i] > 0
    /\ \A i \in 1..Len(plan.numbers) : i \notin plan.done => tries[plan.id][i] <= trouble
    /\ planFile[plan.id] \in PlanFiles =>
         plan.saved /\ planFile[plan.id].numbers = plan.numbers

\* The steps are done in their order.
StepsInOrder ==
  /\ planPc = "saving" => plan.done = {} /\ planFile[plan.id] = NoFile
  /\ planPc = "executing" => planStep \in 1..Len(plan.numbers) /\ planStep \notin plan.done
  /\ planPc = "checkpoint" => planStep \in plan.done
  /\ planPc \in {"executing", "checkpoint"} =>
       \A i \in 1..Len(plan.numbers) : i < planStep => i \in plan.done
  /\ planPc = "completing" => 1..Len(plan.numbers) \subseteq plan.done

\* The parts together are inductive.
PlanInv == PlanTypeOK /\ FewTries /\ FileTells /\ PlanTells /\ StepsInOrder

(* A file that can be read holds a plan.                                   *)
LEMMA ReadableIsPlan ==
  ASSUME PlanTypeOK, NEW p \in PlanIds
  PROVE  /\ Readable(p) <=> planFile[p] \in PlanFiles
         /\ planFile[p] \in PlanFiles \/ planFile[p] = NoFile \/ planFile[p] = TornFile
         /\ NoFile \notin PlanFiles /\ TornFile \notin PlanFiles
<1>1. NoFile \notin PlanFiles
  BY DEF NoFile, PlanFiles
<1>2. TornFile \notin PlanFiles
  BY DEF TornFile, PlanFiles
<1>3. QED
  BY <1>1, <1>2 DEF PlanTypeOK, Readable

(* The next step is the first behind i that is not done.                   *)
LEMMA NextStep ==
  ASSUME plan.numbers \in Seq(Nat), NEW i \in Nat
  PROVE  /\ StepAfter(i) \in Nat
         /\ StepAfter(i) = 0 =>
              \A k \in 1..Len(plan.numbers) : k > i => k \in plan.done
         /\ StepAfter(i) # 0 =>
              /\ StepAfter(i) \in 1..Len(plan.numbers) /\ StepAfter(i) \notin plan.done
              /\ \A k \in 1..Len(plan.numbers) : k > i /\ k < StepAfter(i) => k \in plan.done
<1> DEFINE left == {j \in 1..Len(plan.numbers) : j > i /\ j \notin plan.done}
           least == CHOOSE j \in left : \A k \in left : j <= k
<1>1. Len(plan.numbers) \in Nat
  OBVIOUS
<1>2. StepAfter(i) = IF left = {} THEN 0 ELSE least
  BY DEF StepAfter
<1>3. CASE left = {}
  BY <1>2, <1>3
<1>4. CASE left # {}
  <2>1. left \in SUBSET Nat
    BY <1>1
  <2>2. \E m \in left : \A k \in left : m <= k
    BY <1>4, <2>1, LeastNumber
  <2>3. least \in left /\ \A k \in left : least <= k
    BY <2>2
  <2>4. StepAfter(i) = least
    BY <1>2, <1>4
  <2> HIDE DEF least
  <2>5. least # 0 /\ least \in Nat
    BY <1>1, <2>3
  <2>6. \A k \in 1..Len(plan.numbers) : k > i /\ k < least => k \in plan.done
    BY <1>1, <2>3, <2>5
  <2>7. QED
    BY <2>3, <2>5, <2>4, <2>6
<1>5. QED
  BY <1>3, <1>4

(* What each step leaves of a plan's count of executions.                  *)
LEMMA OneTryMore ==
  ASSUME PlanInv, ExecuteStep
  PROVE  /\ DOMAIN tries' = PlanIds /\ tries' = [p \in PlanIds |-> tries'[p]]
         /\ \A p \in PlanIds : DOMAIN tries'[p] = DOMAIN tries[p]
         /\ \A p \in PlanIds : \A i \in DOMAIN tries[p] :
              tries'[p][i] = IF p = plan.id /\ i = planStep THEN tries[p][i] + 1
                                                            ELSE tries[p][i]
<1>1. plan \in Plans /\ plan.id \in PlanIds
  BY DEF PlanInv, PlanTypeOK, Planning, ExecuteStep, Plans
<1>2. tries' = [tries EXCEPT ![plan.id][planStep] = @ + 1]
  BY DEF ExecuteStep
<1>3. DOMAIN tries = PlanIds
  BY DEF PlanInv, PlanTypeOK
<1>4. tries' = [p \in PlanIds |->
                 IF p = plan.id THEN [tries[p] EXCEPT ![planStep] = @ + 1] ELSE tries[p]]
  BY <1>2, <1>3
<1>5. DOMAIN tries' = PlanIds /\ tries' = [p \in PlanIds |-> tries'[p]]
  BY <1>4
<1>6. \A p \in PlanIds :
        tries'[p] = IF p = plan.id THEN [tries[p] EXCEPT ![planStep] = @ + 1] ELSE tries[p]
  BY <1>4
<1>7. QED
  BY <1>5, <1>6

(* A plan with one step more done is a plan.                               *)
LEMMA PlanStepDone ==
  ASSUME NEW pl \in Plans, NEW i \in Nat
  PROVE  LET q == [pl EXCEPT !.done = @ \cup {i}] IN
         /\ q \in Plans
         /\ q.id = pl.id /\ q.numbers = pl.numbers /\ q.saved = pl.saved
         /\ q.done = pl.done \cup {i}
BY DEF Plans

(* So it is when it has been saved.                                        *)
LEMMA PlanSavedNow ==
  ASSUME NEW pl \in Plans
  PROVE  LET q == [pl EXCEPT !.saved = TRUE] IN
         /\ q \in Plans
         /\ q.id = pl.id /\ q.numbers = pl.numbers /\ q.done = pl.done
         /\ q.saved
BY DEF Plans

(* A file that is written again has the same steps.                        *)
LEMMA FileRewritten ==
  ASSUME NEW f \in PlanFiles, NEW completed \in SUBSET Nat,
         NEW status \in {"in_progress", "complete"}
  PROVE  LET g == [f EXCEPT !.completed = completed, !.status = status] IN
         /\ g \in PlanFiles
         /\ g.numbers = f.numbers /\ g.completed = completed
BY DEF PlanFiles

(* A write of a plan file that fails, or that the end of the program cuts  *)
(* short, leaves the file as it was or unreadable; and it counts as        *)
(* trouble, which pays for one execution more.                             *)
LEMMA WriteFailed ==
  ASSUME PlanInv, NEW p \in PlanIds, trouble' = trouble + 1,
         planFile' \in {planFile, [planFile EXCEPT ![p] = TornFile]}, UNCHANGED tries
  PROVE  /\ planFile' \in [PlanIds -> PlanFiles \cup {NoFile, TornFile}]
         /\ trouble' = trouble + 1
         /\ \A q \in PlanIds : planFile'[q] \in PlanFiles => planFile'[q] = planFile[q]
         /\ FewTries' /\ FileTells'
<1>1. /\ trouble' = trouble + 1 /\ trouble \in Nat
      /\ planFile \in [PlanIds -> PlanFiles \cup {NoFile, TornFile}]
      /\ planFile' = planFile \/ planFile' = [planFile EXCEPT ![p] = TornFile]
  BY DEF PlanInv, PlanTypeOK
<1>2. planFile' \in [PlanIds -> PlanFiles \cup {NoFile, TornFile}]
  BY <1>1
<1>3. TornFile \notin PlanFiles
  BY DEF TornFile, PlanFiles
<1>4. \A q \in PlanIds : planFile'[q] \in PlanFiles => planFile'[q] = planFile[q]
  BY <1>1, <1>3
<1>5. FewTries'
  BY <1>1 DEF PlanInv, FewTries
<1>6. FileTells'
  <2> SUFFICES ASSUME NEW q \in PlanIds, planFile'[q] \in PlanFiles
               PROVE  /\ DOMAIN tries[q] = 1..Len(planFile[q].numbers)
                      /\ Distinct(planFile[q].numbers) =>
                           \A i \in 1..Len(planFile[q].numbers) :
                             planFile[q].numbers[i] \in planFile[q].completed => tries[q][i] > 0
                      /\ \A i \in 1..Len(planFile[q].numbers) : tries[q][i] <= trouble'
    BY <1>4 DEF FileTells, Distinct
  <2>1. planFile[q] \in PlanFiles
    BY <1>4
  <2>2. \A i \in DOMAIN tries[q] : tries[q][i] <= trouble'
    BY <1>1 DEF PlanInv, FewTries
  <2>3. QED
    BY <2>1, <2>2 DEF PlanInv, FileTells
<1>7. QED
  BY <1>1, <1>2, <1>4, <1>5, <1>6

(* What _update_plan_checkpoint and _mark_plan_complete leave: a file that *)
(* lists the steps that are done.                                          *)
LEMMA WrittenBehind ==
  ASSUME PlanInv, planPc \in {"checkpoint", "completing"},
         NEW status, planFile[plan.id] \in PlanFiles => status \in {"in_progress", "complete"},
         Rewrite(plan.done, status), UNCHANGED tries, planPc' # "checkpoint"
  PROVE  /\ planFile' \in [PlanIds -> PlanFiles \cup {NoFile, TornFile}]
         /\ trouble' \in Nat /\ trouble' >= trouble
         /\ \A q \in PlanIds : planFile'[q] \in PlanFiles =>
              /\ planFile[q] \in PlanFiles
              /\ planFile'[q].numbers = planFile[q].numbers
         /\ FewTries' /\ FileTells'
<1> DEFINE p == plan.id
           numbersDone == {plan.numbers[i] : i \in plan.done}
           content == [planFile[p] EXCEPT !.completed = numbersDone, !.status = status]
<1>1. /\ plan \in Plans /\ p \in PlanIds /\ plan.numbers \in Seq(Nat)
      /\ planFile \in [PlanIds -> PlanFiles \cup {NoFile, TornFile}]
      /\ trouble \in Nat
  BY DEF PlanInv, PlanTypeOK, Planning, Plans
<1>2. /\ DOMAIN tries[p] = 1..Len(plan.numbers)
      /\ plan.done \subseteq 1..Len(plan.numbers)
      /\ Distinct(plan.numbers) => \A i \in plan.done : tries[p][i] > 0
      /\ \A i \in 1..Len(plan.numbers) : i \notin plan.done => tries[p][i] <= trouble
      /\ planFile[p] \in PlanFiles => plan.saved /\ planFile[p].numbers = plan.numbers
  BY DEF PlanInv, PlanTells, Planning
<1>3. \A q \in PlanIds : \A i : Unwritten(q, i) => q = p /\ i \in plan.done
  BY DEF PlanInv, StepsInOrder, Unwritten
<1>4. \A q \in PlanIds : \A i : ~Unwritten(q, i)'
  BY DEF Unwritten
<1>5. CASE PlanWriteFails(p)
  BY <1>1, <1>5, WriteFailed DEF PlanWriteFails
<1>6. CASE /\ plan.saved /\ Readable(p)
           /\ planFile' = [planFile EXCEPT ![p] = content] /\ UNCHANGED trouble
  <2>1. planFile[p] \in PlanFiles
    BY <1>1, <1>6, ReadableIsPlan DEF PlanInv
  <2>2. numbersDone \in SUBSET Nat
    BY <1>1, <1>2
  <2>3. /\ content \in PlanFiles /\ content.numbers = plan.numbers
        /\ content.completed = numbersDone
    <3>1. status \in {"in_progress", "complete"}
      BY <2>1
    <3>2. /\ content \in PlanFiles /\ content.numbers = planFile[p].numbers
          /\ content.completed = numbersDone
      <4> DEFINE f == planFile[p]
      <4>1. f \in PlanFiles
        BY <2>1
      <4> HIDE DEF numbersDone, f
      <4>2. /\ [f EXCEPT !.completed = numbersDone, !.status = status] \in PlanFiles
            /\ [f EXCEPT !.completed = numbersDone, !.status = status].numbers = f.numbers
            /\ [f EXCEPT !.completed = numbersDone, !.status = status].completed = numbersDone
        BY ONLY <4>1, <2>2, <3>1, FileRewritten
      <4>3. QED
        BY <4>2 DEF f
    <3> HIDE DEF content
    <3>3. QED
      BY <1>2, <2>1, <3>2
  <2> HIDE DEF content
  <2>4. /\ planFile' \in [PlanIds -> PlanFiles \cup {NoFile, TornFile}]
        /\ planFile'[p] = content
        /\ \A q \in PlanIds : q # p => planFile'[q] = planFile[q]
    BY <1>1, <1>6, <2>3
  <2>5. FewTries'
    BY <1>6 DEF PlanInv, FewTries
  <2>6. FileTells'
    <3> SUFFICES ASSUME NEW q \in PlanIds, planFile'[q] \in PlanFiles
                 PROVE  /\ DOMAIN tries[q] = 1..Len(planFile'[q].numbers)
                        /\ Distinct(planFile'[q].numbers) =>
                             \A i \in 1..Len(planFile'[q].numbers) :
                               planFile'[q].numbers[i] \in planFile'[q].completed
                                 => tries[q][i] > 0
                        /\ \A i \in 1..Len(planFile'[q].numbers) :
                             planFile'[q].numbers[i] \notin planFile'[q].completed
                               => tries[q][i] <= trouble
      BY <1>6 DEF FileTells, Distinct
    <3>1. CASE q # p
      BY <1>3, <2>4, <3>1 DEF PlanInv, FileTells
    <3>2. CASE q = p
      <4>1. Distinct(plan.numbers) =>
              \A i \in 1..Len(plan.numbers) :
                plan.numbers[i] \in {plan.numbers[j] : j \in plan.done} => tries[p][i] > 0
        BY <1>2 DEF Distinct
      <4>2. \A i \in 1..Len(plan.numbers) :
              plan.numbers[i] \notin {plan.numbers[j] : j \in plan.done}
                => tries[p][i] <= trouble
        BY <1>2
      <4>3. QED
        BY <1>2, <2>3, <2>4, <3>2, <4>1, <4>2
    <3>3. QED
      BY <3>1, <3>2
  <2>7. QED
    BY <1>1, <1>2, <1>6, <2>1, <2>3, <2>4, <2>5, <2>6
<1>7. CASE ~(plan.saved /\ Readable(p)) /\ UNCHANGED <<planFile, trouble>>
  <2>1. planFile[p] \notin PlanFiles
    BY <1>1, <1>2, <1>7, ReadableIsPlan DEF PlanInv
  <2>2. FewTries'
    BY <1>7 DEF PlanInv, FewTries
  <2>3. FileTells'
    BY <1>3, <1>4, <1>7, <2>1 DEF PlanInv, FileTells, Distinct
  <2>4. QED
    BY <1>1, <1>7, <2>2, <2>3
<1>8. QED
  BY <1>5, <1>6, <1>7 DEF Rewrite, PlanWrite

(* Where _plan_approve goes next: the first step that is not done yet.     *)
LEMMA NextInOrder ==
  ASSUME PlanInv, planPc # "idle" \/ plan # NoPlan, NEW i \in Nat, GoTo(StepAfter(i)),
         UNCHANGED plan,
         \A k \in 1..Len(plan.numbers) : k <= i => k \in plan.done
  PROVE  /\ planPc' \in {"executing", "completing"} /\ planStep' \in Nat
         /\ StepsInOrder'
<1>1. plan.numbers \in Seq(Nat) /\ Len(plan.numbers) \in Nat
  BY DEF PlanInv, PlanTypeOK, Planning, Plans
<1>2. /\ planStep' = StepAfter(i)
      /\ planPc' = IF StepAfter(i) = 0 THEN "completing" ELSE "executing"
  BY DEF GoTo
<1>3. /\ StepAfter(i) \in Nat
      /\ StepAfter(i) = 0 => \A k \in 1..Len(plan.numbers) : k > i => k \in plan.done
      /\ StepAfter(i) # 0 =>
           /\ StepAfter(i) \in 1..Len(plan.numbers) /\ StepAfter(i) \notin plan.done
           /\ \A k \in 1..Len(plan.numbers) : k > i /\ k < StepAfter(i) => k \in plan.done
  BY <1>1, NextStep
<1>4. \A k \in 1..Len(plan.numbers) : k <= i \/ k > i
  BY <1>1
<1>5. QED
  BY <1>1, <1>2, <1>3, <1>4 DEF StepsInOrder

(* Every step of the commands, and of the end of the program, keeps this.  *)
LEMMA PlanKept == PlanInv /\ [PlanNext]_planVars => PlanInv'
<1> SUFFICES ASSUME PlanInv, [PlanNext]_planVars PROVE PlanInv'
  OBVIOUS
<1>1. PlanTypeOK /\ FewTries /\ FileTells /\ PlanTells /\ StepsInOrder
  BY DEF PlanInv
<1>2. ASSUME NEW p \in PlanIds, NEW numbers \in Numberings, Generate(p, numbers)
      PROVE  PlanInv'
  <2> DEFINE new == [id |-> p, numbers |-> numbers, done |-> {}, saved |-> FALSE]
  <2>1. /\ planPc = "idle" /\ planFile[p] = NoFile
        /\ plan' = new
        /\ tries' = [tries EXCEPT ![p] = [i \in 1..Len(numbers) |-> 0]]
        /\ planPc' = "saving" /\ UNCHANGED <<planFile, planStep, trouble>>
    BY <1>2 DEF Generate, PlanIdle
  <2>2. numbers \in Seq(Nat) /\ Len(numbers) \in Nat
    BY PlanAssumption
  <2>3. /\ plan' \in Plans /\ plan'.id = p /\ plan'.numbers = numbers /\ plan'.done = {}
    BY <2>1, <2>2 DEF Plans
  <2>4. /\ DOMAIN tries' = PlanIds /\ tries' = [q \in PlanIds |-> tries'[q]]
        /\ tries'[p] = [i \in 1..Len(numbers) |-> 0]
        /\ \A q \in PlanIds : q # p => tries'[q] = tries[q]
    BY <1>1, <2>1 DEF PlanTypeOK
  <2>5. NoFile \notin PlanFiles
    BY <1>1, ReadableIsPlan
  <2>6. PlanTypeOK'
    BY <1>1, <2>1, <2>3, <2>4 DEF PlanTypeOK
  <2>7. FewTries'
    BY <1>1, <2>1, <2>4 DEF PlanTypeOK, FewTries
  <2>8. FileTells'
    BY <1>1, <2>1, <2>4, <2>5 DEF FileTells, Unwritten, Distinct
  <2>9. PlanTells'
    BY <1>1, <2>1, <2>2, <2>3, <2>4, <2>5 DEF PlanTells, PlanTypeOK
  <2>10. StepsInOrder'
    BY <2>1, <2>3 DEF StepsInOrder
  <2>11. QED
    BY <2>6, <2>7, <2>8, <2>9, <2>10 DEF PlanInv
<1>3. ASSUME SavePlan PROVE PlanInv'
  <2>1. /\ planPc = "saving" /\ planPc' = "idle" /\ UNCHANGED <<planStep, tries>>
        /\ plan \in Plans /\ plan.id \in PlanIds /\ plan.numbers \in Seq(Nat)
        /\ plan.done = {} /\ planFile[plan.id] = NoFile
    BY <1>1, <1>3 DEF SavePlan, PlanTypeOK, Planning, Plans, StepsInOrder
  <2>2. NoFile \notin PlanFiles
    BY <1>1, <2>1, ReadableIsPlan
  <2>3. StepsInOrder'
    BY <2>1 DEF StepsInOrder
  <2>4. CASE PlanWriteFails(plan.id) /\ UNCHANGED plan
    <3>1. /\ planFile' \in [PlanIds -> PlanFiles \cup {NoFile, TornFile}]
          /\ trouble' = trouble + 1
          /\ \A q \in PlanIds : planFile'[q] \in PlanFiles => planFile'[q] = planFile[q]
          /\ FewTries' /\ FileTells'
      BY <2>1, <2>4, WriteFailed DEF PlanWriteFails
    <3>2. PlanTypeOK'
      BY <1>1, <2>1, <2>4, <3>1 DEF PlanTypeOK, Planning
    <3>3. planFile'[plan.id] \notin PlanFiles
      BY <2>1, <2>2, <3>1
    <3>4. PlanTells'
      <4>1. \A i \in 1..Len(plan.numbers) : tries[plan.id][i] <= trouble'
        BY <1>1, <2>1, <3>1 DEF FewTries, PlanTells, Planning, PlanTypeOK
      <4>2. QED
        BY <1>1, <2>1, <2>4, <3>3, <4>1 DEF PlanTells, Planning
    <3>5. QED
      BY <2>3, <3>1, <3>2, <3>4 DEF PlanInv
  <2>5. CASE /\ PlanWrite(plan.id, [numbers |-> plan.numbers, completed |-> {},
                                   status |-> "in_progress"])
             /\ plan' = [plan EXCEPT !.saved = TRUE]
    <3> DEFINE p == plan.id
               f == [numbers |-> plan.numbers, completed |-> {}, status |-> "in_progress"]
    <3>1. /\ f \in PlanFiles /\ f.numbers = plan.numbers /\ f.completed = {}
      BY <2>1 DEF PlanFiles
    <3>2. planFile' = [planFile EXCEPT ![p] = f] /\ UNCHANGED trouble
      BY <2>5 DEF PlanWrite
    <3> HIDE DEF f
    <3>3. /\ planFile' \in [PlanIds -> PlanFiles \cup {NoFile, TornFile}]
          /\ planFile'[p] = f
          /\ \A q \in PlanIds : q # p => planFile'[q] = planFile[q]
      BY <1>1, <2>1, <3>1, <3>2 DEF PlanTypeOK
    <3>4. /\ plan' \in Plans /\ plan'.id = p /\ plan'.numbers = plan.numbers
          /\ plan'.done = {} /\ plan'.saved
      BY <2>1, <2>5, PlanSavedNow
    <3>5. /\ DOMAIN tries[p] = 1..Len(plan.numbers)
          /\ \A i \in 1..Len(plan.numbers) : tries[p][i] <= trouble
      BY <1>1, <2>1 DEF PlanTells, Planning
    <3>6. PlanTypeOK'
      BY <1>1, <2>1, <3>2, <3>3, <3>4 DEF PlanTypeOK
    <3>7. FewTries'
      BY <1>1, <2>1, <3>2 DEF FewTries
    <3>8. FileTells'
      BY <1>1, <2>1, <3>1, <3>2, <3>3, <3>5 DEF FileTells, Unwritten, Distinct
    <3>9. PlanTells'
      BY <2>1, <3>1, <3>2, <3>3, <3>4, <3>5 DEF PlanTells
    <3>10. QED
      BY <2>3, <3>6, <3>7, <3>8, <3>9 DEF PlanInv
  <2>6. QED
    BY <1>3, <2>4, <2>5 DEF SavePlan
<1>4. ASSUME Approve PROVE PlanInv'
  <2>1. /\ planPc = "idle" /\ plan # NoPlan /\ GoTo(StepAfter(0))
        /\ UNCHANGED <<planFile, plan, tries, trouble>>
    BY <1>4 DEF Approve, PlanIdle
  <2>2. plan.numbers \in Seq(Nat) /\ 0 \in Nat
    BY <1>1, <2>1 DEF PlanTypeOK, Planning, Plans
  <2>3. \A k \in 1..Len(plan.numbers) : k <= 0 => k \in plan.done
    BY <2>2
  <2>4. /\ planPc' \in {"executing", "completing"} /\ planStep' \in Nat
        /\ StepsInOrder'
    BY <2>1, <2>2, <2>3, NextInOrder
  <2>5. PlanTypeOK'
    BY <1>1, <2>1, <2>4 DEF PlanTypeOK, Planning
  <2>6. FewTries' /\ FileTells' /\ PlanTells'
    BY <1>1, <2>1, <2>4 DEF FewTries, FileTells, PlanTells, Unwritten, Distinct, Planning
  <2>7. QED
    BY <2>4, <2>5, <2>6 DEF PlanInv
<1>5. ASSUME ExecuteStep PROVE PlanInv'
  <2>1. /\ planPc = "executing" /\ planPc' = "checkpoint"
        /\ UNCHANGED <<planFile, planStep, trouble>>
        /\ plan' = [plan EXCEPT !.done = @ \cup {planStep}]
    BY <1>5 DEF ExecuteStep
  <2>2. /\ plan \in Plans /\ plan.id \in PlanIds /\ plan.numbers \in Seq(Nat)
        /\ planStep \in 1..Len(plan.numbers) /\ planStep \notin plan.done
        /\ planStep \in Nat /\ trouble \in Nat
        /\ \A i \in 1..Len(plan.numbers) : i < planStep => i \in plan.done
    BY <1>1, <2>1 DEF PlanTypeOK, Planning, Plans, StepsInOrder
  <2>3. /\ plan' \in Plans /\ plan'.id = plan.id /\ plan'.numbers = plan.numbers
        /\ plan'.saved = plan.saved /\ plan'.done = plan.done \cup {planStep}
    BY <2>1, <2>2, PlanStepDone
  <2>4. /\ DOMAIN tries' = PlanIds /\ tries' = [p \in PlanIds |-> tries'[p]]
        /\ \A p \in PlanIds : DOMAIN tries'[p] = DOMAIN tries[p]
        /\ \A p \in PlanIds : \A i \in DOMAIN tries[p] :
             tries'[p][i] = IF p = plan.id /\ i = planStep THEN tries[p][i] + 1
                                                           ELSE tries[p][i]
    BY <1>5, OneTryMore
  <2>5. /\ DOMAIN tries[plan.id] = 1..Len(plan.numbers)
        /\ tries[plan.id][planStep] \in Nat
        /\ tries[plan.id][planStep] <= trouble
    BY <1>1, <2>1, <2>2 DEF PlanTells, Planning, FewTries
  <2>6. PlanTypeOK'
    BY <1>1, <2>1, <2>3, <2>4 DEF PlanTypeOK
  <2>7. FewTries'
    BY <1>1, <2>1, <2>2, <2>4, <2>5 DEF FewTries
  <2>8. \A p \in PlanIds : \A i \in DOMAIN tries[p] :
          /\ tries[p][i] > 0 => tries'[p][i] > 0
          /\ ~Unwritten(p, i)' => tries'[p][i] = tries[p][i]
    BY <1>1, <2>1, <2>2, <2>3, <2>4 DEF FewTries, Unwritten
  <2>9. FileTells'
    BY <1>1, <2>1, <2>4, <2>8 DEF FileTells, Unwritten, Distinct
  <2>10. PlanTells'
    <3>1. \A i \in plan'.done : i \in plan.done \/ i = planStep
      BY <2>3
    <3>2. tries'[plan.id][planStep] > 0
      BY <2>2, <2>4, <2>5
    <3>3. \A i \in 1..Len(plan.numbers) : i \notin plan'.done => tries'[plan.id][i] <= trouble
      BY <1>1, <2>1, <2>2, <2>3, <2>4, <2>5 DEF PlanTells, Planning
    <3>4. Distinct(plan.numbers) => \A i \in plan'.done : tries'[plan.id][i] > 0
      BY <1>1, <2>1, <2>2, <2>5, <2>8, <3>1, <3>2 DEF PlanTells, Planning
    <3>5. QED
      BY <1>1, <2>1, <2>2, <2>3, <2>4, <3>3, <3>4 DEF PlanTells, Planning, Distinct
  <2>11. StepsInOrder'
    BY <2>1, <2>2, <2>3 DEF StepsInOrder
  <2>12. QED
    BY <2>6, <2>7, <2>9, <2>10, <2>11 DEF PlanInv
<1>6. ASSUME Checkpoint PROVE PlanInv'
  <2>1. /\ planPc = "checkpoint" /\ GoTo(StepAfter(planStep))
        /\ UNCHANGED <<plan, tries>>
        /\ Rewrite(plan.done, planFile[plan.id].status)
    BY <1>6 DEF Checkpoint
  <2>2. /\ plan.numbers \in Seq(Nat) /\ planStep \in Nat /\ trouble \in Nat
        /\ plan.id \in PlanIds
    BY <1>1, <2>1 DEF PlanTypeOK, Planning, Plans
  <2>3. \A k \in 1..Len(plan.numbers) : k <= planStep => k \in plan.done
    BY <1>1, <2>1, <2>2 DEF StepsInOrder
  <2>4. /\ planPc' \in {"executing", "completing"} /\ planStep' \in Nat
        /\ StepsInOrder'
    BY <2>1, <2>2, <2>3, NextInOrder
  <2>5. planFile[plan.id] \in PlanFiles => planFile[plan.id].status \in {"in_progress", "complete"}
    BY DEF PlanFiles
  <2>6. /\ planFile' \in [PlanIds -> PlanFiles \cup {NoFile, TornFile}]
        /\ trouble' \in Nat /\ trouble' >= trouble
        /\ \A q \in PlanIds : planFile'[q] \in PlanFiles =>
             /\ planFile[q] \in PlanFiles
             /\ planFile'[q].numbers = planFile[q].numbers
        /\ FewTries' /\ FileTells'
    BY <2>1, <2>4, <2>5, WrittenBehind
  <2>7. PlanTypeOK'
    BY <1>1, <2>1, <2>4, <2>6 DEF PlanTypeOK, Planning
  <2>8. PlanTells'
    <3>1. \A i \in 1..Len(plan.numbers) : i \notin plan.done => tries[plan.id][i] <= trouble'
      BY SMTT(30), <1>1, <2>1, <2>2, <2>6 DEF PlanTells, Planning, FewTries
    <3>2. QED
      BY <1>1, <2>1, <2>2, <2>6, <3>1 DEF PlanTells, Planning, Distinct
  <2>9. QED
    BY <2>4, <2>6, <2>7, <2>8 DEF PlanInv
<1>7. ASSUME Complete PROVE PlanInv'
  <2>1. /\ planPc = "completing" /\ planPc' = "idle" /\ plan' = NoPlan
        /\ UNCHANGED <<planStep, tries>>
        /\ Rewrite(1..Len(plan.numbers), "complete")
    BY <1>7 DEF Complete
  <2>2. 1..Len(plan.numbers) = plan.done
    BY <1>1, <2>1 DEF StepsInOrder, PlanTells, Planning
  <2>3. Rewrite(plan.done, "complete")
    BY <2>1, <2>2
  <2>4. /\ planFile' \in [PlanIds -> PlanFiles \cup {NoFile, TornFile}]
        /\ trouble' \in Nat
        /\ FewTries' /\ FileTells'
    BY <2>1, <2>3, WrittenBehind
  <2>5. PlanTypeOK' /\ PlanTells' /\ StepsInOrder'
    BY <1>1, <2>1, <2>4 DEF PlanTypeOK, Planning, PlanTells, StepsInOrder
  <2>6. QED
    BY <2>4, <2>5 DEF PlanInv
<1>8. ASSUME Cancel \/ ResumeUnknown PROVE PlanInv'
  <2>1. /\ planPc = "idle" /\ plan' = NoPlan
        /\ UNCHANGED <<planFile, planPc, planStep, tries, trouble>>
    BY <1>8 DEF Cancel, ResumeUnknown, PlanIdle
  <2>2. PlanTypeOK' /\ PlanTells' /\ StepsInOrder'
    BY <1>1, <2>1 DEF PlanTypeOK, Planning, PlanTells, StepsInOrder
  <2>3. FewTries' /\ FileTells'
    BY <1>1, <2>1 DEF FewTries, FileTells, Unwritten, Distinct
  <2>4. QED
    BY <2>2, <2>3 DEF PlanInv
<1>9. ASSUME NEW p \in PlanIds, Resume(p) PROVE PlanInv'
  <2> DEFINE f == planFile[p]
  <2>1. /\ planPc = "idle" /\ f \in PlanFiles
        /\ plan' = [id |-> p, numbers |-> f.numbers, saved |-> TRUE,
                    done |-> {i \in 1..Len(f.numbers) : f.numbers[i] \in f.completed}]
        /\ UNCHANGED <<planFile, planPc, planStep, tries, trouble>>
    BY <1>1, <1>9, ReadableIsPlan DEF Resume, PlanIdle
  <2>2. f.numbers \in Seq(Nat) /\ Len(f.numbers) \in Nat
    BY <2>1 DEF PlanFiles
  <2>3. /\ plan' \in Plans /\ plan'.id = p /\ plan'.numbers = f.numbers /\ plan'.saved
        /\ plan'.done = {i \in 1..Len(f.numbers) : f.numbers[i] \in f.completed}
    BY <2>1, <2>2 DEF Plans
  <2>4. PlanTypeOK'
    BY <1>1, <2>1, <2>3 DEF PlanTypeOK
  <2>5. FewTries' /\ FileTells'
    BY <1>1, <2>1 DEF FewTries, FileTells, Unwritten, Distinct
  <2>6. /\ DOMAIN tries[p] = 1..Len(f.numbers)
        /\ Distinct(f.numbers) =>
             \A i \in 1..Len(f.numbers) : f.numbers[i] \in f.completed => tries[p][i] > 0
        /\ \A i \in 1..Len(f.numbers) : f.numbers[i] \notin f.completed => tries[p][i] <= trouble
    BY <1>1, <2>1 DEF FileTells, Unwritten
  <2>7. PlanTells'
    BY <2>1, <2>2, <2>3, <2>6 DEF PlanTells, Distinct
  <2>8. StepsInOrder'
    BY <2>1 DEF StepsInOrder
  <2>9. QED
    BY <2>4, <2>5, <2>7, <2>8 DEF PlanInv
<1>10. ASSUME PlanStop PROVE PlanInv'
  <2>1. /\ trouble' = trouble + 1 /\ plan' = NoPlan /\ planPc' = "idle"
        /\ UNCHANGED <<planStep, tries>>
        /\ \/ planFile' = planFile
           \/ planPc # "idle" /\ planFile' = [planFile EXCEPT ![plan.id] = TornFile]
    BY <1>10 DEF PlanStop, Writing
  <2>2. planPc # "idle" => plan.id \in PlanIds
    BY <1>1 DEF PlanTypeOK, Planning, Plans
  <2>3. CASE PlanIds = {}
    <3>1. planFile' = planFile
      BY <2>1, <2>2, <2>3
    <3>2. PlanTypeOK'
      BY <1>1, <2>1, <3>1 DEF PlanTypeOK, Planning
    <3>3. QED
      BY <2>1, <2>3, <3>2 DEF PlanInv, FewTries, FileTells, PlanTells, StepsInOrder, Planning
  <2>4. CASE PlanIds # {}
    <3>1. PICK p \in PlanIds : planFile' \in {planFile, [planFile EXCEPT ![p] = TornFile]}
      BY <2>1, <2>2, <2>4
    <3>2. /\ planFile' \in [PlanIds -> PlanFiles \cup {NoFile, TornFile}]
          /\ FewTries' /\ FileTells'
      BY <2>1, <3>1, WriteFailed
    <3>3. PlanTypeOK' /\ PlanTells' /\ StepsInOrder'
      BY <1>1, <2>1, <3>2 DEF PlanTypeOK, Planning, PlanTells, StepsInOrder
    <3>4. QED
      BY <3>2, <3>3 DEF PlanInv
  <2>5. QED
    BY <2>3, <2>4
<1>11. CASE UNCHANGED planVars
  BY <1>1, <1>11 DEF planVars, PlanInv, PlanTypeOK, FewTries, FileTells, PlanTells,
                     StepsInOrder, Unwritten, Distinct, Planning
<1>12. QED
  BY <1>2, <1>3, <1>4, <1>5, <1>6, <1>7, <1>8, <1>9, <1>10, <1>11 DEF PlanNext

(* What a plan file says is completed was handed to the model, and a step  *)
(* is executed again only after trouble: for any plans, numberings and     *)
(* interruptions.                                                          *)
THEOREM PlansFollowExecution == PlanSpec => []PlanFollowsExecution
<1>1. PlanInit => PlanInv
  <2> SUFFICES ASSUME PlanInit PROVE PlanInv
    OBVIOUS
  <2>1. /\ planFile = [p \in PlanIds |-> NoFile] /\ plan = NoPlan /\ planPc = "idle"
        /\ planStep = 0 /\ tries = [p \in PlanIds |-> <<>>] /\ trouble = 0
    BY DEF PlanInit
  <2>2. NoFile \notin PlanFiles
    BY DEF NoFile, PlanFiles
  <2>3. \A p \in PlanIds : DOMAIN tries[p] = {}
    BY <2>1
  <2>4. PlanTypeOK
    BY <2>1 DEF PlanTypeOK, Planning
  <2>5. FewTries
    BY <2>3 DEF FewTries
  <2>6. FileTells /\ PlanTells /\ StepsInOrder
    BY <2>1, <2>2 DEF FileTells, PlanTells, StepsInOrder, Planning
  <2>7. QED
    BY <2>4, <2>5, <2>6 DEF PlanInv
<1>2. PlanInv => PlanFollowsExecution
  <2> SUFFICES ASSUME PlanInv PROVE CompletedWasTried /\ RepeatedOnlyAfterTrouble
    BY DEF PlanFollowsExecution
  <2>1. CompletedWasTried
    BY ReadableIsPlan DEF PlanInv, FileTells, CompletedWasTried
  <2>2. QED
    BY <2>1 DEF PlanInv, FewTries, RepeatedOnlyAfterTrouble
<1>3. QED
  BY <1>1, <1>2, PlanKept, PTL DEF PlanSpec

-----------------------------------------------------------------------------
(* ToolBuilder: tools are in hand.                                         *)

\* What a registry says of a name.
ToolStates == {"none", "enabled", "disabled"}

\* Where a command of the registry is.
ToolCommands ==
  [stage : {"idle", "validate", "register", "save", "unregister", "registerBuilt", "saveBuilt"},
   about : SUBSET ToolNames]

\* A tool that is being generated.
Builds == [stage : {"generate", "write"}, about : SUBSET ToolNames,
           how : {"reflect", "once", "unvalidated"}, tries : Nat,
           code : {"passes", "fails", "none"}]

\* Every variable has its type.
ToolsTypeOK ==
  /\ tools \in [ToolNames -> ToolStates]
  /\ toolIndex.entries \in [ToolNames -> ToolStates]
  /\ toolFile \in [ToolNames -> {"none", "passes", "fails", "torn"}]
  /\ accepted \subseteq ToolNames
  /\ toolPc \in ToolCommands \cup Builds
  /\ toolRun \in [ToolNames -> {"none", "started", "reading", "waiting", "reported"}]
  /\ toolProc \in [ToolNames -> {"none", "running", "killed", "over"}]

\* Every tool of the file is one of the memory, but for one whose removal has
\* still to be saved.
MemoryLeads ==
  toolPc.stage # "save" =>
    \A n \in ToolNames : toolIndex.entries[n] # "none" => tools[n] # "none"

\* What is about to be written is no tool yet, and what is about to be
\* registered has been accepted.
CommandKnows ==
  \A n \in toolPc.about :
    /\ toolPc.stage \in {"generate", "write"} => tools[n] = "none"
    /\ toolPc.stage \in {"register", "registerBuilt"} => n \in accepted
    /\ toolPc.stage = "write" => Suffices(toolPc.code)

\* A run that has made no process has none.
RunsInOrder == \A n \in ToolNames : toolRun[n] = "started" => toolProc[n] = "none"

\* The parts together, with what is promised, are inductive.
ToolsInv == ToolsTypeOK /\ MemoryLeads /\ CommandKnows /\ RunsInOrder /\ ToolsInHand

(* A command that generates is a build.                                    *)
LEMMA CommandIsNoBuild ==
  ASSUME ToolsTypeOK
  PROVE  /\ toolPc.stage \in {"generate", "write"} => toolPc \in Builds
         /\ toolPc.about \subseteq ToolNames
BY DEF ToolsTypeOK, ToolCommands, Builds

(* What a command begins with.                                             *)
LEMMA NewCommand ==
  ASSUME NEW n \in ToolNames,
         NEW stage \in {"validate", "register", "save", "unregister",
                        "registerBuilt", "saveBuilt"}
  PROVE  /\ At(stage, n) \in ToolCommands /\ NoToolCommand \in ToolCommands
         /\ At(stage, n).stage = stage /\ At(stage, n).about = {n}
         /\ NoToolCommand.stage = "idle" /\ NoToolCommand.about = {}
BY DEF At, NoToolCommand, ToolCommands

(* What is between two commands.                                           *)
LEMMA NoCommand ==
  /\ NoToolCommand \in ToolCommands
  /\ NoToolCommand.stage = "idle" /\ NoToolCommand.about = {}
BY DEF NoToolCommand, ToolCommands

(* A build that has its code is to be written.                             *)
LEMMA BuildSucceeds ==
  ASSUME NEW b \in Builds, NEW code \in {"passes", "fails", "none"}
  PROVE  LET c == [b EXCEPT !.stage = "write", !.code = code] IN
         /\ c \in Builds /\ c.stage = "write" /\ c.about = b.about
         /\ c.code = code /\ c.how = b.how
BY DEF Builds

(* A build that tries once more is the same build.                         *)
LEMMA BuildFails ==
  ASSUME NEW b \in Builds
  PROVE  LET c == [b EXCEPT !.tries = @ + 1] IN
         /\ c \in Builds /\ c.stage = b.stage /\ c.about = b.about
         /\ c.code = b.code /\ c.how = b.how
BY DEF Builds

(* The thread of a run and its process change nothing of the registry.     *)
LEMMA RunKept ==
  ASSUME ToolsInv, NEW n \in ToolNames, ToolThread(n) \/ ToolExits(n)
  PROVE  ToolsInv'
<1>1. UNCHANGED TheRegistry
  BY DEF ToolThread, ToolExits, LaunchTool, LateLine, OutputEnds, ReportRun
<1>2. UNCHANGED <<tools, toolIndex, toolFile, accepted, toolPc>>
  BY <1>1 DEF TheRegistry
<1>3. /\ toolRun' \in [ToolNames -> {"none", "started", "reading", "waiting", "reported"}]
      /\ toolProc' \in [ToolNames -> {"none", "running", "killed", "over"}]
      /\ RunsInOrder' /\ ReportedRunIsOver'
  BY DEF ToolsInv, ToolsTypeOK, RunsInOrder, ToolsInHand, ReportedRunIsOver, ToolThread,
         ToolExits, LaunchTool, LateLine, OutputEnds, ReportRun
<1>4. ToolsTypeOK' /\ MemoryLeads' /\ CommandKnows' /\ RegisteredIsAccepted'
  BY <1>2, <1>3 DEF ToolsInv, ToolsTypeOK, MemoryLeads, CommandKnows, Suffices,
                    ToolsInHand, RegisteredIsAccepted
<1>5. QED
  BY <1>3, <1>4 DEF ToolsInv, ToolsInHand

(* The commands of the program.                                            *)
LEMMA CommandKept ==
  ASSUME ToolsInv, ToolsNext, 
         ~(\E n \in ToolNames : ToolThread(n) \/ ToolExits(n))
  PROVE  ToolsInv'
<1> USE DEF ToolsInv, ToolsTypeOK, MemoryLeads, CommandKnows, RunsInOrder, ToolsInHand,
            RegisteredIsAccepted, ReportedRunIsOver, ToolsIdle, Free, TheRuns, ToolStates
<1>1. ASSUME NEW n \in ToolNames, WriteTool(n) PROVE ToolsInv'
  BY <1>1, NewCommand, NoCommand DEF WriteTool, Suffices
<1>2. ASSUME NEW n \in ToolNames, DeleteTool(n) PROVE ToolsInv'
  BY <1>2, NewCommand DEF DeleteTool, Suffices
<1>3. ASSUME NEW n \in ToolNames, RunTool(n) PROVE ToolsInv'
  BY <1>3, NewCommand DEF RunTool, ChangeTool, Suffices
<1>4. ASSUME NEW n \in ToolNames, NEW to \in {"enabled", "disabled"}, SetEnabled(n, to)
      PROVE  ToolsInv'
  BY <1>4, NewCommand DEF SetEnabled, ChangeTool, Suffices
<1>5. ASSUME Validate PROVE ToolsInv'
  BY <1>5, NewCommand, NoCommand, CommandIsNoBuild DEF Validate, Suffices
<1>6. ASSUME Register PROVE ToolsInv'
  BY <1>6, NewCommand, CommandIsNoBuild DEF Register, ChangeTool, Suffices
<1>7. ASSUME SaveTools PROVE ToolsInv'
  BY <1>7, NoCommand DEF SaveTools, Suffices
<1>8. ASSUME Unregister PROVE ToolsInv'
  BY <1>8, NewCommand, CommandIsNoBuild DEF Unregister, ChangeTool, Suffices
<1>9. ASSUME ToolsStop PROVE ToolsInv'
  BY <1>9, NoCommand DEF ToolsStop, BrokenIndex, NoTools, Suffices
<1>10. QED
  BY <1>1, <1>2, <1>3, <1>4, <1>5, <1>6, <1>7, <1>8, <1>9 DEF ToolsNext

(* The builder.                                                            *)
LEMMA BuilderKept ==
  ASSUME ToolsInv, BuilderNext
  PROVE  ToolsInv'
<1> USE DEF ToolsInv, ToolsTypeOK, MemoryLeads, CommandKnows, RunsInOrder, ToolsInHand,
            RegisteredIsAccepted, ReportedRunIsOver, ToolsIdle, Free, TheRuns, TheFiles,
            ToolStates
<1>1. ASSUME NEW n \in ToolNames, BeginBuild(n) PROVE ToolsInv'
  <2>1. PICK how \in {"reflect", "once", "unvalidated"} :
          toolPc' = [stage |-> "generate", about |-> {n}, how |-> how,
                     tries |-> 0, code |-> "none"]
    BY <1>1 DEF BeginBuild
  <2>2. toolPc' \in Builds /\ toolPc'.stage = "generate" /\ toolPc'.about = {n}
    BY ONLY <2>1, n \in ToolNames DEF Builds
  <2>3. /\ toolPc.stage = "idle" /\ tools[n] = "none"
        /\ UNCHANGED <<tools, toolIndex, toolFile, accepted, toolRun, toolProc>>
    BY <1>1, NoCommand DEF BeginBuild
  <2>4. ToolsTypeOK' /\ RunsInOrder' /\ RegisteredIsAccepted' /\ ReportedRunIsOver'
    BY <2>2, <2>3
  <2>5. MemoryLeads'
    BY <2>2, <2>3
  <2>6. CommandKnows'
    BY <2>2, <2>3
  <2>7. QED
    BY <2>4, <2>5, <2>6
<1>2. ASSUME NEW n \in ToolNames, UpdateTool(n) PROVE ToolsInv'
  <2>1. /\ toolPc.stage = "idle" /\ tools[n] # "none"
        /\ UNCHANGED <<toolIndex, toolRun, toolProc>>
    BY <1>2 DEF UpdateTool
  <2>2. CASE /\ \E content \in {"passes", "fails"} : toolFile' = [toolFile EXCEPT ![n] = content]
             /\ accepted' = accepted \cup {n}
             /\ ChangeTool(n, tools[n])
    <3>1. /\ toolPc' \in ToolCommands /\ toolPc'.stage = "save" /\ toolPc'.about = {n}
          /\ tools' = tools
      BY <2>2, NewCommand DEF ChangeTool
    <3>2. QED
      BY <2>1, <2>2, <3>1
  <2>3. CASE /\ toolFile' = [toolFile EXCEPT ![n] = "torn"]
             /\ accepted' = accepted \ {n}
             /\ UNCHANGED <<tools, toolPc>>
    BY <2>1, <2>3
  <2>4. QED
    BY <1>2, <2>2, <2>3 DEF UpdateTool
<1>3. ASSUME GenerateTool PROVE ToolsInv'
  <2>1. toolPc.stage = "generate" /\ toolPc \in Builds
    BY <1>3, CommandIsNoBuild DEF GenerateTool
  <2>2. PICK code \in {"passes", "fails", "none"} :
          Suffices(code) /\ toolPc' = [toolPc EXCEPT !.stage = "write", !.code = code]
    BY <1>3 DEF GenerateTool, Answers
  <2>3. /\ toolPc' \in Builds /\ toolPc'.stage = "write" /\ toolPc'.about = toolPc.about
        /\ toolPc'.code = code /\ toolPc'.how = toolPc.how
    BY ONLY <2>1, <2>2, BuildSucceeds
  <2>4. Suffices(toolPc.code)'
    BY <2>2, <2>3 DEF Suffices
  <2>5. QED
    BY <1>3, <2>1, <2>3, <2>4 DEF GenerateTool
<1>4. ASSUME GenerateInVain PROVE ToolsInv'
  <2>1. toolPc.stage = "generate" /\ toolPc \in Builds
    BY <1>4, CommandIsNoBuild DEF GenerateInVain
  <2>2. toolPc' = [toolPc EXCEPT !.tries = @ + 1] \/ toolPc' = NoToolCommand
    BY <1>4 DEF GenerateInVain
  <2>3. \/ toolPc' \in Builds /\ toolPc'.stage = "generate" /\ toolPc'.about = toolPc.about
        \/ toolPc' = NoToolCommand
    BY ONLY <2>1, <2>2, BuildFails
  <2>4. QED
    BY <1>4, <2>1, <2>3, NoCommand DEF GenerateInVain
<1>5. ASSUME WriteBuilt PROVE ToolsInv'
  <2>1. toolPc.stage = "write" /\ toolPc \in Builds
    BY <1>5, CommandIsNoBuild DEF WriteBuilt
  <2>2. PICK n \in toolPc.about :
          \/ /\ toolFile' = [toolFile EXCEPT ![n] = toolPc.code]
             /\ accepted' = IF Suffices(toolPc.code) THEN accepted \cup {n} ELSE accepted \ {n}
             /\ toolPc' = At("registerBuilt", n)
          \/ /\ toolFile' = [toolFile EXCEPT ![n] = "fails"]
             /\ accepted' = accepted \ {n}
             /\ toolPc' = NoToolCommand
          \/ /\ toolPc' = NoToolCommand
             /\ UNCHANGED <<toolFile, accepted>>
    BY <1>5 DEF WriteBuilt
  <2>3. /\ n \in ToolNames /\ tools[n] = "none" /\ toolIndex.entries[n] = "none"
        /\ Suffices(toolPc.code) /\ toolPc.code \in {"passes", "fails", "none"}
    BY <2>1, <2>2, CommandIsNoBuild DEF Builds
  <2>4. UNCHANGED <<tools, toolIndex, toolRun, toolProc>>
    BY <1>5 DEF WriteBuilt
  <2>5. /\ toolPc' \in ToolCommands
        /\ \/ toolPc'.stage = "registerBuilt" /\ toolPc'.about = {n} /\ n \in accepted'
           \/ toolPc'.stage = "idle" /\ toolPc'.about = {}
    BY ONLY <2>2, <2>3, NewCommand, NoCommand
  <2>6. /\ toolFile' \in [ToolNames -> {"none", "passes", "fails", "torn"}]
        /\ accepted' \subseteq ToolNames
        /\ \A m \in ToolNames :
             m # n => toolFile'[m] = toolFile[m] /\ (m \in accepted <=> m \in accepted')
    BY <2>2, <2>3
  <2>7. RegisteredIsAccepted'
    BY <2>3, <2>4, <2>6
  <2>8. QED
    BY <2>1, <2>3, <2>4, <2>5, <2>6, <2>7
<1>6. ASSUME RegisterBuilt PROVE ToolsInv'
  <2>1. PICK n \in toolPc.about :
          tools' = [tools EXCEPT ![n] = "enabled"] /\ toolPc' = At("saveBuilt", n)
    BY <1>6 DEF RegisterBuilt
  <2>2. n \in ToolNames /\ n \in accepted
    BY <1>6, <2>1, CommandIsNoBuild DEF RegisterBuilt
  <2>3. /\ toolPc' \in ToolCommands
        /\ toolPc'.stage = "saveBuilt" /\ toolPc'.about = {n}
    BY <2>1, <2>2, NewCommand
  <2>4. QED
    BY <1>6, <2>1, <2>2, <2>3 DEF RegisterBuilt
<1>7. ASSUME SaveBuilt PROVE ToolsInv'
  BY <1>7, NoCommand DEF SaveBuilt, BrokenIndex, NoTools, Suffices
<1>8. QED
  BY <1>1, <1>2, <1>3, <1>4, <1>5, <1>6, <1>7 DEF BuilderNext

(* No tool is registered that was not let in, and no run reported as done  *)
(* left anything running.                                                  *)
THEOREM ToolsStayInHand == BuilderSpec => []ToolsInHand
<1>1. ToolsInit => ToolsInv
  BY NoCommand DEF ToolsInit, ToolsInv, ToolsTypeOK, MemoryLeads, CommandKnows, RunsInOrder,
     ToolsInHand, RegisteredIsAccepted, ReportedRunIsOver, NoTools, ToolStates
<1>2. ToolsInv /\ [ToolsNext \/ BuilderNext]_toolVars => ToolsInv'
  <2> SUFFICES ASSUME ToolsInv, [ToolsNext \/ BuilderNext]_toolVars PROVE ToolsInv'
    OBVIOUS
  <2>1. ASSUME NEW n \in ToolNames, ToolThread(n) \/ ToolExits(n) PROVE ToolsInv'
    BY <2>1, RunKept
  <2>2. CASE ToolsNext /\ ~(\E n \in ToolNames : ToolThread(n) \/ ToolExits(n))
    BY <2>2, CommandKept
  <2>3. CASE BuilderNext
    BY <2>3, BuilderKept
  <2>4. CASE UNCHANGED toolVars
    BY <2>4 DEF toolVars, ToolsInv, ToolsTypeOK, MemoryLeads, CommandKnows, RunsInOrder,
       ToolsInHand, RegisteredIsAccepted, ReportedRunIsOver, Suffices
  <2>5. QED
    BY <2>1, <2>2, <2>3, <2>4
<1>3. ToolsInv => ToolsInHand
  BY DEF ToolsInv
<1>4. QED
  BY <1>1, <1>2, <1>3, PTL DEF BuilderSpec

-----------------------------------------------------------------------------
(* Settings: a save that stops grants nothing.                             *)

\* The settings of the file.
Keys == {"mode", "other", "route", "profile", "allow", "deny"}

\* What a save has still to set.
Saves == {SaveOrder, <<"other", "route", "profile", "allow", "deny">>,
          <<"route", "profile", "allow", "deny">>, <<"profile", "allow", "deny">>,
          <<"allow", "deny">>, <<"deny">>, <<>>}

\* The settings of the rest of a save.
LeftOf(s) == {s[i] : i \in DOMAIN s}

\* What a configuration says of the permissions.
Says(c) ==
  /\ c.mode \in Modes /\ c.profile \in DOMAIN Profiles
  /\ c.allow \subseteq Commands /\ c.deny \subseteq Commands

\* The engine knows no sandbox that a command sets.
Live(c) == DOMAIN c = Keys \cup {"sandbox"} /\ Says(c) /\ c.sandbox # "read_only"

\* Every variable has its type.
SettingsTypeOK ==
  /\ Live(cfg) /\ Live(before)
  /\ DOMAIN memory = Keys /\ Says(memory)
  /\ DOMAIN disk = Keys /\ Says(disk)
  /\ saving \in Saves
  /\ faults \in Nat
  /\ inStep \in BOOLEAN /\ behind \in BOOLEAN

\* A list of the configuration and what the store has of it: /allow and /deny
\* leave a command in the store that they have taken off one list only because
\* it is on the other.
Drifts(of, kept, other) == of \subseteq kept /\ kept \ of \subseteq other

\* The list of allowed commands, and what it may lag by.
AllowDrifts(c, f) == Drifts(c.allow, f.allow, c.deny)

\* The list of denied commands, the same way.
DenyDrifts(c, f) == Drifts(c.deny, f.deny, c.allow)

\* What the store has is what the save has set, and before that what the
\* configuration was, but for that drift.
StoreFollows ==
  /\ \A k \in Keys \ (LeftOf(saving) \cup {"route"}) :
       memory[k] = cfg[k] \/ (SettingsIdle /\ behind /\ k \in {"allow", "deny"})
  /\ "mode" \in LeftOf(saving) => memory.mode = before.mode
  /\ "profile" \in LeftOf(saving) => memory.profile = before.profile
  /\ "allow" \in LeftOf(saving) \/ SettingsIdle => AllowDrifts(before, memory)
  /\ "deny" \in LeftOf(saving) \/ SettingsIdle => DenyDrifts(before, memory)

\* The file has what the store has, unless a write failed.
FileFollows == ~behind => disk = memory

\* The file has the old settings up to one of them, and the new ones from there.
PartlySaved(f) ==
  /\ f.mode \in {before.mode, cfg.mode}
  /\ \/ f.profile = before.profile
     \/ f.profile = cfg.profile /\ f.mode = cfg.mode
  /\ \/ AllowDrifts(before, f)
     \/ f.allow = cfg.allow /\ f.profile = cfg.profile /\ f.mode = cfg.mode
  /\ \/ DenyDrifts(before, f)
     \/ f.deny = cfg.deny /\ f.allow = cfg.allow /\ f.profile = cfg.profile /\ f.mode = cfg.mode

\* A command changes the lists, or the mode with the profile; and it leaves
\* nothing on both lists that was not on the denylist before.
OneKindOfChange ==
  /\ cfg.allow \cap cfg.deny \subseteq before.deny
  /\ \/ cfg.allow = before.allow /\ cfg.deny = before.deny
     \/ cfg.mode = before.mode /\ cfg.profile = before.profile

\* Between commands there is nothing to save; during one the file is as a save
\* leaves it.
SaveUnderWay ==
  IF SettingsIdle THEN before = cfg
  ELSE OneKindOfChange /\ (inStep => PartlySaved(disk))

\* The parts together are inductive.
SettingsInv == SettingsTypeOK /\ StoreFollows /\ FileFollows /\ SaveUnderWay

(* The settings of a save are all there are.                               *)
LEMMA KeysAreSaved == Saved = Keys
BY DEF Saved, Defaults, Keys

(* Where a save goes on.                                                   *)
LEMMA NextToSave ==
  ASSUME NEW s \in Saves, s # <<>>
  PROVE  /\ Head(s) \in Keys /\ Tail(s) \in Saves
         /\ LeftOf(Tail(s)) = LeftOf(s) \ {Head(s)} /\ Head(s) \in LeftOf(s)
         /\ Tail(s) = <<>> <=> Head(s) = "deny"
<1>1. CASE s = SaveOrder
  BY <1>1 DEF Saves, SaveOrder, LeftOf, Keys
<1>2. CASE s = <<"other", "route", "profile", "allow", "deny">>
  BY <1>2 DEF Saves, LeftOf, Keys
<1>3. CASE s = <<"route", "profile", "allow", "deny">>
  BY <1>3 DEF Saves, LeftOf, Keys
<1>4. CASE s = <<"profile", "allow", "deny">>
  BY <1>4 DEF Saves, LeftOf, Keys
<1>5. CASE s = <<"allow", "deny">>
  BY <1>5 DEF Saves, LeftOf, Keys
<1>6. CASE s = <<"deny">>
  BY <1>6 DEF Saves, LeftOf, Keys
<1>7. QED
  BY <1>1, <1>2, <1>3, <1>4, <1>5, <1>6 DEF Saves

(* ... and that what is left is what the order has left.                   *)
LEMMA SavedInOrder ==
  ASSUME NEW s \in Saves
  PROVE  /\ "mode" \in LeftOf(s) => "profile" \in LeftOf(s)
         /\ "profile" \in LeftOf(s) => "allow" \in LeftOf(s)
         /\ "allow" \in LeftOf(s) => "deny" \in LeftOf(s)
         /\ "deny" \notin LeftOf(s) <=> s = <<>>
         /\ s = <<>> => LeftOf(s) = {}
         /\ s = SaveOrder => LeftOf(s) = Keys
<1>1. LeftOf(SaveOrder) = Keys
  BY DEF SaveOrder, LeftOf, Keys
<1>2. LeftOf(<<"other", "route", "profile", "allow", "deny">>)
        = {"other", "route", "profile", "allow", "deny"}
  BY DEF LeftOf
<1>3. LeftOf(<<"route", "profile", "allow", "deny">>) = {"route", "profile", "allow", "deny"}
  BY DEF LeftOf
<1>4. LeftOf(<<"profile", "allow", "deny">>) = {"profile", "allow", "deny"}
  BY DEF LeftOf
<1>5. LeftOf(<<"allow", "deny">>) = {"allow", "deny"} /\ LeftOf(<<"deny">>) = {"deny"}
  BY DEF LeftOf
<1>6. LeftOf(<<>>) = {}
  BY DEF LeftOf
<1>7. SaveOrder # <<>> /\ SaveOrder # <<"deny">>
  BY DEF SaveOrder
<1>8. CASE s = SaveOrder
  BY <1>1, <1>7, <1>8 DEF Keys
<1>9. CASE s # SaveOrder
  BY <1>2, <1>3, <1>4, <1>5, <1>6, <1>9 DEF Saves
<1>10. QED
  BY <1>8, <1>9

(* While a save is under way the store, too, has the old settings up to    *)
(* one of them, and the new ones from there.                               *)
LEMMA StoreHasPart ==
  ASSUME SettingsTypeOK', StoreFollows', saving' # <<>>
  PROVE  PartlySaved(memory)'
<1>1. /\ "mode" \in LeftOf(saving') => "profile" \in LeftOf(saving')
      /\ "profile" \in LeftOf(saving') => "allow" \in LeftOf(saving')
      /\ "allow" \in LeftOf(saving') => "deny" \in LeftOf(saving')
  BY SavedInOrder DEF SettingsTypeOK
<1>2. \A k \in Keys \ {"route"} : k \notin LeftOf(saving') => memory'[k] = cfg'[k]
  BY DEF StoreFollows, SettingsIdle
<1>3. /\ "mode" \notin LeftOf(saving') => memory'.mode = cfg'.mode
      /\ "profile" \notin LeftOf(saving') => memory'.profile = cfg'.profile
      /\ "allow" \notin LeftOf(saving') => memory'.allow = cfg'.allow
      /\ "deny" \notin LeftOf(saving') => memory'.deny = cfg'.deny
  BY <1>2 DEF Keys
<1>4. QED
  BY <1>1, <1>3 DEF StoreFollows, PartlySaved

(* A command that saves what it changes.                                   *)
LEMMA ChangeKept ==
  ASSUME SettingsInv, NEW new, Change(new), Live(new),
         new.allow \cap new.deny \subseteq cfg.deny,
         \/ new.allow = cfg.allow /\ new.deny = cfg.deny
         \/ new.mode = cfg.mode /\ new.profile = cfg.profile
  PROVE  SettingsInv'
<1>1. /\ saving = <<>> /\ before = cfg /\ cfg' = new /\ saving' = SaveOrder
      /\ inStep' = (disk = memory)
      /\ memory' = memory /\ disk' = disk /\ before' = before /\ behind' = behind
      /\ faults' = faults
  BY DEF SettingsInv, SaveUnderWay, Change, SettingsIdle
<1>2. SaveOrder \in Saves /\ SaveOrder # <<>> /\ LeftOf(SaveOrder) = Keys
  <2>1. SaveOrder \in Saves /\ SaveOrder # <<>>
    BY DEF Saves, SaveOrder
  <2>2. QED
    BY <2>1, SavedInOrder
<1>3. /\ memory.mode = cfg.mode /\ memory.profile = cfg.profile
      /\ AllowDrifts(cfg, memory) /\ DenyDrifts(cfg, memory)
  <2>1. LeftOf(saving) = {}
    BY <1>1, SavedInOrder DEF SettingsInv, SettingsTypeOK
  <2>2. memory["mode"] = cfg["mode"] /\ memory["profile"] = cfg["profile"]
    BY <2>1 DEF SettingsInv, StoreFollows, Keys
  <2>3. QED
    BY <1>1, <2>2 DEF SettingsInv, StoreFollows, SettingsIdle
<1>4. SettingsTypeOK'
  BY <1>1, <1>2 DEF SettingsInv, SettingsTypeOK, Live, Says
<1>5. StoreFollows'
  BY <1>1, <1>2, <1>3 DEF StoreFollows, SettingsIdle, AllowDrifts, DenyDrifts
<1>6. FileFollows'
  BY <1>1 DEF SettingsInv, FileFollows
<1>7. SaveUnderWay'
  BY <1>1, <1>2, <1>3 DEF SaveUnderWay, SettingsIdle, OneKindOfChange, PartlySaved,
                          AllowDrifts, DenyDrifts
<1>8. QED
  BY <1>4, <1>5, <1>6, <1>7 DEF SettingsInv

(* /allow and /deny, either of which takes the command off the other list. *)
LEMMA AddKept ==
  ASSUME SettingsInv, NEW c \in Commands, Allow(c) \/ Deny(c)
  PROVE  SettingsInv'
<1>1. /\ SettingsTypeOK /\ Live(cfg)
      /\ "allow" \in DOMAIN cfg /\ "deny" \in DOMAIN cfg
  BY DEF SettingsInv, SettingsTypeOK, Live, Keys
<1>2. ASSUME NEW list \in {"allow", "deny"}, NEW from \in {"allow", "deny"}, list # from,
             AddTo(list, from, c), c \notin cfg[list]
      PROVE  SettingsInv'
  <2> DEFINE new == [cfg EXCEPT ![list] = @ \cup {c}, ![from] = @ \ {c}]
  <2>1. Change(new)
    BY <1>2 DEF AddTo
  <2>2. /\ DOMAIN new = DOMAIN cfg
        /\ new[list] = cfg[list] \cup {c} /\ new[from] = cfg[from] \ {c}
        /\ \A j \in DOMAIN cfg : j \notin {list, from} => new[j] = cfg[j]
    BY <1>1, <1>2
  <2> HIDE DEF new
  <2>3. new.mode = cfg.mode /\ new.profile = cfg.profile /\ new.sandbox = cfg.sandbox
    BY <1>1, <2>2 DEF Live, Keys
  <2>4. /\ new.allow \subseteq cfg.allow \cup {c} /\ new.deny \subseteq cfg.deny \cup {c}
        /\ c \notin new.allow \cap new.deny
    BY <1>1, <1>2, <2>2
  <2>5. Live(new)
    BY <1>1, <2>2, <2>3, <2>4 DEF Live, Says
  <2>6. QED
    BY <2>1, <2>3, <2>4, <2>5, ChangeKept
<1>3. ASSUME NEW list \in {"allow", "deny"}, NEW from \in {"allow", "deny"}, list # from,
             AddTo(list, from, c), c \in cfg[list]
      PROVE  SettingsInv'
  <2> DEFINE new == [cfg EXCEPT ![from] = @ \ {c}]
  <2>1. /\ saving = <<>> /\ before = cfg /\ cfg' = new /\ before' = new
        /\ behind' = (behind \/ new # cfg)
        /\ memory' = memory /\ disk' = disk /\ saving' = saving /\ inStep' = inStep
        /\ faults' = faults
    BY <1>3 DEF SettingsInv, SaveUnderWay, AddTo, SettingsIdle
  <2>2. /\ DOMAIN new = DOMAIN cfg
        /\ new[from] = cfg[from] \ {c}
        /\ \A j \in DOMAIN cfg : j # from => new[j] = cfg[j]
    BY <1>1, <1>3
  <2> HIDE DEF new
  <2>3. /\ new.mode = cfg.mode /\ new.profile = cfg.profile /\ new.sandbox = cfg.sandbox
        /\ new[list] = cfg[list]
    BY <1>1, <1>3, <2>2 DEF Live, Keys
  <2>4. new.allow \subseteq cfg.allow /\ new.deny \subseteq cfg.deny
    BY <1>1, <1>3, <2>2
  <2>5. Live(new)
    BY <1>1, <2>2, <2>3, <2>4 DEF Live, Says
  <2>6. SettingsTypeOK'
    BY <1>1, <2>1, <2>5 DEF SettingsTypeOK
  <2>7. LeftOf(saving) = {}
    BY <1>1, <2>1, SavedInOrder DEF SettingsTypeOK
  <2>8. AllowDrifts(cfg, memory) /\ DenyDrifts(cfg, memory)
    BY <2>1 DEF SettingsInv, StoreFollows, SettingsIdle
  <2>9. AllowDrifts(new, memory) /\ DenyDrifts(new, memory)
    <3>1. CASE list = "allow"
      BY <1>3, <2>2, <2>3, <2>8, <3>1 DEF AllowDrifts, DenyDrifts, Drifts
    <3>2. CASE list = "deny"
      BY <1>3, <2>2, <2>3, <2>8, <3>2 DEF AllowDrifts, DenyDrifts, Drifts
    <3>3. QED
      BY <1>3, <3>1, <3>2
  <2>10. \A k \in Keys \ {"route"} : memory[k] = new[k] \/ (behind' /\ k \in {"allow", "deny"})
    <3>1. ASSUME NEW k \in Keys \ {"route"}, k \notin {"allow", "deny"} PROVE memory[k] = new[k]
      <4>1. memory[k] = cfg[k]
        BY <2>7, <3>1 DEF SettingsInv, StoreFollows
      <4>2. k \in DOMAIN cfg /\ k # from
        BY <1>1, <1>3, <3>1 DEF Live
      <4>3. QED
        BY <2>2, <4>1, <4>2
    <3>2. ASSUME NEW k \in {"allow", "deny"}, ~behind' PROVE memory[k] = new[k]
      <4>1. ~behind /\ new = cfg
        BY <2>1, <3>2
      <4>2. k \in Keys \ {"route"}
        BY DEF Keys
      <4>3. QED
        BY <2>7, <4>1, <4>2 DEF SettingsInv, StoreFollows
    <3>3. QED
      BY <3>1, <3>2
  <2>11. StoreFollows'
    BY <2>1, <2>7, <2>9, <2>10 DEF StoreFollows, SettingsIdle, AllowDrifts, DenyDrifts
  <2>12. FileFollows' /\ SaveUnderWay'
    BY <2>1 DEF SettingsInv, FileFollows, SaveUnderWay, SettingsIdle
  <2>13. QED
    BY <2>6, <2>11, <2>12 DEF SettingsInv
<1>4. QED
  BY <1>2, <1>3 DEF Allow, Deny

(* One setting of the save.                                                *)
LEMMA ValueKept ==
  ASSUME SettingsInv, SetValue
  PROVE  SettingsInv'
<1> DEFINE k == Head(saving)
<1>1. SettingsTypeOK /\ StoreFollows /\ FileFollows /\ SaveUnderWay
  BY DEF SettingsInv
<1>2. /\ saving # <<>> /\ saving \in Saves
      /\ k \in Keys /\ Tail(saving) \in Saves
      /\ LeftOf(Tail(saving)) = LeftOf(saving) \ {k} /\ k \in LeftOf(saving)
      /\ Tail(saving) = <<>> <=> k = "deny"
  BY <1>1, NextToSave DEF SettingsTypeOK, SetValue, SettingsIdle
<1>3. /\ saving' = Tail(saving) /\ cfg' = cfg
      /\ before' = IF saving' = <<>> THEN cfg ELSE before
  BY DEF SetValue
<1>4. /\ DOMAIN memory' = Keys /\ memory'[k] = cfg[k]
      /\ \A j \in Keys : j # k => memory'[j] = memory[j]
  <2>1. (memory' = memory /\ memory[k] = cfg[k]) \/ memory' = [memory EXCEPT ![k] = cfg[k]]
    BY DEF SetValue
  <2>2. DOMAIN memory = Keys
    BY <1>1 DEF SettingsTypeOK
  <2>3. QED
    BY <1>2, <2>1, <2>2
<1>5. \/ /\ memory' = memory /\ UNCHANGED <<disk, inStep, behind, faults>>
      \/ disk' = memory' /\ inStep' = TRUE /\ behind' = FALSE /\ UNCHANGED faults
      \/ disk' = disk /\ inStep' = inStep /\ behind' = TRUE /\ faults' = faults + 1
  BY DEF SetValue
<1> HIDE DEF k
<1>6. Says(memory')
  <2>1. Says(cfg) /\ Says(memory)
    BY <1>1 DEF SettingsTypeOK, Live
  <2>2. \A j \in Keys : memory'[j] \in {cfg[j], memory[j]}
    BY <1>2, <1>4
  <2>3. /\ memory'.mode \in {cfg.mode, memory.mode}
        /\ memory'.profile \in {cfg.profile, memory.profile}
        /\ memory'.allow \in {cfg.allow, memory.allow}
        /\ memory'.deny \in {cfg.deny, memory.deny}
    BY <2>2 DEF Keys
  <2>4. QED
    BY <2>1, <2>3 DEF Says
<1>7. SettingsTypeOK'
  <2>1. DOMAIN disk' = Keys /\ Says(disk')
    BY <1>1, <1>4, <1>5, <1>6 DEF SettingsTypeOK
  <2>2. inStep' \in BOOLEAN /\ behind' \in BOOLEAN /\ faults' \in Nat
    <3>1. faults \in Nat /\ inStep \in BOOLEAN /\ behind \in BOOLEAN
      BY <1>1 DEF SettingsTypeOK
    <3>2. faults' \in Nat
      BY <1>5, <3>1
    <3>3. inStep' \in BOOLEAN
      BY <1>5, <3>1
    <3>4. behind' \in BOOLEAN
      BY <1>5, <3>1
    <3>5. QED
      BY <3>2, <3>3, <3>4
  <2>3. Live(cfg') /\ Live(before')
    BY <1>1, <1>3 DEF SettingsTypeOK
  <2>4. QED
    BY <1>2, <1>3, <1>4, <1>6, <2>1, <2>2, <2>3 DEF SettingsTypeOK
<1>8. \A j \in Keys \ (LeftOf(saving') \cup {"route"}) : memory'[j] = cfg[j]
  <2> SUFFICES ASSUME NEW j \in Keys \ (LeftOf(saving') \cup {"route"}), j # k
               PROVE  memory'[j] = cfg[j]
    BY <1>4
  <2>1. j \in Keys \ (LeftOf(saving) \cup {"route"})
    BY <1>2, <1>3
  <2>2. memory[j] = cfg[j]
    BY <1>1, <1>2, <2>1 DEF StoreFollows, SettingsIdle
  <2>3. QED
    BY <1>4, <2>1, <2>2
<1>9. StoreFollows'
  <2>1. ASSUME saving' # <<>> PROVE StoreFollows'
    <3>1. before' = before
      BY <1>3, <2>1
    <3>2. /\ "mode" \in LeftOf(saving') => memory'["mode"] = memory["mode"] /\ "mode" \in LeftOf(saving)
          /\ "profile" \in LeftOf(saving') =>
               memory'["profile"] = memory["profile"] /\ "profile" \in LeftOf(saving)
          /\ "allow" \in LeftOf(saving') =>
               memory'["allow"] = memory["allow"] /\ "allow" \in LeftOf(saving)
          /\ "deny" \in LeftOf(saving') => memory'["deny"] = memory["deny"] /\ "deny" \in LeftOf(saving)
      BY <1>2, <1>3, <1>4 DEF Keys
    <3>3. QED
      BY <1>1, <1>3, <1>8, <2>1, <3>1, <3>2
         DEF StoreFollows, SettingsIdle, AllowDrifts, DenyDrifts
  <2>2. ASSUME saving' = <<>> PROVE StoreFollows'
    <3>1. LeftOf(saving') = {} /\ before' = cfg
      BY <1>2, <1>3, <2>2, SavedInOrder
    <3>2. memory'["allow"] = cfg["allow"] /\ memory'["deny"] = cfg["deny"]
      BY <1>8, <3>1 DEF Keys
    <3>3. QED
      BY <1>3, <1>8, <3>1, <3>2 DEF StoreFollows, AllowDrifts, DenyDrifts, Drifts
  <2>3. QED
    BY <2>1, <2>2
<1>10. FileFollows'
  BY <1>1, <1>5 DEF FileFollows
<1>11. SaveUnderWay'
  <2>1. ASSUME saving' # <<>>, inStep' PROVE PartlySaved(disk)'
    <3>1. before' = before /\ cfg' = cfg
      BY <1>3, <2>1
    <3>2. CASE disk' = memory'
      <4>1. PartlySaved(memory)'
        BY <1>7, <1>9, <2>1, StoreHasPart
      <4>2. QED
        BY <3>2, <4>1 DEF PartlySaved
    <3>3. CASE disk' = disk /\ inStep' = inStep
      BY <1>1, <1>2, <2>1, <3>1, <3>3 DEF SaveUnderWay, SettingsIdle, PartlySaved
    <3>4. QED
      BY <1>5, <3>2, <3>3
  <2>2. QED
    BY <1>1, <1>2, <1>3, <2>1 DEF SaveUnderWay, SettingsIdle, OneKindOfChange
<1>12. QED
  BY <1>7, <1>9, <1>10, <1>11 DEF SettingsInv

(* The program ends and starts again.                                      *)
LEMMA StartKept ==
  ASSUME SettingsInv, NEW freeTier \in BOOLEAN, StartAgain(freeTier)
  PROVE  SettingsInv'
<1>1. SettingsTypeOK /\ StoreFollows
  BY DEF SettingsInv
<1>2. /\ saving' = <<>> /\ memory' = disk /\ disk' = disk /\ inStep' = inStep
      /\ cfg' = Loaded(disk, freeTier) /\ before' = cfg' /\ behind' = FALSE
      /\ faults' \in {faults, faults + 1}
  BY DEF StartAgain
<1>3. DOMAIN cfg' = Keys \cup {"sandbox"} /\ cfg'.sandbox = "workspace"
  BY <1>2, KeysAreSaved DEF Loaded
<1>4. \A k \in Keys \ {"route"} : cfg'[k] = disk[k]
  BY <1>2, KeysAreSaved DEF Loaded, Keys
<1>5. Live(cfg')
  <2>1. /\ cfg'.mode = disk.mode /\ cfg'.profile = disk.profile
        /\ cfg'.allow = disk.allow /\ cfg'.deny = disk.deny
    BY <1>4 DEF Keys
  <2>2. QED
    BY <1>1, <1>3, <2>1 DEF SettingsTypeOK, Live, Says
<1>6. <<>> \in Saves /\ LeftOf(<<>>) = {}
  <2>1. <<>> \in Saves
    BY DEF Saves
  <2>2. QED
    BY <2>1, SavedInOrder
<1>7. SettingsTypeOK'
  <2>1. faults' \in Nat
    BY <1>1, <1>2 DEF SettingsTypeOK
  <2>2. inStep' \in BOOLEAN /\ behind' \in BOOLEAN
    BY <1>1, <1>2 DEF SettingsTypeOK
  <2>3. QED
    BY <1>1, <1>2, <1>5, <1>6, <2>1, <2>2 DEF SettingsTypeOK
<1>8. StoreFollows'
  <2>1. memory'["allow"] = cfg'["allow"] /\ memory'["deny"] = cfg'["deny"]
    BY <1>2, <1>4 DEF Keys
  <2>2. \A k \in Keys \ {"route"} : memory'[k] = cfg'[k]
    BY <1>2, <1>4
  <2>3. QED
    BY <1>2, <1>6, <2>1, <2>2 DEF StoreFollows, AllowDrifts, DenyDrifts, Drifts
<1>9. FileFollows' /\ SaveUnderWay'
  BY <1>2 DEF FileFollows, SaveUnderWay, SettingsIdle
<1>10. QED
  BY <1>7, <1>8, <1>9 DEF SettingsInv

(* The settings nobody has changed.                                        *)
LEMMA DefaultsAreSettings ==
  /\ DOMAIN Defaults = Keys /\ Says(Defaults)
  /\ \A freeTier \in BOOLEAN :
       LET c == Loaded(Defaults, freeTier) IN
       /\ Live(c) /\ c.sandbox = "workspace"
       /\ \A k \in Keys \ {"route"} : c[k] = Defaults[k]
<1>1. DOMAIN Defaults = Keys /\ Says(Defaults)
  BY DEF Defaults, Keys, Says, Modes, Profiles
<1>2. ASSUME NEW freeTier \in BOOLEAN, NEW c, c = Loaded(Defaults, freeTier)
      PROVE  /\ Live(c) /\ c.sandbox = "workspace"
             /\ \A k \in Keys \ {"route"} : c[k] = Defaults[k]
  <2>1. DOMAIN c = Keys \cup {"sandbox"} /\ c.sandbox = "workspace"
    BY <1>2, KeysAreSaved DEF Loaded
  <2>2. \A k \in Keys \ {"route"} : c[k] = Defaults[k]
    BY <1>2, KeysAreSaved DEF Loaded, Keys
  <2>3. /\ c.mode = Defaults.mode /\ c.profile = Defaults.profile
        /\ c.allow = Defaults.allow /\ c.deny = Defaults.deny
    BY <2>2 DEF Keys
  <2>4. QED
    BY <1>1, <2>1, <2>2, <2>3 DEF Live, Says
<1>3. QED
  BY <1>1, <1>2

(* The program ends and starts again, and cannot read the file.            *)
LEMMA StartWithNothingKept ==
  ASSUME SettingsInv, NEW freeTier \in BOOLEAN, StartWithNothing(freeTier)
  PROVE  SettingsInv'
<1>1. SettingsTypeOK
  BY DEF SettingsInv
<1>2. /\ saving' = <<>> /\ memory' = Defaults /\ disk' \in {disk, Defaults} /\ inStep' = inStep
      /\ cfg' = Loaded(Defaults, freeTier) /\ before' = cfg' /\ behind' = (disk' # Defaults)
      /\ faults' = faults + 1
  BY DEF StartWithNothing
<1>3. /\ DOMAIN Defaults = Keys /\ Says(Defaults) /\ Live(cfg')
      /\ \A k \in Keys \ {"route"} : cfg'[k] = Defaults[k]
  BY <1>2, DefaultsAreSettings
<1>4. <<>> \in Saves /\ LeftOf(<<>>) = {}
  <2>1. <<>> \in Saves
    BY DEF Saves
  <2>2. QED
    BY <2>1, SavedInOrder
<1>5. SettingsTypeOK'
  <2>1. faults' \in Nat
    BY <1>1, <1>2 DEF SettingsTypeOK
  <2>2. inStep' \in BOOLEAN /\ behind' \in BOOLEAN
    BY <1>1, <1>2 DEF SettingsTypeOK
  <2>3. DOMAIN disk' = Keys /\ Says(disk')
    BY <1>1, <1>2, <1>3 DEF SettingsTypeOK
  <2>4. QED
    BY <1>2, <1>3, <1>4, <2>1, <2>2, <2>3 DEF SettingsTypeOK
<1>6. StoreFollows'
  <2>1. memory'["allow"] = cfg'["allow"] /\ memory'["deny"] = cfg'["deny"]
    BY <1>2, <1>3 DEF Keys
  <2>2. \A k \in Keys \ {"route"} : memory'[k] = cfg'[k]
    BY <1>2, <1>3
  <2>3. QED
    BY <1>2, <1>4, <2>1, <2>2 DEF StoreFollows, AllowDrifts, DenyDrifts, Drifts
<1>7. FileFollows' /\ SaveUnderWay'
  BY <1>2 DEF FileFollows, SaveUnderWay, SettingsIdle
<1>8. QED
  BY <1>5, <1>6, <1>7 DEF SettingsInv

(* The commands that set one thing, or both lists.                         *)
LEMMA CommandsChange ==
  ASSUME SettingsInv, SettingsNext,
         ~(\E c \in Commands : Allow(c) \/ Deny(c)), ~SetValue,
         ~(\E freeTier \in BOOLEAN : StartAgain(freeTier) \/ StartWithNothing(freeTier))
  PROVE  SettingsInv'
<1>1. Live(cfg)
  BY DEF SettingsInv, SettingsTypeOK
<1>2. {"mode", "profile", "allow", "deny", "sandbox", "route", "other"} = DOMAIN cfg
  BY <1>1 DEF Live, Keys
<1>3. ASSUME NEW m \in Modes, SetMode(m) PROVE SettingsInv'
  <2> DEFINE new == [cfg EXCEPT !.mode = m]
  <2>1. /\ DOMAIN new = DOMAIN cfg /\ new.mode = m /\ new.profile = cfg.profile
        /\ new.allow = cfg.allow /\ new.deny = cfg.deny /\ new.sandbox = cfg.sandbox
    BY <1>2
  <2>2. Change(new)
    BY <1>3 DEF SetMode
  <2> HIDE DEF new
  <2>3. Live(new)
    BY <1>1, <2>1 DEF Live, Says
  <2>4. QED
    BY <2>1, <2>2, <2>3, ChangeKept
<1>4. ASSUME NEW p \in DOMAIN Profiles, SetProfile(p) PROVE SettingsInv'
  <2> DEFINE new == [cfg EXCEPT !.profile = p, !.mode = ModeOf(p)]
  <2>1. /\ DOMAIN new = DOMAIN cfg /\ new.mode = ModeOf(p) /\ new.profile = p
        /\ new.allow = cfg.allow /\ new.deny = cfg.deny /\ new.sandbox = cfg.sandbox
    BY <1>2
  <2>2. Change(new)
    BY <1>4 DEF SetProfile
  <2>3. ModeOf(p) \in Modes
    BY DEF ModeOf, Modes
  <2> HIDE DEF new
  <2>4. Live(new)
    BY <1>1, <2>1, <2>3 DEF Live, Says
  <2>5. QED
    BY <2>1, <2>2, <2>4, ChangeKept
<1>5. ASSUME NEW s \in {"workspace", "read-only", "disabled"}, SetSandbox(s) PROVE SettingsInv'
  <2> DEFINE new == [cfg EXCEPT !.sandbox = s]
  <2>1. /\ DOMAIN new = DOMAIN cfg /\ new.mode = cfg.mode /\ new.profile = cfg.profile
        /\ new.allow = cfg.allow /\ new.deny = cfg.deny /\ new.sandbox # "read_only"
    BY <1>2
  <2>2. Change(new)
    BY <1>5 DEF SetSandbox
  <2> HIDE DEF new
  <2>3. Live(new)
    BY <1>1, <2>1 DEF Live, Says
  <2>4. QED
    BY <2>1, <2>2, <2>3, ChangeKept
<1>6. ASSUME NEW r \in Routes, SetRoute(r) PROVE SettingsInv'
  <2> DEFINE new == [cfg EXCEPT !.route = r]
  <2>1. /\ DOMAIN new = DOMAIN cfg /\ new.mode = cfg.mode /\ new.profile = cfg.profile
        /\ new.allow = cfg.allow /\ new.deny = cfg.deny /\ new.sandbox = cfg.sandbox
    BY <1>2
  <2>2. Change(new)
    BY <1>6 DEF SetRoute
  <2> HIDE DEF new
  <2>3. Live(new)
    BY <1>1, <2>1 DEF Live, Says
  <2>4. QED
    BY <2>1, <2>2, <2>3, ChangeKept
<1>7. ASSUME SetOther PROVE SettingsInv'
  <2> DEFINE new == [cfg EXCEPT !.other = ~@]
  <2>1. /\ DOMAIN new = DOMAIN cfg /\ new.mode = cfg.mode /\ new.profile = cfg.profile
        /\ new.allow = cfg.allow /\ new.deny = cfg.deny /\ new.sandbox = cfg.sandbox
    BY <1>2
  <2>2. Change(new)
    BY <1>7 DEF SetOther
  <2> HIDE DEF new
  <2>3. Live(new)
    BY <1>1, <2>1 DEF Live, Says
  <2>4. QED
    BY <2>1, <2>2, <2>3, ChangeKept
<1>8. ASSUME NEW c \in Commands, RemoveFromLists(c) PROVE SettingsInv'
  <2> DEFINE new == [cfg EXCEPT !.allow = @ \ {c}, !.deny = @ \ {c}]
  <2>1. /\ DOMAIN new = DOMAIN cfg /\ new.mode = cfg.mode /\ new.profile = cfg.profile
        /\ new.allow = cfg.allow \ {c} /\ new.deny = cfg.deny \ {c}
        /\ new.sandbox = cfg.sandbox
    BY <1>2
  <2>2. Change(new)
    BY <1>8 DEF RemoveFromLists
  <2> HIDE DEF new
  <2>3. Live(new)
    BY <1>1, <2>1 DEF Live, Says
  <2>4. QED
    BY <2>1, <2>2, <2>3, ChangeKept
<1>9. ASSUME ClearLists PROVE SettingsInv'
  <2> DEFINE new == [cfg EXCEPT !.allow = {}, !.deny = {}]
  <2>1. /\ DOMAIN new = DOMAIN cfg /\ new.mode = cfg.mode /\ new.profile = cfg.profile
        /\ new.allow = {} /\ new.deny = {} /\ new.sandbox = cfg.sandbox
    BY <1>2
  <2>2. Change(new)
    BY <1>9 DEF ClearLists
  <2> HIDE DEF new
  <2>3. Live(new)
    BY <1>1, <2>1 DEF Live, Says
  <2>4. QED
    BY <2>1, <2>2, <2>3, ChangeKept
<1>10. QED
  BY <1>3, <1>4, <1>5, <1>6, <1>7, <1>8, <1>9 DEF SettingsNext

(* Every step keeps this: a command, the next setting of a save, a write   *)
(* that fails, a crash and the next start.                                 *)
LEMMA SettingsStepKept == SettingsInv /\ [SettingsNext]_setVars => SettingsInv'
<1> SUFFICES ASSUME SettingsInv, [SettingsNext]_setVars PROVE SettingsInv'
  OBVIOUS
<1>1. CASE UNCHANGED setVars
  BY <1>1 DEF setVars, SettingsInv, SettingsTypeOK, StoreFollows, FileFollows, SaveUnderWay,
     SettingsIdle, PartlySaved, OneKindOfChange, AllowDrifts, DenyDrifts
<1>2. CASE \E c \in Commands : Allow(c) \/ Deny(c)
  BY <1>2, AddKept
<1>3. CASE SetValue
  BY <1>3, ValueKept
<1>4. CASE \E freeTier \in BOOLEAN : StartAgain(freeTier) \/ StartWithNothing(freeTier)
  BY <1>4, StartKept, StartWithNothingKept
<1>5. QED
  BY <1>1, <1>2, <1>3, <1>4, CommandsChange

(* What the engine makes of the configurations here, which know no         *)
(* read_only sandbox.                                                      *)
LEMMA WhatIsGranted ==
  ASSUME NEW c, c.sandbox # "read_only", NEW kind \in Kinds, NEW x
  PROVE  LET blocked == c.mode = "deny_all" \/ Profiles[c.profile][kind] = "deny"
             waved   == Profiles[c.profile][kind] = "auto" \/ c.mode = "auto_approve"
             denied  == kind = "execute" /\ x \in c.deny
             allowed == kind = "execute" /\ x \in c.allow /\ x \notin c.deny
         IN /\ Refused(c, kind, ListDecision(c, x)) <=> denied \/ (~allowed /\ blocked)
            /\ Granted(c, kind, ListDecision(c, x)) <=>
                 ~denied /\ (allowed \/ (~blocked /\ waved))
<1>1. CASE x \in c.deny
  <2>1. ListDecision(c, x) = "deny"
    BY <1>1 DEF ListDecision
  <2>2. QED
    BY <1>1, <2>1 DEF Refused, Granted, Kinds
<1>2. CASE x \in c.allow /\ x \notin c.deny
  <2>1. ListDecision(c, x) = "allow"
    BY <1>2 DEF ListDecision
  <2>2. QED
    BY <1>2, <2>1 DEF Refused, Granted, Kinds
<1>3. CASE x \notin c.allow /\ x \notin c.deny
  <2>1. ListDecision(c, x) = "none"
    BY <1>3 DEF ListDecision
  <2>2. QED
    BY <1>3, <2>1 DEF Refused, Granted, Kinds
<1>4. QED
  BY <1>1, <1>2, <1>3

(* What the profiles and their modes are.                                  *)
LEMMA WhatProfilesSay ==
  ASSUME NEW p \in DOMAIN Profiles, NEW kind \in Kinds
  PROVE  /\ Profiles[p][kind] = "deny" <=> p \in {"review", "locked"}
         /\ Profiles[p][kind] = "auto" <=> p = "ci"
         /\ ModeOf(p) = "deny_all" <=> p = "locked"
         /\ ModeOf(p) = "auto_approve" <=> p = "ci"
BY DEF Profiles, Everywhere, ModeOf

(* A configuration loaded from a file that the save has come to some way   *)
(* with is between the old one and the new one.                            *)
LEMMA PartWidensNothing ==
  ASSUME SettingsTypeOK, OneKindOfChange, PartlySaved(disk), Own(before), Own(cfg),
         NEW now, Says(now), now.sandbox # "read_only",
         now.mode = disk.mode, now.profile = disk.profile,
         now.allow = disk.allow, now.deny = disk.deny
  PROVE  WidensNothing(before, cfg, now) /\ RefusesAsBoth(before, cfg, now)
<1> SUFFICES ASSUME NEW kind \in Kinds, NEW x \in Commands
             PROVE  /\ Granted(now, kind, ListDecision(now, x)) =>
                         \/ Granted(before, kind, ListDecision(before, x))
                         \/ Granted(cfg, kind, ListDecision(cfg, x))
                    /\ /\ Refused(before, kind, ListDecision(before, x))
                       /\ Refused(cfg, kind, ListDecision(cfg, x))
                       => Refused(now, kind, ListDecision(now, x))
  BY DEF WidensNothing, RefusesAsBoth, Grants, Refuses
<1> DEFINE blocked(c) == c.mode = "deny_all" \/ Profiles[c.profile][kind] = "deny"
           waved(c)   == Profiles[c.profile][kind] = "auto" \/ c.mode = "auto_approve"
           denied(c)  == kind = "execute" /\ x \in c.deny
           allowed(c) == kind = "execute" /\ x \in c.allow /\ x \notin c.deny
<1>1. Says(before) /\ Says(cfg) /\ before.sandbox # "read_only" /\ cfg.sandbox # "read_only"
  BY DEF SettingsTypeOK, Live
<1>2. ASSUME NEW c \in {before, cfg, now}
      PROVE  /\ Refused(c, kind, ListDecision(c, x)) <=> denied(c) \/ (~allowed(c) /\ blocked(c))
             /\ Granted(c, kind, ListDecision(c, x)) <=>
                  ~denied(c) /\ (allowed(c) \/ (~blocked(c) /\ waved(c)))
  BY <1>1, WhatIsGranted
<1>3. /\ denied(before) /\ denied(cfg) => denied(now)
      /\ allowed(now) => allowed(before) \/ allowed(cfg)
  BY DEF PartlySaved, AllowDrifts, DenyDrifts, Drifts, OneKindOfChange
<1>4. CASE cfg.mode = before.mode /\ cfg.profile = before.profile
  <2>1. now.mode = cfg.mode /\ now.profile = cfg.profile
    BY <1>4 DEF PartlySaved
  <2>2. (blocked(now) <=> blocked(cfg)) /\ (waved(now) <=> waved(cfg))
        /\ (blocked(before) <=> blocked(cfg)) /\ (waved(before) <=> waved(cfg))
    BY <1>4, <2>1
  <2>3. QED
    BY <1>2, <1>3, <2>2
<1>5. CASE cfg.allow = before.allow /\ cfg.deny = before.deny
  <2>1. /\ denied(cfg) <=> denied(before)
        /\ allowed(cfg) <=> allowed(before)
        /\ ~denied(now) /\ ~allowed(now) => ~denied(before) /\ ~allowed(before)
    BY <1>5 DEF PartlySaved, AllowDrifts, DenyDrifts, Drifts
  <2>2. /\ blocked(before) /\ blocked(cfg) => blocked(now)
        /\ ~blocked(now) /\ waved(now) =>
             (~blocked(before) /\ waved(before)) \/ (~blocked(cfg) /\ waved(cfg))
    <3>1. \/ now.mode = before.mode /\ now.profile = before.profile
          \/ now.mode = cfg.mode /\ now.profile = before.profile
          \/ now.mode = cfg.mode /\ now.profile = cfg.profile
      BY DEF PartlySaved
    <3>2. before.mode = ModeOf(before.profile) /\ cfg.mode = ModeOf(cfg.profile)
      BY DEF Own
    <3>3. before.profile \in DOMAIN Profiles /\ cfg.profile \in DOMAIN Profiles
      BY <1>1 DEF Says
    <3>4. ASSUME NEW p \in {before.profile, cfg.profile}
          PROVE  /\ Profiles[p][kind] = "deny" <=> p \in {"review", "locked"}
                 /\ Profiles[p][kind] = "auto" <=> p = "ci"
                 /\ ModeOf(p) = "deny_all" <=> p = "locked"
                 /\ ModeOf(p) = "auto_approve" <=> p = "ci"
      BY <3>3, WhatProfilesSay
    <3>5. QED
      BY <3>1, <3>2, <3>4
  <2> HIDE DEF blocked, waved, denied, allowed
  <2>3. QED
    BY <1>2, <1>3, <2>1, <2>2
<1>6. QED
  BY <1>4, <1>5 DEF OneKindOfChange

(* A command begins when the one before it has returned.                   *)
LEMMA CommandsWait ==
  ASSUME SettingsNext, ~SettingsIdle
  PROVE  SetValue \/ \E freeTier \in BOOLEAN : StartAgain(freeTier) \/ StartWithNothing(freeTier)
<1>1. ASSUME NEW new, Change(new) PROVE FALSE
  BY <1>1 DEF Change
<1>2. ASSUME NEW list, NEW from, NEW c, AddTo(list, from, c) PROVE FALSE
  BY <1>1, <1>2 DEF AddTo
<1>3. QED
  BY <1>1, <1>2, Zenon DEF SettingsNext, SetMode, SetProfile, SetSandbox, SetRoute, SetOther, Allow, Deny,
     RemoveFromLists, ClearLists

(* What a start reads in the middle of a save is such a configuration.     *)
LEMMA ReadWidensNothing ==
  ASSUME SettingsInv, ~SettingsIdle, inStep, Own(before), Own(cfg),
         NEW freeTier \in BOOLEAN, NEW now, now = Loaded(disk, freeTier)
  PROVE  WidensNothing(before, cfg, now) /\ RefusesAsBoth(before, cfg, now)
<1>1. /\ now.mode = disk.mode /\ now.profile = disk.profile
      /\ now.allow = disk.allow /\ now.deny = disk.deny /\ now.sandbox = "workspace"
  BY KeysAreSaved DEF Loaded, Keys
<1>2. Says(now)
  BY <1>1 DEF SettingsInv, SettingsTypeOK, Says
<1>3. QED
  BY <1>1, <1>2, PartWidensNothing DEF SettingsInv, SaveUnderWay

(* The settings nobody has changed grant nothing without a question.       *)
LEMMA DefaultsGrantNothing ==
  ASSUME NEW freeTier \in BOOLEAN, NEW old, NEW new, NEW now,
         now = Loaded(Defaults, freeTier)
  PROVE  WidensNothing(old, new, now)
<1> SUFFICES ASSUME NEW kind \in Kinds, NEW x \in Commands
             PROVE  ~Granted(now, kind, ListDecision(now, x))
  BY DEF WidensNothing, Grants
<1>1. /\ now.sandbox = "workspace" /\ now.mode = "ask" /\ now.profile = "coding"
      /\ now.allow = {} /\ now.deny = {}
  <2>1. now.sandbox = "workspace" /\ \A k \in Keys \ {"route"} : now[k] = Defaults[k]
    BY DefaultsAreSettings
  <2>2. QED
    BY <2>1 DEF Keys, Defaults
<1>2. Profiles["coding"][kind] = "ask"
  BY DEF Profiles, Everywhere
<1>3. QED
  BY <1>1, <1>2 DEF Granted, ListDecision, Kinds

(* ConfigManager.save and load, /allow, /deny, /permission: the next start *)
(* has what was set, but for the route and the sandbox, unless a write or  *)
(* the last read failed; and wherever a save stops the next start grants   *)
(* nothing that neither the old nor the new settings grant, and refuses    *)
(* what both refuse if it can read the file, the mode being that of the    *)
(* profile: for any commands and profiles, and any number of failed        *)
(* writes, failed reads and crashes.                                       *)
THEOREM SettingsStay == SettingsSpec => SettingsHold
<1>1. SettingsInit => SettingsInv
  <2> SUFFICES ASSUME SettingsInit PROVE SettingsInv
    OBVIOUS
  <2>1. /\ cfg = Loaded(Defaults, FALSE) /\ before = cfg /\ saving = <<>>
        /\ memory = Defaults /\ disk = Defaults /\ inStep = TRUE /\ behind = FALSE /\ faults = 0
    BY DEF SettingsInit
  <2>2. /\ DOMAIN Defaults = Keys /\ Says(Defaults) /\ Live(cfg)
        /\ \A k \in Keys \ {"route"} : cfg[k] = Defaults[k]
    BY <2>1, DefaultsAreSettings
  <2>3. cfg.allow = Defaults.allow /\ cfg.deny = Defaults.deny
    BY <2>2 DEF Keys
  <2>4. SettingsTypeOK
    BY <2>1, <2>2 DEF SettingsTypeOK, Saves
  <2>5. LeftOf(saving) = {}
    BY <2>1, <2>4, SavedInOrder DEF SettingsTypeOK
  <2>6. StoreFollows
    BY <2>1, <2>2, <2>3, <2>5 DEF StoreFollows, AllowDrifts, DenyDrifts, Drifts
  <2>7. QED
    BY <2>1, <2>4, <2>6 DEF SettingsInv, FileFollows, SaveUnderWay, SettingsIdle
<1>2. SettingsInv => SettingsKept
  <2> SUFFICES ASSUME SettingsInv, SettingsIdle, ~behind, NEW k \in DOMAIN cfg \ {"route"}
               PROVE  Loaded(disk, FALSE)[k] = IF k = "sandbox" THEN "workspace" ELSE cfg[k]
    BY DEF SettingsKept
  <2>1. LeftOf(saving) = {}
    BY SavedInOrder DEF SettingsInv, SettingsTypeOK, SettingsIdle
  <2>2. DOMAIN cfg = Keys \cup {"sandbox"} /\ "sandbox" \notin Keys
    BY DEF SettingsInv, SettingsTypeOK, Live, Keys
  <2>3. CASE k = "sandbox"
    BY <2>3 DEF Loaded
  <2>4. CASE k \in Keys
    <3>1. disk[k] = cfg[k]
      BY <2>1, <2>4 DEF SettingsInv, StoreFollows, FileFollows
    <3>2. Loaded(disk, FALSE)[k] = disk[k]
      BY <2>2, <2>4, KeysAreSaved DEF Loaded
    <3>3. QED
      BY <2>2, <2>4, <3>1, <3>2
  <2>5. QED
    BY <2>2, <2>3, <2>4
<1> DEFINE A == ~SettingsIdle /\ SettingsIdle' /\ inStep /\ Own(before) /\ Own(cfg)
                /\ faults' > faults
                => /\ WidensNothing(before, cfg, cfg')
                   /\ memory' = disk => RefusesAsBoth(before, cfg, cfg')
<1>3. SettingsInv /\ [SettingsNext]_setVars => [A]_setVars
  <2> SUFFICES ASSUME SettingsInv, SettingsNext, ~SettingsIdle, SettingsIdle', inStep,
                      Own(before), Own(cfg)
               PROVE  /\ WidensNothing(before, cfg, cfg')
                      /\ memory' = disk => RefusesAsBoth(before, cfg, cfg')
    OBVIOUS
  <2>1. CASE SetValue
    BY <2>1 DEF SetValue, WidensNothing, RefusesAsBoth
  <2>2. ASSUME NEW freeTier \in BOOLEAN, StartAgain(freeTier)
        PROVE  WidensNothing(before, cfg, cfg') /\ RefusesAsBoth(before, cfg, cfg')
    <3>1. cfg' = Loaded(disk, freeTier)
      BY <2>2 DEF StartAgain
    <3>2. QED
      BY <3>1, ReadWidensNothing
  <2>3. ASSUME NEW freeTier \in BOOLEAN, StartWithNothing(freeTier)
        PROVE  /\ WidensNothing(before, cfg, cfg')
               /\ memory' = disk => RefusesAsBoth(before, cfg, cfg')
    <3>1. cfg' = Loaded(Defaults, freeTier)
      BY <2>3 DEF StartWithNothing
    <3>2. WidensNothing(before, cfg, cfg')
      BY <3>1, DefaultsGrantNothing
    <3>3. ASSUME memory' = disk PROVE RefusesAsBoth(before, cfg, cfg')
      <4>1. cfg' = Loaded(disk, freeTier)
        BY <2>3, <3>1, <3>3 DEF StartWithNothing
      <4>2. QED
        BY <4>1, ReadWidensNothing
    <3>4. QED
      BY <3>2, <3>3
  <2>4. SetValue \/ \E freeTier \in BOOLEAN : StartAgain(freeTier) \/ StartWithNothing(freeTier)
    BY CommandsWait
  <2>5. QED
    BY <2>1, <2>2, <2>3, <2>4
<1>4. [][A]_setVars <=> CrashWidensNothing
  BY PTL DEF CrashWidensNothing
<1>5. QED
  BY <1>1, <1>2, <1>3, <1>4, SettingsStepKept, PTL DEF SettingsSpec, SettingsHold

-----------------------------------------------------------------------------
(* Repl: the program is left in order.                                     *)

\* What has been said.
Talks == Seq(Int)

\* What a session file has.
SavedTalks == [text : Talks, whole : BOOLEAN]

\* Every variable that is looked at when the program is left has its type.
ReplTypeOK ==
  /\ talk \in Talks
  /\ sessions \in Seq(SavedTalks)
  /\ sent \in Nat

\* The file has the aliases at every moment.
AliasesAreFiled == ~mishap => aliasFile = File(aliases)

\* What is promised of the end is inductive with the types and the file of the
\* aliases.
ReplInv == ReplTypeOK /\ AliasesAreFiled /\ LeftInOrder

(* A session file more takes no other away.                                *)
LEMMA OneFileMore ==
  ASSUME NEW files \in Seq(SavedTalks), NEW s \in SavedTalks
  PROVE  /\ <<s>> \o files \in Seq(SavedTalks)
         /\ s \in Range(<<s>> \o files)
         /\ Range(files) \subseteq Range(<<s>> \o files)
<1> DEFINE new == <<s>> \o files
<1>1. /\ new \in Seq(SavedTalks) /\ Len(new) = Len(files) + 1 /\ Len(files) \in Nat
      /\ new[1] = s
      /\ \A i \in 1..Len(files) : new[i + 1] = files[i]
  <2>1. <<s>> \in Seq(SavedTalks) /\ Len(<<s>>) = 1 /\ <<s>>[1] = s
    OBVIOUS
  <2>2. /\ Len(new) = Len(<<s>>) + Len(files) /\ new \in Seq(SavedTalks)
        /\ \A i \in 1..Len(new) : new[i] = IF i <= Len(<<s>>) THEN <<s>>[i]
                                                              ELSE files[i - Len(<<s>>)]
    BY <2>1, ConcatProperties
  <2>3. Len(files) \in Nat
    OBVIOUS
  <2> HIDE DEF new
  <2>4. QED
    BY <2>1, <2>2, <2>3
<1>2. DOMAIN new = 1..Len(new) /\ DOMAIN files = 1..Len(files)
  BY <1>1
<1> HIDE DEF new
<1>3. s \in Range(new)
  BY <1>1, <1>2 DEF Range
<1>4. ASSUME NEW i \in 1..Len(files) PROVE files[i] \in Range(new)
  <2>1. i + 1 \in DOMAIN new /\ new[i + 1] = files[i]
    BY <1>1, <1>2
  <2>2. QED
    BY <2>1 DEF Range
<1>5. Range(files) \subseteq Range(new)
  BY <1>2, <1>4 DEF Range
<1>6. QED
  BY <1>1, <1>3, <1>5 DEF new

(* What the commands make of the conversation is one.                      *)
LEMMA StillATalk ==
  ASSUME ReplTypeOK, NEW c \in {"/clear", "/context", "/undo", "/compact"}
  PROVE  Shorter(c) \subseteq Talks
<1>1. <<>> \in Talks /\ <<Summary>> \in Talks /\ talk \in Talks
  BY DEF Talks, Summary, ReplTypeOK
<1>2. Messages >= 2 => Front(talk) \in Talks
  <2>1. CASE talk = <<>>
    BY <2>1 DEF Messages
  <2>2. CASE talk # <<>>
    BY <1>1, <2>2 DEF Talks, Front
  <2>3. QED
    BY <2>1, <2>2
<1>3. Messages \in Int
  BY <1>1 DEF Messages, Talks
<1>4. QED
  BY <1>1, <1>2, <1>3 DEF Shorter

(* Every step of the prompt keeps this: what is said, what is saved and    *)
(* what is loaded, up to the end.                                          *)
LEMMA ReplKept == ReplInv /\ [ReplNext]_replVars => ReplInv'
<1> SUFFICES ASSUME ReplInv, [ReplNext]_replVars PROVE ReplInv'
  OBVIOUS
<1>1. ReplTypeOK /\ AliasesAreFiled /\ LeftInOrder
  BY DEF ReplInv
<1> USE DEF counters, sessionFiles
<1>2. CASE UNCHANGED replVars
  BY <1>1, <1>2 DEF replVars, ReplInv, ReplTypeOK, AliasesAreFiled, LeftInOrder
<1>3. CASE StartRepl \/ PipeMode \/ ArgvChat \/ ArgvCode
  <2>1. /\ at' # "quit" /\ talk' = <<>> /\ UNCHANGED <<sessions, aliasFile, sent, mishap>>
        /\ aliases' \in {aliases, aliasFile.store}
    BY <1>3 DEF StartRepl, PipeMode, ArgvChat, ArgvCode, Exits
  <2>2. ~mishap => aliasFile.store = aliases
    BY <1>1 DEF AliasesAreFiled, File
  <2>3. QED
    BY <1>1, <2>1, <2>2 DEF ReplInv, ReplTypeOK, AliasesAreFiled, LeftInOrder, Talks
<1>4. CASE EmptyLine \/ ChatLine \/ CommandLine
  <2>1. /\ at' # "quit" /\ UNCHANGED <<sessions, aliases, aliasFile, mishap>>
        /\ sent' \in {sent, sent + 1} /\ talk' \in {talk, Append(talk, sent')}
    BY <1>4 DEF AtLine, EmptyLine, ChatLine, CommandLine
  <2>2. sent' \in Nat /\ talk' \in Talks
    <3>1. sent' \in Nat /\ sent' \in Int
      BY <1>1, <2>1 DEF ReplTypeOK
    <3>2. talk \in Seq(Int)
      BY <1>1 DEF ReplTypeOK, Talks
    <3>3. Append(talk, sent') \in Seq(Int)
      BY <3>1, <3>2
    <3>4. QED
      BY <2>1, <3>1, <3>2, <3>3 DEF Talks
  <2>3. QED
    BY <1>1, <2>1, <2>2 DEF ReplInv, ReplTypeOK, AliasesAreFiled, LeftInOrder
<1>5. CASE Quit
  <2>1. /\ SaveSession
        /\ UNCHANGED <<talk, aliases, aliasFile, sent>>
    BY <1>5 DEF Quit
  <2> DEFINE saved == [text |-> talk, whole |-> TRUE]
             broken == [text |-> talk, whole |-> FALSE]
  <2>2. saved \in SavedTalks /\ broken \in SavedTalks
    BY <1>1 DEF ReplTypeOK, SavedTalks
  <2>3. CASE talk = <<>>
    <3>1. UNCHANGED <<sessions, mishap>>
      BY <2>1, <2>3 DEF SaveSession
    <3>2. QED
      BY <1>1, <2>1, <2>3, <3>1 DEF ReplInv, ReplTypeOK, AliasesAreFiled, LeftInOrder
  <2>4. CASE sessions' = <<saved>> \o sessions /\ UNCHANGED mishap
    <3>1. sessions' \in Seq(SavedTalks) /\ saved \in Range(sessions')
      BY <1>1, <2>2, <2>4, OneFileMore DEF ReplTypeOK
    <3>2. QED
      BY <1>1, <2>1, <2>4, <3>1 DEF ReplInv, ReplTypeOK, AliasesAreFiled, LeftInOrder
  <2>5. CASE sessions' \in {sessions, <<broken>> \o sessions} /\ mishap' = TRUE
    <3>1. sessions' \in Seq(SavedTalks)
      BY <1>1, <2>2, <2>5, OneFileMore DEF ReplTypeOK
    <3>2. QED
      BY <1>1, <2>1, <2>5, <3>1 DEF ReplInv, ReplTypeOK, AliasesAreFiled, LeftInOrder
  <2>6. QED
    BY <2>1, <2>3, <2>4, <2>5 DEF SaveSession
<1>6. CASE SwitchMode \/ Delegate \/ Again
  <2>1. /\ at' # "quit" /\ UNCHANGED <<talk, sessions, aliases, aliasFile, mishap, sent>>
    BY <1>6 DEF SwitchMode, Delegate, Again, Return, Runs
  <2>2. QED
    BY <1>1, <2>1 DEF ReplInv, ReplTypeOK, AliasesAreFiled, LeftInOrder
<1>7. CASE Shorten
  <2>1. /\ at' = "prompt" /\ UNCHANGED <<sessions, aliases, aliasFile, mishap, sent>>
    BY <1>7 DEF Shorten, Return
  <2>2. talk' \in Talks
    BY <1>1, <1>7, StillATalk DEF Shorten
  <2>3. QED
    BY <1>1, <2>1, <2>2 DEF ReplInv, ReplTypeOK, AliasesAreFiled, LeftInOrder
<1>8. CASE ResumeSession
  <2>1. /\ at' = "prompt" /\ UNCHANGED <<sessions, aliases, aliasFile, mishap, sent>>
    BY <1>8 DEF ResumeSession, Return
  <2>2. talk' \in Talks
    <3>1. ASSUME NEW i \in 1..Len(sessions), NEW n \in 0..Len(sessions[i].text)
          PROVE  SubSeq(sessions[i].text, 1, n) \in Talks
      <4>1. sessions[i].text \in Seq(Int)
        <5>1. sessions[i] \in SavedTalks
          BY <1>1 DEF ReplTypeOK
        <5>2. QED
          BY <5>1 DEF SavedTalks, Talks
      <4>2. QED
        BY <4>1 DEF Talks
    <3>2. QED
      BY <1>1, <1>8, <3>1 DEF ResumeSession, ReplTypeOK
  <2>3. QED
    BY <1>1, <2>1, <2>2 DEF ReplInv, ReplTypeOK, AliasesAreFiled, LeftInOrder
<1>9. CASE NameSession
  <2>1. /\ at' = "prompt" /\ UNCHANGED <<talk, aliases, aliasFile, sent>>
        /\ \/ UNCHANGED <<sessions, mishap>>
           \/ /\ sessions # <<>> /\ sessions' = [sessions EXCEPT ![1].whole = FALSE]
              /\ mishap' = TRUE
    BY <1>9 DEF NameSession, Return
  <2>2. sessions' \in Seq(SavedTalks)
    <3>1. ASSUME sessions # <<>>, sessions' = [sessions EXCEPT ![1].whole = FALSE]
          PROVE  sessions' \in Seq(SavedTalks)
      <4>1. 1 \in 1..Len(sessions) /\ sessions[1] \in SavedTalks
        BY <1>1, <3>1 DEF ReplTypeOK
      <4>2. [sessions[1] EXCEPT !.whole = FALSE] \in SavedTalks
        BY <4>1 DEF SavedTalks
      <4>3. sessions' = [sessions EXCEPT ![1] = [sessions[1] EXCEPT !.whole = FALSE]]
        BY <3>1, <4>1
      <4>4. QED
        BY <1>1, <4>1, <4>2, <4>3 DEF ReplTypeOK
    <3>2. QED
      BY <1>1, <2>1, <3>1 DEF ReplTypeOK
  <2>3. QED
    BY <1>1, <2>1, <2>2 DEF ReplInv, ReplTypeOK, AliasesAreFiled, LeftInOrder
<1>10. CASE ChangeAliases
  <2>1. /\ at' # "quit" /\ UNCHANGED <<talk, sessions, sent>>
        /\ (aliasFile' = File(aliases') \/ mishap' = TRUE)
    BY <1>10 DEF ChangeAliases, Return
  <2>2. QED
    BY <1>1, <2>1 DEF ReplInv, ReplTypeOK, AliasesAreFiled, LeftInOrder
<1>11. CASE OtherSaves
  <2>1. UNCHANGED <<at, talk, aliases, aliasFile, sent>>
    BY <1>11 DEF OtherSaves
  <2>2. OtherSession \in SavedTalks
    BY DEF OtherSession, SavedTalks, Talks
  <2>3. CASE sessions' = <<OtherSession>> \o sessions /\ UNCHANGED mishap
    <3>1. sessions' \in Seq(SavedTalks) /\ Range(sessions) \subseteq Range(sessions')
      BY <1>1, <2>2, <2>3, OneFileMore DEF ReplTypeOK
    <3>2. QED
      BY <1>1, <2>1, <2>3, <3>1 DEF ReplInv, ReplTypeOK, AliasesAreFiled, LeftInOrder
  <2>4. CASE sessions # <<>> /\ sessions' = <<OtherSession>> \o Tail(sessions) /\ mishap' = TRUE
    <3>1. Tail(sessions) \in Seq(SavedTalks)
      BY <1>1, <2>4 DEF ReplTypeOK
    <3>2. sessions' \in Seq(SavedTalks)
      BY <2>2, <2>4, <3>1, OneFileMore
    <3>3. QED
      BY <1>1, <2>1, <2>4, <3>2 DEF ReplInv, ReplTypeOK, AliasesAreFiled, LeftInOrder
  <2>5. QED
    BY <1>11, <2>3, <2>4 DEF OtherSaves
<1>12. QED
  BY <1>2, <1>3, <1>4, <1>5, <1>6, <1>7, <1>8, <1>9, <1>10, <1>11 DEF ReplNext

(* run, _dispatch_command, SessionManager.save, AliasStore: whoever leaves *)
(* in order finds the whole talk in a session file and the aliases in      *)
(* theirs, unless a write failed or another program saved in the same      *)
(* second: for any number of turns, session files and aliases.             *)
THEOREM QuitInOrder == ReplSpec => []LeftInOrder
<1>1. ReplInit => ReplInv
  BY DEF ReplInit, ReplInv, ReplTypeOK, AliasesAreFiled, LeftInOrder, Talks
<1>2. ReplInv => LeftInOrder
  BY DEF ReplInv
<1>3. QED
  BY <1>1, <1>2, ReplKept, PTL DEF ReplSpec

-----------------------------------------------------------------------------
(* ModelChoice: lists are recent.                                          *)

\* What a server may answer.
Lists == SUBSET (ModelNames \cup Offline)

\* A list that is kept, and its age.
KeptLists == [age : Nat, saw : Lists]

\* A list that was given, and how long ago.
PastLists == [saw : Lists, steps : Nat]

\* What is known of the command that is under way.
ModelCommands == [stage : {"none", "fetch", "confirm", "pull", "adopt"}, age : Nat, pull : SUBSET ModelNames]

\* Every variable has its type.
ChoiceTypeOK ==
  /\ host \in Hosts /\ provider \in Local \cup Keyed
  /\ listing \in [Hosts -> Lists]
  /\ entry \in [Hosts -> KeptLists]
  /\ ago \in [Hosts -> SUBSET PastLists]
  /\ choosing \in ModelCommands

\* The server gave this list, no more than so many steps ago.
GaveWithin(h, saw, steps) == \E a \in ago[h] : a.saw = saw /\ a.steps <= steps

\* The present answer of a server is one of its answers.
PresentIsKnown == \A h \in Hosts : GaveWithin(h, listing[h], 0)

\* What is remembered is no younger than it says: the answer was given then or
\* since.
EntriesAge ==
  \A h \in Hosts : entry[h].age < ModelsTTL => GaveWithin(h, entry[h].saw, entry[h].age)

\* What is promised is inductive with the types, what a server lists now being
\* the last it gave, and what is kept being as old as its age says.
ChoiceInv == ChoiceTypeOK /\ PresentIsKnown /\ EntriesAge /\ ListIsRecent

(* Who is shown as having no list is no server.                            *)
LEMMA NoServers ==
  /\ NoLook.of \notin Hosts
  /\ \A p \in Local \cup Keyed : p \notin Hosts
BY ChoiceAssumption DEF NoLook, Local, Keyed

(* What is given within some steps is given.                               *)
LEMMA GivenIsPast ==
  ASSUME NEW h \in Hosts, NEW saw, NEW steps, GaveWithin(h, saw, steps)
  PROVE  saw \in {a.saw : a \in ago[h]}
BY DEF GaveWithin

(* A server answers differently from now on: what it has answered stays.   *)
LEMMA OffersKept ==
  ASSUME ChoiceInv, NEW h \in Hosts, NEW saw \in Lists, Offers(h, saw)
  PROVE  /\ listing' \in [Hosts -> Lists] /\ ago' \in [Hosts -> SUBSET PastLists]
         /\ PresentIsKnown'
         /\ \A g \in Hosts, s \in Lists, n \in Nat : GaveWithin(g, s, n) => GaveWithin(g, s, n)'
<1> DEFINE now == [saw |-> saw, steps |-> 0]
<1>1. listing \in [Hosts -> Lists] /\ ago \in [Hosts -> SUBSET PastLists] /\ PresentIsKnown
  BY DEF ChoiceInv, ChoiceTypeOK
<1>2. now \in PastLists /\ now.saw = saw /\ now.steps = 0
  BY DEF PastLists
<1>3. /\ \A g \in Hosts : listing'[g] = IF g = h THEN saw ELSE listing[g]
      /\ listing' \in [Hosts -> Lists]
  BY <1>1 DEF Offers
<1>4. \A g \in Hosts : ago'[g] = IF g = h THEN {a \in ago[g] : a.saw # saw} \cup {now} ELSE ago[g]
  BY <1>1 DEF Offers
<1>5. ago' \in [Hosts -> SUBSET PastLists]
  BY <1>1, <1>2 DEF Offers
<1> HIDE DEF now
<1>6. \A g \in Hosts, s \in Lists, n \in Nat : GaveWithin(g, s, n) => GaveWithin(g, s, n)'
  <2> SUFFICES ASSUME NEW g \in Hosts, NEW s \in Lists, NEW n \in Nat,
                      NEW a \in ago[g], a.saw = s, a.steps <= n
               PROVE  \E b \in ago'[g] : b.saw = s /\ b.steps <= n
    BY DEF GaveWithin
  <2>1. CASE g # h \/ a.saw # saw
    BY <1>4, <2>1
  <2>2. CASE g = h /\ a.saw = saw
    <3>1. now \in ago'[g] /\ now.saw = s /\ now.steps = 0
      BY <1>2, <1>4, <2>2
    <3>2. QED
      BY <3>1
  <2>3. QED
    BY <2>1, <2>2
<1>7. PresentIsKnown'
  <2> SUFFICES ASSUME NEW g \in Hosts
               PROVE  \E b \in ago'[g] : b.saw = listing'[g] /\ b.steps <= 0
    BY DEF PresentIsKnown, GaveWithin
  <2>1. CASE g = h
    <3>1. now \in ago'[g] /\ now.saw = listing'[g] /\ now.steps = 0
      BY <1>2, <1>3, <1>4, <2>1
    <3>2. QED
      BY <3>1
  <2>2. CASE g # h
    BY <1>1, <1>3, <1>4, <2>2 DEF PresentIsKnown, GaveWithin
  <2>3. QED
    BY <2>1, <2>2
<1>8. QED
  BY <1>3, <1>5, <1>6, <1>7

(* The commands leave the servers' answers alone, and the entries but for  *)
(* one that is made of the present answer.                                 *)
LEMMA LookKept ==
  ASSUME ChoiceInv, UNCHANGED <<listing, ago, entry>>,
         host' \in Hosts, provider' \in Local \cup Keyed, choosing' \in ModelCommands,
         look'.of \in Hosts => look'.saw \in {a.saw : a \in ago[look'.of]}
  PROVE  ChoiceInv'
BY DEF ChoiceInv, ChoiceTypeOK, PresentIsKnown, EntriesAge, ListIsRecent, GaveWithin

(* Every step keeps this: of the servers, of time, and of /model, /server  *)
(* and /pull.                                                              *)
LEMMA ChoiceKept == ChoiceInv /\ [ChoiceNext]_choiceVars => ChoiceInv'
<1> SUFFICES ASSUME ChoiceInv, [ChoiceNext]_choiceVars PROVE ChoiceInv'
  OBVIOUS
<1>1. ChoiceTypeOK /\ PresentIsKnown /\ EntriesAge /\ ListIsRecent
  BY DEF ChoiceInv
<1>2. /\ NotChoosing \in ModelCommands /\ NoLook.of \notin Hosts
      /\ \A h \in Hosts : listing[h] \in {a.saw : a \in ago[h]}
  <2>1. \A h \in Hosts : listing[h] \in {a.saw : a \in ago[h]}
    BY <1>1, GivenIsPast DEF PresentIsKnown
  <2>2. QED
    BY <2>1, NoServers DEF NotChoosing, ModelCommands
<1>3. CASE UNCHANGED choiceVars
  BY <1>1, <1>3 DEF choiceVars, ChoiceInv, ChoiceTypeOK, PresentIsKnown, EntriesAge, ListIsRecent,
     GaveWithin
<1>4. ASSUME NEW h \in Hosts, Swap(h) PROVE ChoiceInv'
  <2>1. PICK saw \in {Offline, {}, ModelNames} : Offers(h, saw)
    BY <1>4 DEF Swap
  <2>2. saw \in Lists
    BY <2>1 DEF Lists, Offline, ModelNames
  <2>3. look' = NoLook /\ UNCHANGED <<host, provider, entry, choosing>>
    BY <1>4 DEF Swap, TheSettings
  <2>4. QED
    BY <1>1, <1>2, <2>1, <2>2, <2>3, OffersKept
       DEF ChoiceInv, ChoiceTypeOK, EntriesAge, ListIsRecent, KeptLists
<1>5. CASE TimePasses
  <2>1. look' = NoLook /\ UNCHANGED <<host, provider, listing>>
    BY <1>5 DEF TimePasses, TheSettings
  <2>2. choosing' \in ModelCommands
    BY <1>1, <1>5 DEF TimePasses, ChoiceTypeOK, ModelCommands
  <2>3. \A h \in Hosts : entry'[h] = IF entry[h].age + 1 < ModelsTTL
                                     THEN [entry[h] EXCEPT !.age = @ + 1] ELSE NoEntry
    BY <1>5 DEF TimePasses
  <2> DEFINE older(h, a) == [a EXCEPT !.steps = IF a.saw = listing[h] THEN 0 ELSE @ + 1]
  <2>4. \A h \in Hosts :
          ago'[h] = {older(h, a) : a \in {b \in ago[h] : b.saw = listing[h] \/ b.steps + 1 < ModelsTTL}}
    BY <1>5 DEF TimePasses
  <2>5. ASSUME NEW h \in Hosts, NEW a \in PastLists
        PROVE  /\ older(h, a) \in PastLists /\ older(h, a).saw = a.saw
               /\ older(h, a).steps = IF a.saw = listing[h] THEN 0 ELSE a.steps + 1
    BY DEF PastLists
  <2>6. \A h \in Hosts : ago[h] \subseteq PastLists /\ entry[h] \in KeptLists
    BY <1>1 DEF ChoiceTypeOK
  <2> HIDE DEF older
  <2>7. ago' \in [Hosts -> SUBSET PastLists]
    <3>1. \A h \in Hosts : ago'[h] \subseteq PastLists
      BY <2>4, <2>5, <2>6
    <3>2. \E S : ago' = [h \in Hosts |-> S[h]]
      <4>1. ago' = [h \in Hosts |-> ago'[h]]
        BY <1>5 DEF TimePasses
      <4>2. QED
        BY <4>1
    <3>3. QED
      BY <3>1, <3>2
  <2>8. ASSUME NEW h \in Hosts
        PROVE  /\ entry'[h] \in KeptLists
               /\ entry'[h].age < ModelsTTL =>
                    /\ entry[h].age < ModelsTTL /\ entry'[h].age = entry[h].age + 1
                    /\ entry'[h].saw = entry[h].saw
    <3>1. entry[h] \in KeptLists /\ ModelsTTL \in Nat
      BY <2>6, ChoiceAssumption
    <3>2. CASE entry[h].age + 1 < ModelsTTL
      <4>1. entry'[h] = [entry[h] EXCEPT !.age = @ + 1]
        BY <2>3, <3>2
      <4>2. QED
        BY <3>1, <3>2, <4>1 DEF KeptLists
    <3>3. CASE ~(entry[h].age + 1 < ModelsTTL)
      <4>1. entry'[h] = NoEntry
        BY <2>3, <3>3
      <4>2. NoEntry \in KeptLists /\ NoEntry.age = ModelsTTL
        BY <3>1 DEF NoEntry, KeptLists, Lists
      <4>3. QED
        BY <3>1, <4>1, <4>2
    <3>4. QED
      BY <3>2, <3>3
  <2>9. entry' \in [Hosts -> KeptLists]
    <3>1. entry' = [h \in Hosts |-> entry'[h]]
      BY <1>5 DEF TimePasses
    <3>2. QED
      BY <2>8, <3>1
  <2>10. PresentIsKnown'
    <3> SUFFICES ASSUME NEW h \in Hosts
                 PROVE  \E b \in ago'[h] : b.saw = listing[h] /\ b.steps <= 0
      BY <2>1 DEF PresentIsKnown, GaveWithin
    <3>1. PICK a \in ago[h] : a.saw = listing[h] /\ a.steps <= 0
      BY <1>1 DEF PresentIsKnown, GaveWithin
    <3>2. older(h, a) \in ago'[h] /\ older(h, a).saw = listing[h] /\ older(h, a).steps = 0
      BY <2>4, <2>5, <2>6, <3>1
    <3>3. QED
      BY <3>2
  <2>11. EntriesAge'
    <3> SUFFICES ASSUME NEW h \in Hosts, entry'[h].age < ModelsTTL
                 PROVE  \E b \in ago'[h] : b.saw = entry'[h].saw /\ b.steps <= entry'[h].age
      BY DEF EntriesAge, GaveWithin
    <3>1. PICK a \in ago[h] : a.saw = entry[h].saw /\ a.steps <= entry[h].age
      BY <1>1, <2>8 DEF EntriesAge, GaveWithin
    <3>2. a \in PastLists /\ a.steps \in Nat /\ entry[h].age \in Nat /\ ModelsTTL \in Nat
      BY <2>6, <3>1, ChoiceAssumption DEF PastLists, KeptLists
    <3>3. entry'[h].saw = entry[h].saw /\ entry'[h].age = entry[h].age + 1
      BY <2>8
    <3>4. older(h, a) \in ago'[h]
      BY <2>4, <3>1, <3>2, <3>3
    <3>5. older(h, a).saw = a.saw /\ older(h, a).steps <= a.steps + 1
      BY <2>5, <3>2
    <3>6. older(h, a).steps \in Nat
      BY <2>5, <3>2 DEF PastLists
    <3>7. QED
      BY <3>1, <3>2, <3>3, <3>4, <3>5, <3>6
  <2>12. QED
    BY <1>1, <1>2, <2>1, <2>2, <2>7, <2>9, <2>10, <2>11 DEF ChoiceInv, ChoiceTypeOK, ListIsRecent
<1>6. CASE FetchList
  <2> DEFINE new == [age |-> choosing.age, saw |-> listing[host]]
  <2>1. /\ entry' = [entry EXCEPT ![host] = new]
        /\ look' = [of |-> host, saw |-> listing[host]] /\ choosing' = NotChoosing
        /\ UNCHANGED <<host, provider, listing, ago>>
    BY <1>6 DEF FetchList, TheSettings, TheWorld
  <2>2. new \in KeptLists /\ new.age = choosing.age /\ new.saw = listing[host]
    BY <1>1 DEF ChoiceTypeOK, KeptLists, ModelCommands
  <2> HIDE DEF new
  <2>3. /\ entry' \in [Hosts -> KeptLists]
        /\ \A h \in Hosts : entry'[h] = IF h = host THEN new ELSE entry[h]
    BY <1>1, <2>1, <2>2 DEF ChoiceTypeOK
  <2>4. GaveWithin(host, new.saw, new.age)
    <3>1. PICK a \in ago[host] : a.saw = listing[host] /\ a.steps <= 0
      BY <1>1 DEF PresentIsKnown, ChoiceTypeOK, GaveWithin
    <3>2. a.steps \in Nat /\ choosing.age \in Nat
      BY <1>1, <3>1 DEF ChoiceTypeOK, PastLists, ModelCommands
    <3>3. QED
      BY <2>2, <3>1, <3>2 DEF GaveWithin
  <2>5. EntriesAge'
    BY <1>1, <2>1, <2>3, <2>4 DEF EntriesAge, GaveWithin
  <2>6. PresentIsKnown' /\ ListIsRecent'
    BY <1>1, <1>2, <2>1 DEF PresentIsKnown, ListIsRecent, GaveWithin, ChoiceTypeOK
  <2>7. QED
    BY <1>1, <1>2, <2>1, <2>3, <2>5, <2>6 DEF ChoiceInv, ChoiceTypeOK
<1>7. ASSUME Hit \/ Miss, UNCHANGED <<TheSettings, TheWorld>> PROVE ChoiceInv'
  <2>1. UNCHANGED <<host, provider, listing, ago, entry>>
    BY <1>7 DEF Hit, Miss, TheSettings, TheWorld
  <2>2. CASE Hit
    <3>1. look' = [of |-> host, saw |-> entry[host].saw] /\ Fresh /\ choosing' = choosing
      BY <2>2 DEF Hit
    <3>2. entry[host].saw \in {a.saw : a \in ago[host]}
      BY <1>1, <3>1, GivenIsPast DEF EntriesAge, Fresh, ChoiceTypeOK
    <3>3. QED
      BY <1>1, <2>1, <3>1, <3>2, LookKept DEF ChoiceTypeOK
  <2>3. CASE Miss
    BY <1>1, <1>2, <2>1, <2>3, LookKept DEF ChoiceTypeOK, Miss, NotChoosing, ModelCommands
  <2>4. QED
    BY <1>7, <2>2, <2>3
<1>8. CASE ListModels
  BY <1>7, <1>8 DEF ListModels
<1>9. CASE ListCloudModels
  BY <1>1, <1>9, NoServers, LookKept DEF ListCloudModels, TheSettings, TheWorld, ChoiceTypeOK
<1>10. CASE SetModel
  <2>1. CASE provider = "ollama"
    BY <1>7, <1>10, <2>1 DEF SetModel
  <2>2. CASE provider # "ollama"
    BY <1>1, <1>2, <1>10, <2>2, LookKept DEF SetModel, TheSettings, TheWorld, ChoiceTypeOK
  <2>3. QED
    BY <2>1, <2>2
<1>11. ASSUME NEW h \in Hosts, NEW insists \in BOOLEAN, SetServer(h, insists) PROVE ChoiceInv'
  <2>1. /\ host' \in Hosts /\ look' = [of |-> h, saw |-> listing[h]]
        /\ UNCHANGED <<provider, listing, ago, entry, choosing>>
    BY <1>1, <1>11 DEF SetServer, TheWorld, ChoiceTypeOK
  <2>2. QED
    BY <1>1, <1>2, <2>1, LookKept DEF ChoiceTypeOK
<1>12. ASSUME NEW p \in Local \cup Keyed, NEW hasKey \in BOOLEAN, SetProvider(p, hasKey)
       PROVE  ChoiceInv'
  BY <1>1, <1>2, <1>12, LookKept DEF SetProvider, TheWorld, ChoiceTypeOK
<1>13. CASE LookOnly
  <2>1. /\ UNCHANGED <<host, provider, listing, ago, entry, choosing>>
        /\ \/ look' = [of |-> host, saw |-> listing[host]]
           \/ look' = [of |-> provider, saw |-> {}] /\ provider \in Local \cup Keyed
    BY <1>1, <1>13 DEF LookOnly, Status, Health, HealthCheck, Asked, TheSettings, TheWorld, ChoiceTypeOK
  <2>2. look'.of \in Hosts => look'.saw \in {a.saw : a \in ago[look'.of]}
    BY <1>1, <1>2, <2>1, NoServers DEF ChoiceTypeOK
  <2>3. QED
    BY <1>1, <2>1, <2>2, LookKept DEF ChoiceTypeOK
<1>14. CASE BeginSetup
  <2>1. /\ UNCHANGED <<host, provider, listing, ago, entry>>
        /\ look' = [of |-> host, saw |-> listing[host]] /\ choosing' \in ModelCommands
    BY <1>14 DEF BeginSetup, Asked, TheSettings, TheWorld, NotChoosing, ModelCommands, Missing, ModelNames
  <2>2. QED
    BY <1>1, <1>2, <2>1, LookKept DEF ChoiceTypeOK
<1>15. CASE SetupAnswered
  <2>1. /\ UNCHANGED <<host, provider, listing, ago, entry>> /\ look' = NoLook
        /\ choosing' \in {[choosing EXCEPT !.stage = "pull"], NotChoosing}
    BY <1>15 DEF SetupAnswered, TheSettings, TheWorld
  <2>2. choosing' \in ModelCommands
    BY <1>1, <1>2, <2>1 DEF ChoiceTypeOK, ModelCommands
  <2>3. QED
    BY <1>1, <1>2, <2>1, <2>2, LookKept DEF ChoiceTypeOK
<1>16. ASSUME NEW m \in {"coder", "embed"}, PullModel(m) PROVE ChoiceInv'
  <2>1. /\ look' = NoLook /\ UNCHANGED <<host, provider, entry>>
        /\ choosing' = [choosing EXCEPT !.pull = @ \ {m},
                                        !.stage = IF choosing.pull = {m} THEN "adopt" ELSE "pull"]
    BY <1>16 DEF PullModel, TheSettings
  <2>2. choosing' \in ModelCommands
    BY <1>1, <2>1 DEF ChoiceTypeOK, ModelCommands
  <2>3. CASE Offers(host, listing[host] \cup {m})
    <3>1. host \in Hosts /\ listing[host] \cup {m} \in Lists
      BY <1>1, <1>16 DEF ChoiceTypeOK, Lists, ModelNames
    <3>2. QED
      BY <1>1, <1>2, <2>1, <2>2, <2>3, <3>1, OffersKept
         DEF ChoiceInv, ChoiceTypeOK, EntriesAge, ListIsRecent, KeptLists
  <2>4. CASE UNCHANGED <<listing, ago>>
    BY <1>1, <1>2, <2>1, <2>2, <2>4, LookKept DEF ChoiceTypeOK
  <2>5. QED
    BY <1>16, <2>3, <2>4 DEF PullModel
<1>17. CASE Adopt
  BY <1>1, <1>2, <1>17, LookKept DEF Adopt, TheWorld, ChoiceTypeOK, Local
<1>18. QED
  BY <1>3, <1>4, <1>5, <1>6, <1>8, <1>9, <1>10, <1>11, <1>12, <1>13, <1>14, <1>15, <1>16, <1>17
     DEF ChoiceNext

(* _get_models_cached: the list that /models shows and /model compares     *)
(* with is one that the configured server had, no longer ago than a list   *)
(* is kept: for any servers and models.                                    *)
THEOREM ListsAreRecent == ChoiceSpec => []ListIsRecent
<1>1. ChoiceInit => ChoiceInv
  <2> SUFFICES ASSUME ChoiceInit PROVE ChoiceInv
    OBVIOUS
  <2>1. NoEntry \in KeptLists /\ NoEntry.age = ModelsTTL /\ ModelsTTL \in Nat
    BY ChoiceAssumption DEF NoEntry, KeptLists, Lists
  <2>2. listing \in [Hosts -> Lists]
    BY DEF ChoiceInit, Lists, ModelNames, Offline
  <2>3. /\ ago \in [Hosts -> SUBSET PastLists]
        /\ \A h \in Hosts : ago[h] = {[saw |-> listing[h], steps |-> 0]}
    BY <2>2 DEF ChoiceInit, PastLists
  <2>4. PresentIsKnown
    <3> SUFFICES ASSUME NEW h \in Hosts
                 PROVE  \E a \in ago[h] : a.saw = listing[h] /\ a.steps <= 0
      BY DEF PresentIsKnown, GaveWithin
    <3> DEFINE now == [saw |-> listing[h], steps |-> 0]
    <3>1. now \in ago[h] /\ now.saw = listing[h] /\ now.steps = 0
      BY <2>3
    <3>2. QED
      BY <3>1
  <2>5. /\ entry \in [Hosts -> KeptLists] /\ \A h \in Hosts : ~(entry[h].age < ModelsTTL)
    BY <2>1 DEF ChoiceInit
  <2>6. ChoiceTypeOK
    BY <2>2, <2>3, <2>5 DEF ChoiceInit, ChoiceTypeOK, NotChoosing, Local, ModelCommands
  <2>7. QED
    BY <2>4, <2>5, <2>6, NoServers DEF ChoiceInit, ChoiceInv, EntriesAge, ListIsRecent
<1>2. ChoiceInv => ListIsRecent
  BY DEF ChoiceInv
<1>3. QED
  BY <1>1, <1>2, ChoiceKept, PTL DEF ChoiceSpec

-----------------------------------------------------------------------------
(* DebugRun: reports are whole.                                            *)

\* Where the main thread watches the program.
Watching == {"poll", "input", "nap", "finally", "join stdout", "join stderr", "close"}

\* Where the text logs have been closed.
LogsClosed == {"json", "reported"}

\* Every variable has its type.
DebugTypeOK ==
  /\ keepers \subseteq Outputs
  /\ written \in [Recorded -> Nat] /\ listed \in [Recorded -> Nat]
  /\ logged \in [Recorded -> Nat] /\ json \in [Recorded -> Nat]
  /\ outputReader \in [Outputs -> {"none", "reading", "listed", "done", "dead"}]
  /\ gaveUp \subseteq Outputs /\ failed \subseteq Recorded \cup {"json"}
  /\ logOpen \in BOOLEAN

\* No line is listed that was not written, and none is in the text log before it
\* is listed: a thread is at most one line behind.
LinesFollow ==
  /\ \A s \in Outputs :
       /\ listed[s] <= written[s] /\ logged[s] <= listed[s]
       /\ outputReader[s] = "listed" => listed[s] = logged[s] + 1
       /\ outputReader[s] \in {"none", "reading", "done"} => logged[s] = listed[s]
  /\ logged["stdin"] <= listed["stdin"]
  /\ feeder = "listed" => logged["stdin"] < listed["stdin"]
  /\ main = "start" => \A s \in Outputs : outputReader[s] = "none"

\* A thread that has ended well has recorded all there will ever be.
DoneIsAll ==
  \A s \in Outputs : outputReader[s] = "done" =>
    process = "exited" /\ s \notin keepers /\ listed[s] = written[s]

\* The text log is open for as long as run_interactive looks after the process,
\* and a thread fails only at one that is closed or takes no line.
OpenLog ==
  /\ main \in Watching => logOpen
  /\ main \in LogsClosed => ~logOpen
  /\ \A s \in Outputs : outputReader[s] = "dead" => ~logOpen \/ s \in failed

\* Past its join, a thread is done, or was ended, or given up.
Over(s) == s \in gaveUp \cup failed \/ outputReader[s] = "done"
Joined ==
  /\ main \in {"join stderr", "close"} \cup LogsClosed => Over("stdout")
  /\ main \in {"close"} \cup LogsClosed => Over("stderr")

\* If there is a JSON log it has what the text log has, and all of a stream that
\* is done.
JsonFollows ==
  main = "reported" /\ "json" \notin failed =>
    /\ \A s \in Recorded : logged[s] <= json[s]
    /\ \A s \in Outputs : s \in gaveUp \cup failed \/ json[s] = written[s]

\* The parts together are inductive.
DebugInv == DebugTypeOK /\ LinesFollow /\ DoneIsAll /\ OpenLog /\ Joined /\ JsonFollows

(* Steps of the main thread, which leave the streams alone.                *)
LEMMA MainKept ==
  ASSUME DebugInv,
         UNCHANGED <<keepers, listed, logged, json, logOpen, outputReader, feeder, gaveUp, failed>>,
         written' = written \/ (main \in Watching
                                /\ \E n \in Nat : written' = [written EXCEPT !["stdin"] = n]),
         process = "exited" => process' = "exited",
         main' \in {"poll", "input", "nap", "finally", "join stdout", "raised"},
         main' # "raised" => main \in Watching
  PROVE  DebugInv'
<1>1. /\ written' \in [Recorded -> Nat] /\ \A s \in Outputs : written'[s] = written[s]
  <2>1. written \in [Recorded -> Nat] /\ "stdin" \in Recorded /\ "stdin" \notin Outputs
        /\ Outputs \subseteq Recorded
    BY DEF DebugInv, DebugTypeOK, Recorded, Outputs
  <2>2. CASE written' = written
    BY <2>1, <2>2
  <2>3. CASE \E n \in Nat : written' = [written EXCEPT !["stdin"] = n]
    BY <2>1, <2>3
  <2>4. QED
    BY <2>2, <2>3
<1>2. DebugTypeOK' /\ LinesFollow' /\ DoneIsAll'
  BY <1>1 DEF DebugInv, DebugTypeOK, LinesFollow, DoneIsAll
<1>3. OpenLog' /\ Joined' /\ JsonFollows'
  BY DEF DebugInv, OpenLog, Joined, Over, JsonFollows, Watching, LogsClosed
<1>4. QED
  BY <1>2, <1>3 DEF DebugInv

(* Every step keeps this: of the main thread, of the readers of the two    *)
(* outputs, of the feeder of the input and of the program.                 *)
LEMMA DebugKept == DebugInv /\ [DebugNext]_debugVars => DebugInv'
<1> SUFFICES ASSUME DebugInv, [DebugNext]_debugVars PROVE DebugInv'
  OBVIOUS
<1>1. DebugTypeOK /\ LinesFollow /\ DoneIsAll /\ OpenLog /\ Joined /\ JsonFollows
  BY DEF DebugInv
<1>2. /\ "stdout" \in Outputs /\ "stderr" \in Outputs /\ "stdin" \in Recorded /\ "stdin" \notin Outputs
      /\ Outputs \subseteq Recorded /\ \A s \in Recorded : s \in Outputs \/ s = "stdin"
  BY DEF Outputs, Recorded
<1>3. CASE UNCHANGED debugVars
  BY <1>1, <1>3 DEF debugVars, DebugInv, DebugTypeOK, LinesFollow, DoneIsAll, OpenLog, Joined, Over, JsonFollows
<1>4. CASE LaunchProgram
  <2>1. /\ main = "start" /\ UNCHANGED <<keepers, written, listed, logged, json, gaveUp, failed>>
        /\ main' \in {"poll", "launch failed", "raised"}
    BY <1>4 DEF LaunchProgram, pipes, records
  <2>2. CASE main' = "poll"
    <3>1. /\ logOpen' = TRUE /\ feeder' = "waiting"
          /\ outputReader' = [s \in Outputs |-> "reading"]
      BY <1>4, <2>2 DEF LaunchProgram
    <3>2. \A s \in Outputs : logged[s] = listed[s]
      BY <1>1, <1>4 DEF LinesFollow, LaunchProgram
    <3>3. QED
      BY <1>1, <2>1, <2>2, <3>1, <3>2
         DEF DebugInv, DebugTypeOK, LinesFollow, DoneIsAll, OpenLog, Joined, Over, JsonFollows, Watching, LogsClosed
  <2>3. CASE main' \in {"launch failed", "raised"}
    <3>1. UNCHANGED <<process, logOpen, outputReader, feeder>>
      BY <1>4, <2>3 DEF LaunchProgram, threads
    <3>2. QED
      BY <1>1, <2>1, <2>3, <3>1
         DEF DebugInv, DebugTypeOK, LinesFollow, DoneIsAll, OpenLog, Joined, Over, JsonFollows, Watching, LogsClosed
  <2>4. QED
    BY <2>1, <2>2, <2>3
<1>5. CASE Poll \/ Input \/ NapOver \/ Interrupted \/ WaitForProcess
  <2>1. /\ UNCHANGED <<keepers, listed, logged, json, logOpen, outputReader, feeder, gaveUp, failed>>
        /\ main \in Watching
        /\ process = "exited" => process' = "exited"
        /\ main' \in {"poll", "input", "nap", "finally", "join stdout", "raised"}
    BY <1>5 DEF Poll, Input, NapOver, Interrupted, WaitForProcess, InMain, pipes, records, threads, Watching
  <2>2. CASE Input /\ written' # written
    <3>1. written' = [written EXCEPT !["stdin"] = written["stdin"] + 1] /\ written["stdin"] + 1 \in Nat
      BY <1>1, <1>2, <2>2 DEF Input, DebugTypeOK
    <3>2. QED
      BY <2>1, <3>1, MainKept
  <2>3. CASE ~(Input /\ written' # written)
    <3>1. written' = written
      BY <1>5, <2>3 DEF Poll, Input, NapOver, Interrupted, WaitForProcess, InMain, pipes
    <3>2. QED
      BY <2>1, <3>1, MainKept
  <2>4. QED
    BY <2>2, <2>3
<1>6. ASSUME NEW s \in Outputs, NEW here, NEW next, Join(s, here, next),
             \/ s = "stdout" /\ here = "join stdout" /\ next = "join stderr"
             \/ s = "stderr" /\ here = "join stderr" /\ next = "close"
      PROVE  DebugInv'
  <2>1. /\ main = here /\ main' = next
        /\ UNCHANGED <<process, keepers, written, listed, logged, json, logOpen, outputReader,
                       feeder, failed>>
        /\ gaveUp' = IF outputReader[s] \in {"done", "dead"} THEN gaveUp ELSE gaveUp \cup {s}
    BY <1>6 DEF Join, pipes, records, threads
  <2>2. outputReader[s] = "dead" => s \in failed
    BY <1>1, <1>6, <2>1 DEF OpenLog, Watching
  <2>3. Over(s)' /\ gaveUp \subseteq gaveUp' /\ gaveUp' \subseteq Outputs
    BY <1>1, <1>6, <2>1, <2>2 DEF DebugTypeOK, Over
  <2>4. Joined'
    BY <1>1, <1>6, <2>1, <2>3 DEF Joined, Over, LogsClosed
  <2>5. DebugTypeOK' /\ LinesFollow' /\ DoneIsAll'
    BY <1>1, <1>6, <2>1, <2>3 DEF DebugTypeOK, LinesFollow, DoneIsAll
  <2>6. OpenLog' /\ JsonFollows'
    BY <1>1, <1>6, <2>1 DEF OpenLog, JsonFollows, Watching, LogsClosed
  <2>7. QED
    BY <2>4, <2>5, <2>6 DEF DebugInv
<1>7. CASE CloseLog
  <2>1. /\ main = "close" /\ main' \in {"raised", "json"}
        /\ logOpen' = FALSE \/ (main' = "raised" /\ logOpen' = logOpen)
        /\ UNCHANGED <<process, keepers, written, listed, logged, json, outputReader, feeder,
                       gaveUp, failed>>
    BY <1>7 DEF CloseLog, InMain, pipes, records, threads
  <2>2. QED
    BY <1>1, <2>1
       DEF DebugInv, DebugTypeOK, LinesFollow, DoneIsAll, OpenLog, Joined, Over, JsonFollows, Watching, LogsClosed
<1>8. CASE WriteJson
  <2>1. /\ main = "json" /\ main' = "reported"
        /\ \/ json' = listed /\ failed' = failed
           \/ json' = json /\ failed' = failed \cup {"json"}
        /\ UNCHANGED <<process, keepers, written, listed, logged, logOpen, outputReader, feeder, gaveUp>>
    BY <1>8 DEF WriteJson, pipes, records, threads
  <2>2. \A s \in Outputs : Over(s)
    BY <1>1, <2>1 DEF Joined, Over, Outputs, LogsClosed
  <2>3. \A s \in Recorded : logged[s] <= listed[s]
    BY <1>1, <1>2 DEF LinesFollow
  <2>4. \A s \in Outputs : s \in gaveUp \cup failed \/ listed[s] = written[s]
    BY <1>1, <2>2 DEF DoneIsAll, Over
  <2>5. JsonFollows'
    BY <2>1, <2>3, <2>4 DEF JsonFollows
  <2>6. DebugTypeOK' /\ LinesFollow' /\ DoneIsAll'
    BY <1>1, <2>1 DEF DebugTypeOK, LinesFollow, DoneIsAll
  <2>7. OpenLog' /\ Joined'
    BY <1>1, <2>1 DEF OpenLog, Joined, Over, Watching, LogsClosed
  <2>8. QED
    BY <2>5, <2>6, <2>7 DEF DebugInv
<1>9. ASSUME NEW s \in Outputs, ReadLine(s) PROVE DebugInv'
  <2>1. /\ outputReader[s] = "reading" /\ listed[s] < written[s]
        /\ listed' = [listed EXCEPT ![s] = @ + 1]
        /\ outputReader' = [outputReader EXCEPT ![s] = "listed"]
        /\ UNCHANGED <<process, keepers, written, logged, json, logOpen, main, feeder, gaveUp,
                       failed>>
    BY <1>9 DEF ReadLine, Listed, Elsewhere, pipes
  <2>2. /\ listed' \in [Recorded -> Nat] /\ listed'[s] = listed[s] + 1
        /\ \A r \in Recorded : r # s => listed'[r] = listed[r]
        /\ outputReader' \in [Outputs -> {"none", "reading", "listed", "done", "dead"}]
        /\ outputReader'[s] = "listed" /\ \A r \in Outputs : r # s => outputReader'[r] = outputReader[r]
    BY <1>1, <1>2, <2>1 DEF DebugTypeOK
  <2>3. listed[s] \in Nat /\ written[s] \in Nat /\ logged[s] \in Nat /\ logged[s] = listed[s]
    BY <1>1, <1>2, <2>1 DEF DebugTypeOK, LinesFollow
  <2>4. DebugTypeOK' /\ DoneIsAll'
    BY <1>1, <1>2, <2>1, <2>2 DEF DebugTypeOK, DoneIsAll
  <2>5. LinesFollow'
    BY <1>1, <1>2, <2>1, <2>2, <2>3 DEF LinesFollow
  <2>6. OpenLog' /\ Joined' /\ JsonFollows'
    BY ZenonT(60), <1>1, <1>2, <2>1, <2>2 DEF OpenLog, Joined, Over, JsonFollows
  <2>7. QED
    BY <2>4, <2>5, <2>6 DEF DebugInv
<1>10. ASSUME NEW s \in Outputs, LogLine(s) PROVE DebugInv'
  <2>1. PICK ends \in BOOLEAN :
          Logged(s, ends) /\ outputReader' = [outputReader EXCEPT ![s] = IF ends THEN "dead" ELSE "reading"]
    BY <1>10 DEF LogLine
  <2>2. /\ outputReader[s] = "listed"
        /\ UNCHANGED <<process, keepers, written, listed, json, logOpen, main, feeder, gaveUp>>
    BY <1>10 DEF LogLine, Elsewhere, pipes
  <2>3. /\ outputReader' \in [Outputs -> {"none", "reading", "listed", "done", "dead"}]
        /\ outputReader'[s] = IF ends THEN "dead" ELSE "reading"
        /\ \A r \in Outputs : r # s => outputReader'[r] = outputReader[r]
    BY <1>1, <2>1 DEF DebugTypeOK
  <2>4. listed[s] \in Nat /\ logged[s] \in Nat /\ listed[s] = logged[s] + 1
    BY <1>1, <1>2, <2>2 DEF DebugTypeOK, LinesFollow
  <2>5. \/ /\ logOpen /\ ~ends /\ failed' = failed
           /\ logged' = [logged EXCEPT ![s] = @ + 1]
        \/ /\ logOpen /\ ends /\ failed' = failed \cup {s}
           /\ logged' = logged \/ logged' = [logged EXCEPT ![s] = @ + 1]
        \/ ~logOpen /\ ends /\ logged' = logged /\ failed' = failed
    BY <2>1 DEF Logged
  <2>6. /\ logged' \in [Recorded -> Nat] /\ logged'[s] \in {logged[s], logged[s] + 1}
        /\ ~ends => logged'[s] = logged[s] + 1
        /\ ~logOpen => logged' = logged
        /\ \A r \in Recorded : r # s => logged'[r] = logged[r]
    BY <1>1, <1>2, <2>4, <2>5 DEF DebugTypeOK
  <2>7. /\ failed' \subseteq Recorded \cup {"json"} /\ failed \subseteq failed'
        /\ "json" \in failed' => "json" \in failed
        /\ ~logOpen => failed' = failed
        /\ ends => ~logOpen \/ s \in failed'
    <3>1. s # "json" /\ s \in Recorded
      BY <1>2 DEF Outputs
    <3>2. QED
      BY <1>1, <2>5, <3>1 DEF DebugTypeOK
  <2>8. DebugTypeOK' /\ DoneIsAll'
    BY <1>1, <1>2, <2>2, <2>3, <2>6, <2>7 DEF DebugTypeOK, DoneIsAll
  <2>9. LinesFollow'
    BY <1>1, <1>2, <2>2, <2>3, <2>4, <2>6 DEF LinesFollow
  <2>10. OpenLog'
    BY <1>1, <2>2, <2>3, <2>7 DEF OpenLog
  <2>11. Joined'
    BY <1>1, <1>2, <2>2, <2>3, <2>7 DEF Joined, Over
  <2>12. JsonFollows'
    BY <1>1, <2>2, <2>6, <2>7 DEF JsonFollows, OpenLog, LogsClosed
  <2>13. QED
    BY <2>8, <2>9, <2>10, <2>11, <2>12 DEF DebugInv
<1>11. ASSUME NEW s \in Outputs, EndOfPipe(s) PROVE DebugInv'
  <2>1. /\ outputReader[s] = "reading" /\ listed[s] = written[s] /\ process = "exited" /\ s \notin keepers
        /\ outputReader' = [outputReader EXCEPT ![s] = "done"]
        /\ UNCHANGED <<process, keepers, written, listed, logged, json, logOpen, main, feeder,
                       gaveUp, failed>>
    BY <1>11 DEF EndOfPipe, Elsewhere, pipes, records
  <2>2. /\ outputReader' \in [Outputs -> {"none", "reading", "listed", "done", "dead"}]
        /\ outputReader'[s] = "done"
        /\ \A r \in Outputs : r # s => outputReader'[r] = outputReader[r]
    BY <1>1, <2>1 DEF DebugTypeOK
  <2>3. DebugTypeOK' /\ DoneIsAll'
    BY <1>1, <1>2, <2>1, <2>2 DEF DebugTypeOK, DoneIsAll
  <2>4. LinesFollow'
    BY <1>1, <1>2, <2>1, <2>2 DEF LinesFollow
  <2>5. OpenLog' /\ Joined' /\ JsonFollows'
    BY <1>1, <1>2, <2>1, <2>2 DEF OpenLog, Joined, Over, JsonFollows
  <2>6. QED
    BY <2>3, <2>4, <2>5 DEF DebugInv
<1>12. CASE Feed \/ LogFed
  <2>1. UNCHANGED <<process, keepers, written, json, logOpen, main, outputReader, gaveUp>>
    BY <1>12 DEF Feed, LogFed, Elsewhere, pipes
  <2>2. listed["stdin"] \in Nat /\ logged["stdin"] \in Nat
    BY <1>1, <1>2 DEF DebugTypeOK
  <2>3. \/ UNCHANGED <<listed, logged, failed>> /\ feeder' = "done"
        \/ /\ feeder' = "listed" /\ listed' = [listed EXCEPT !["stdin"] = @ + 1]
           /\ UNCHANGED <<logged, failed>>
        \/ /\ feeder = "listed" /\ feeder' # "listed" /\ listed' = listed
           /\ logOpen /\ failed' \in {failed, failed \cup {"stdin"}}
           /\ logged' = logged \/ logged' = [logged EXCEPT !["stdin"] = @ + 1]
    <3>1. CASE Feed
      BY <3>1 DEF Feed, Listed
    <3>2. CASE LogFed
      <4>1. PICK ends \in BOOLEAN :
              Logged("stdin", ends) /\ feeder' = IF ends THEN "done" ELSE "waiting"
        BY <3>2 DEF LogFed
      <4>2. QED
        BY <3>2, <4>1 DEF LogFed, Logged
    <3>3. QED
      BY <1>12, <3>1, <3>2
  <2>4. /\ listed' \in [Recorded -> Nat] /\ logged' \in [Recorded -> Nat]
        /\ \A s \in Outputs : listed'[s] = listed[s] /\ logged'[s] = logged[s]
        /\ logged'["stdin"] <= listed'["stdin"]
        /\ feeder' = "listed" => logged'["stdin"] < listed'["stdin"]
        /\ ~logOpen => logged'["stdin"] = logged["stdin"]
    BY <1>1, <1>2, <2>1, <2>2, <2>3 DEF DebugTypeOK, LinesFollow
  <2>5. /\ failed' \subseteq Recorded \cup {"json"}
        /\ \A s \in Outputs : s \in failed' <=> s \in failed
        /\ "json" \in failed' <=> "json" \in failed
    BY <1>1, <1>2, <2>3 DEF DebugTypeOK
  <2>6. DebugTypeOK' /\ DoneIsAll' /\ LinesFollow'
    BY <1>1, <2>1, <2>4, <2>5 DEF DebugTypeOK, DoneIsAll, LinesFollow
  <2>7. OpenLog' /\ Joined'
    BY <1>1, <1>2, <2>1, <2>5 DEF OpenLog, Joined, Over, LogsClosed
  <2>8. JsonFollows'
    BY <1>1, <1>2, <2>1, <2>4, <2>5 DEF OpenLog, JsonFollows, LogsClosed
  <2>9. QED
    BY <2>6, <2>7, <2>8 DEF DebugInv
<1>13. CASE ProgramWrites
  <2>1. /\ UNCHANGED <<process, keepers, listed, logged, json, logOpen, main, outputReader, feeder,
                       gaveUp, failed>>
        /\ \E s \in Outputs : /\ process # "exited" \/ s \in keepers
                              /\ written' = [written EXCEPT ![s] = @ + 1]
    BY <1>13 DEF ProgramWrites, records, threads
  <2>2. PICK s \in Outputs : /\ process # "exited" \/ s \in keepers
                             /\ written' = [written EXCEPT ![s] = @ + 1]
    BY <2>1
  <2>3. /\ written' \in [Recorded -> Nat] /\ written'[s] = written[s] + 1
        /\ \A r \in Recorded : r # s => written'[r] = written[r]
        /\ written[s] \in Nat /\ listed[s] \in Nat /\ outputReader[s] # "done"
    BY <1>1, <1>2, <2>2 DEF DebugTypeOK, DoneIsAll
  <2>4. DebugTypeOK' /\ DoneIsAll'
    BY <1>1, <1>2, <2>1, <2>3 DEF DebugTypeOK, DoneIsAll
  <2>5. LinesFollow'
    BY <1>1, <1>2, <2>1, <2>3 DEF LinesFollow
  <2>6. OpenLog' /\ Joined'
    BY <1>1, <2>1 DEF OpenLog, Joined, Over
  <2>7. JsonFollows'
    BY <1>1, <1>2, <2>1, <2>3 DEF JsonFollows, Joined, Over, LogsClosed, Outputs
  <2>8. QED
    BY <2>4, <2>5, <2>6, <2>7 DEF DebugInv
<1>14. CASE ProgramExits \/ KeeperExits
  <2>1. /\ UNCHANGED <<written, listed, logged, json, logOpen, main, outputReader, feeder, gaveUp,
                       failed>>
        /\ \/ process # "exited" /\ keepers' \subseteq Outputs
           \/ process' = process /\ keepers' \subseteq keepers
    BY <1>14 DEF ProgramExits, KeeperExits, records, threads
  <2>2. QED
    BY <1>1, <2>1 DEF DebugInv, DebugTypeOK, LinesFollow, DoneIsAll, OpenLog, Joined, Over, JsonFollows
<1>15. QED
  BY <1>3, <1>4, <1>5, <1>6, <1>7, <1>8, <1>9, <1>10, <1>11, <1>12, <1>13, <1>14, <1>2 DEF DebugNext

(* run_interactive, _record: when a run is reported, both logs have every  *)
(* line of an output, unless its pipe outlived the join or the text log    *)
(* did not take a line of it, and the JSON log has whatever the text log   *)
(* has, unless it could not be written: for any number of lines, whatever  *)
(* writes fail.                                                            *)
THEOREM ReportsAreWhole == DebugSpec => []ReportIsWhole
<1>1. DebugInit => DebugInv
  <2> SUFFICES ASSUME DebugInit PROVE DebugInv
    OBVIOUS
  <2>1. Nothing \in [Recorded -> Nat] /\ \A s \in Recorded : Nothing[s] = 0
    BY DEF Nothing
  <2>2. \A s \in Outputs : s \in Recorded
    BY DEF Recorded
  <2>3. /\ written = Nothing /\ listed = Nothing /\ logged = Nothing /\ json = Nothing
        /\ outputReader = [s \in Outputs |-> "none"] /\ feeder = "none" /\ main = "start"
        /\ keepers = {} /\ gaveUp = {} /\ failed = {} /\ logOpen = FALSE
    BY DEF DebugInit
  <2>4. DebugTypeOK
    BY <2>1, <2>3 DEF DebugTypeOK
  <2>5. LinesFollow
    BY <2>1, <2>2, <2>3 DEF LinesFollow, Recorded
  <2>6. DoneIsAll /\ OpenLog /\ Joined /\ JsonFollows
    BY <2>3 DEF DoneIsAll, OpenLog, Joined, Over, JsonFollows, Watching, LogsClosed
  <2>7. QED
    BY <2>4, <2>5, <2>6 DEF DebugInv
<1>2. DebugInv => ReportIsWhole
  <2> SUFFICES ASSUME DebugInv, main = "reported"
               PROVE  /\ \A s \in Outputs \ (gaveUp \cup failed) :
                           logged[s] = written[s] /\ ("json" \notin failed => json[s] = written[s])
                      /\ "json" \notin failed => \A s \in Recorded : logged[s] <= json[s]
    BY DEF ReportIsWhole
  <2>1. \A s \in Outputs : Over(s)
    BY DEF DebugInv, Joined, LogsClosed, Outputs
  <2>2. QED
    BY <2>1 DEF DebugInv, DoneIsAll, LinesFollow, JsonFollows, Over
<1>3. QED
  BY <1>1, <1>2, DebugKept, PTL DEF DebugSpec

-----------------------------------------------------------------------------
(* GitWork: no work is lost.                                               *)

\* The texts of all files.
Texts == [GitFiles -> Int]

\* The texts of some of the files.
SomeTexts == UNION {[S -> Int] : S \in SUBSET GitFiles}

\* What a commit has, and which commits it comes after.
CommitTexts == [tree : Texts, before : SUBSET Nat]

\* Texts are no newer than the edits so far.
TextsOK ==
  /\ worktree \in Texts /\ staged \in Texts /\ edits \in Nat
  /\ \A f \in GitFiles : Age(worktree[f]) <= edits /\ Age(staged[f]) <= edits

\* A commit comes after itself and after all that one of its own comes after,
\* and one of the others is the last.
Placed(i) ==
  /\ Before(i) \subseteq 1..i /\ i \in Before(i)
  /\ \A j \in Before(i) : Before(j) \subseteq Before(i)
  /\ i # 1 => \E j \in Before(i) \ {i} : \A k \in Before(i) \ {i} : k <= j

\* Every commit has texts of the edits so far, and its place.
HistoryOK ==
  /\ commits \in Seq(CommitTexts)
  /\ head \in 1..Len(commits) /\ upstream.there \in 1..Len(commits)
  /\ upstream \in [there : Nat, known : Nat]
  /\ \A i \in 1..Len(commits) : Placed(i)
  /\ \A i \in 1..Len(commits) : \A f \in GitFiles : Age(commits[i].tree[f]) <= edits

\* What a stash has, and what it was made from.
StashEntries == [text : SomeTexts, base : Texts]

\* What is stashed is no newer than the edits so far.
StashesOK ==
  /\ stashes \in Seq(StashEntries)
  /\ \A i \in 1..Len(stashes) : \A f \in DOMAIN stashes[i].text : Age(stashes[i].text[f]) <= edits

\* What is staged for a commit is no newer than the file.
StagedIsOlder ==
  \A f \in GitFiles : Same(staged[f], Tree[f]) \/ Age(staged[f]) <= Age(worktree[f])

\* The command of the program that is under way.
GitCommands == [name : {"none", "commit", "ai-commit"},
                at : {"ready", "model", "confirm", "commit"}, saw : SomeTexts]

\* What a command has shown is no newer than the file, and than what is staged
\* once it is about to commit.
ShownIsOlder ==
  /\ gitCommand \in GitCommands
  /\ \A f \in DOMAIN gitCommand.saw :
       /\ Age(gitCommand.saw[f]) <= Age(worktree[f])
       /\ gitCommand.at = "commit" => Age(gitCommand.saw[f]) <= Age(staged[f])

\* The parts together are inductive.
GitInv == TextsOK /\ HistoryOK /\ StashesOK /\ StagedIsOlder /\ ShownIsOlder

\* What a step may not lose.
Keeps == KeepsWork /\ KeepsUnfetched /\ CommitsShown

(* A text's age is a number of edits.                                      *)
LEMMA AgeIsNat == \A text \in Int : Age(text) \in Nat
BY DEF Age

(* To have the same text is an equivalence, and what was edited is the     *)
(* same only as itself.                                                    *)
LEMMA SameTexts ==
  /\ \A a, b, c \in Int : Same(a, b) /\ Same(b, c) => Same(a, c)
  /\ \A a, b \in Int : Same(a, b) => Same(b, a) /\ (a > 0 => a = b)
  /\ \A a \in Int : Same(a, a)
BY DEF Same

(* What some of the files have.                                            *)
LEMMA PartTexts ==
  /\ \A part \in SomeTexts : DOMAIN part \subseteq GitFiles /\ \A f \in DOMAIN part : part[f] \in Int
  /\ \A S \in SUBSET GitFiles, t \in Texts : [f \in S |-> t[f]] \in SomeTexts
<1>1. \A part \in SomeTexts : DOMAIN part \subseteq GitFiles /\ \A f \in DOMAIN part : part[f] \in Int
  BY DEF SomeTexts
<1>2. ASSUME NEW S \in SUBSET GitFiles, NEW t \in Texts PROVE [f \in S |-> t[f]] \in SomeTexts
  <2>1. [f \in S |-> t[f]] \in [S -> Int]
    BY DEF Texts
  <2>2. QED
    BY <2>1 DEF SomeTexts
<1>3. QED
  BY <1>1, <1>2

(* No command has shown anything.                                          *)
LEMMA NobodyShows ==
  /\ Nobody \in GitCommands
  /\ Nobody.at = "ready" /\ DOMAIN Nobody.saw = {}
<1>1. [f \in {} |-> 0] \in SomeTexts
  <2>1. [f \in {} |-> 0] \in [{} -> Int]
    OBVIOUS
  <2>2. QED
    BY <2>1 DEF SomeTexts
<1>2. QED
  BY <1>1 DEF Nobody, GitCommands

(* The present tree is a commit's.                                         *)
LEMMA TreeIsText ==
  ASSUME HistoryOK
  PROVE  /\ Tree \in Texts /\ head \in DOMAIN commits /\ DOMAIN commits = 1..Len(commits)
         /\ \A i \in 1..Len(commits) : commits[i].tree \in Texts
         /\ Len(commits) \in Nat
<1>1. /\ head \in 1..Len(commits) /\ DOMAIN commits = 1..Len(commits) /\ Len(commits) \in Nat
      /\ \A i \in 1..Len(commits) : commits[i] \in CommitTexts
  BY DEF HistoryOK
<1>2. \A i \in 1..Len(commits) : commits[i].tree \in Texts
  BY <1>1 DEF CommitTexts
<1>3. QED
  BY <1>1, <1>2 DEF Tree

(* What is put aside are texts of files.                                   *)
LEMMA StashTexts ==
  ASSUME StashesOK
  PROVE  /\ Len(stashes) \in Nat
         /\ \A i \in 1..Len(stashes) :
              stashes[i] \in StashEntries /\ DOMAIN stashes[i].text \subseteq GitFiles
         /\ \A i \in 1..Len(stashes) : \A f \in DOMAIN stashes[i].text :
              stashes[i].text[f] \in Int /\ Age(stashes[i].text[f]) \in Nat
<1>1. Len(stashes) \in Nat /\ \A i \in 1..Len(stashes) : stashes[i] \in StashEntries
  BY DEF StashesOK
<1>2. \A i \in 1..Len(stashes) : stashes[i].text \in SomeTexts
  BY <1>1 DEF StashEntries
<1>3. QED
  BY <1>1, <1>2, PartTexts, AgeIsNat

(* No commit is added.                                                     *)
LEMMA HistoryStays ==
  ASSUME HistoryOK, TextsOK, commits' = commits, head' \in 1..Len(commits),
         upstream'.there \in 1..Len(commits), upstream' \in [there : Nat, known : Nat],
         edits' \in Nat, edits <= edits'
  PROVE  HistoryOK'
<1>1. \A i \in 1..Len(commits) : \A f \in GitFiles : Age(commits[i].tree[f]) \in Nat
  BY AgeIsNat, TreeIsText DEF Texts
<1>2. \A i \in 1..Len(commits) : \A f \in GitFiles : Age(commits'[i].tree[f]) <= edits'
  BY <1>1 DEF HistoryOK, TextsOK
<1>3. QED
  BY <1>2 DEF HistoryOK, Placed, Before

(* A commit is added that comes after one or two others.                   *)
LEMMA HistoryGrows ==
  ASSUME HistoryOK, TextsOK, edits' \in Nat, edits <= edits',
         NEW tree \in Texts, \A f \in GitFiles : Age(tree[f]) <= edits',
         NEW a \in 1..Len(commits), NEW b \in 1..Len(commits),
         Reached(tree, Before(a) \cup Before(b)),
         head' \in 1..(Len(commits) + 1), upstream'.there \in 1..(Len(commits) + 1),
         upstream' \in [there : Nat, known : Nat]
  PROVE  /\ HistoryOK'
         /\ Len(commits') = Len(commits) + 1
         /\ \A i \in 1..Len(commits) : commits'[i] = commits[i]
         /\ commits'[Len(commits) + 1].tree = tree
         /\ commits'[Len(commits) + 1].before = Before(a) \cup Before(b) \cup {Len(commits) + 1}
<1>1. PICK n \in Nat : n = Len(commits) + 1
  BY TreeIsText
<1> DEFINE new == [tree |-> tree, before |-> Before(a) \cup Before(b) \cup {n}]
<1>2. /\ commits \in Seq(CommitTexts) /\ Len(commits) \in Nat /\ n = Len(commits) + 1
      /\ \A i \in 1..Len(commits) : Placed(i) /\ commits[i].tree \in Texts
  BY <1>1, TreeIsText DEF HistoryOK
<1>3. new \in CommitTexts
  <2>1. Before(a) \subseteq Nat /\ Before(b) \subseteq Nat
    BY <1>2 DEF Placed
  <2>2. QED
    BY <1>2, <2>1 DEF CommitTexts
<1>4. commits' = Append(commits, new)
  BY <1>1 DEF Reached
<1> new.tree = tree /\ new.before = Before(a) \cup Before(b) \cup {n}
  OBVIOUS
<1> HIDE DEF new
<1>5. /\ commits' \in Seq(CommitTexts) /\ Len(commits') = n
      /\ \A i \in 1..Len(commits) : commits'[i] = commits[i]
      /\ commits'[n] = new
  BY <1>2, <1>3, <1>4
<1>6. /\ \A i \in 1..Len(commits) : Before(i)' = Before(i)
      /\ Before(n)' = Before(a) \cup Before(b) \cup {n}
  BY <1>5 DEF Before
<1>7. \A i \in 1..Len(commits) : Placed(i)'
  <2> SUFFICES ASSUME NEW i \in 1..Len(commits) PROVE Placed(i)'
    OBVIOUS
  <2>1. Placed(i) /\ Before(i)' = Before(i) /\ \A j \in Before(i) : j \in 1..Len(commits)
    BY <1>2, <1>6 DEF Placed
  <2>2. \A j \in Before(i) : Before(j)' = Before(j)
    BY <1>6, <2>1
  <2>3. QED
    BY <2>1, <2>2 DEF Placed
<1>8. Placed(n)'
  <2>1. /\ Before(a) \subseteq 1..a /\ a \in Before(a) /\ Before(b) \subseteq 1..b /\ b \in Before(b)
        /\ \A j \in Before(a) : Before(j) \subseteq Before(a)
        /\ \A j \in Before(b) : Before(j) \subseteq Before(b)
    BY <1>2 DEF Placed
  <2>2. \A j \in Before(a) \cup Before(b) : Before(j)' = Before(j) /\ j \in 1..Len(commits)
    BY <1>2, <1>6, <2>1
  <2>3. Before(n)' \subseteq 1..n /\ n \in Before(n)'
    BY <1>2, <1>6, <2>2
  <2>4. \A j \in Before(n)' : Before(j)' \subseteq Before(n)'
    BY <1>6, <2>1, <2>2
  <2>5. \E j \in Before(n)' \ {n} : \A k \in Before(n)' \ {n} : k <= j
    <3> DEFINE last == IF a <= b THEN b ELSE a
    <3>1. last \in Before(n)' /\ last # n /\ last \in Nat
      BY <1>2, <1>6, <2>1
    <3>2. \A k \in Before(n)' \ {n} : k <= last
      BY <1>2, <1>6, <2>1, <2>2
    <3>3. QED
      BY <3>1, <3>2
  <2>6. QED
    BY <2>3, <2>4, <2>5 DEF Placed
<1>9. \A i \in 1..Len(commits') : Placed(i)'
  <2> SUFFICES ASSUME NEW i \in 1..Len(commits') PROVE Placed(i)'
    OBVIOUS
  <2>1. i \in 1..Len(commits) \/ i = n
    BY <1>2, <1>5
  <2>2. QED
    BY <1>7, <1>8, <2>1
<1>10. \A i \in 1..Len(commits') : \A f \in GitFiles : Age(commits'[i].tree[f]) <= edits'
  <2>1. \A i \in 1..Len(commits) : \A f \in GitFiles : Age(commits[i].tree[f]) \in Nat
    BY <1>2, AgeIsNat DEF Texts
  <2>2. \A i \in 1..Len(commits) : \A f \in GitFiles : Age(commits'[i].tree[f]) <= edits'
    <3> SUFFICES ASSUME NEW i \in 1..Len(commits), NEW f \in GitFiles
                 PROVE  Age(commits'[i].tree[f]) <= edits'
      OBVIOUS
    <3>1. commits'[i].tree[f] = commits[i].tree[f] /\ Age(commits[i].tree[f]) <= edits
      BY <1>5 DEF HistoryOK
    <3>2. Age(commits[i].tree[f]) \in Nat /\ edits \in Nat
      BY <2>1 DEF TextsOK
    <3>3. QED
      BY <3>1, <3>2
  <2>3. \A f \in GitFiles : Age(commits'[n].tree[f]) <= edits'
    BY <1>5
  <2>4. QED
    BY SMTT(30), <1>2, <1>5, <2>2, <2>3
<1>11. HistoryOK'
  BY <1>2, <1>5, <1>9, <1>10 DEF HistoryOK
<1>12. QED
  BY <1>2, <1>5, <1>11

\* Every commit stays.
CommitsStay ==
  /\ Len(commits) <= Len(commits') /\ DOMAIN commits' = 1..Len(commits')
  /\ \A i \in 1..Len(commits) : commits'[i] = commits[i]

(* A step that leaves the stash alone and writes only files of which there *)
(* is nothing to lose keeps the work.                                      *)
LEMMA WorkStays ==
  ASSUME TextsOK, HistoryOK, CommitsStay, stashes' = stashes, Len(commits') \in Nat,
         \A f \in GitFiles : worktree'[f] = worktree[f] \/ Clean(f)
  PROVE  KeepsWork
<1> SUFFICES ASSUME NEW f \in GitFiles, NEW text \in Uncommitted(f), ~(text <= 0),
                    text \notin Uncommitted(f)'
             PROVE  \E i \in DOMAIN commits' : commits'[i].tree[f] = text
  BY DEF KeepsWork
<1>1. text = worktree[f] /\ Clean(f)
  BY DEF Uncommitted
<1>2. worktree[f] \in Int /\ staged[f] \in Int /\ Tree[f] \in Int
  BY TreeIsText DEF TextsOK, Texts
<1>3. text = Tree[f]
  BY <1>1, <1>2, SameTexts DEF Clean, Same
<1>4. head \in 1..Len(commits) /\ Len(commits) \in Nat
  BY TreeIsText DEF HistoryOK
<1>5. head \in DOMAIN commits' /\ commits'[head].tree[f] = text
  BY <1>3, <1>4 DEF CommitsStay, Tree
<1>6. QED
  BY <1>5

(* A step that leaves the remote's commit alone loses none of the          *)
(* remote's.                                                               *)
LEMMA RemoteStays ==
  ASSUME HistoryOK, CommitsStay, upstream'.there = upstream.there
  PROVE  KeepsUnfetched
BY DEF HistoryOK, CommitsStay, KeepsUnfetched, Before

(* Files that move from one commit's texts to another's.                   *)
LEMMA FilesMove ==
  ASSUME TextsOK, HistoryOK, StagedIsOlder, NEW tree \in Texts, Moved(tree), edits' = edits,
         \A f \in GitFiles : Age(tree[f]) <= edits,
         HistoryOK', \A f \in GitFiles : Same(tree[f], Tree'[f])
  PROVE  /\ TextsOK' /\ StagedIsOlder'
         /\ \A f \in GitFiles : worktree'[f] = worktree[f] \/ Clean(f)
<1> DEFINE new == {f \in GitFiles : ~Same(tree[f], Tree[f])}
<1>1. /\ \A f \in new : Clean(f)
      /\ worktree' = [f \in GitFiles |-> IF f \in new THEN tree[f] ELSE worktree[f]]
      /\ staged' = [f \in GitFiles |-> IF f \in new THEN tree[f] ELSE staged[f]]
  BY DEF Moved
<1>2. /\ Tree \in Texts /\ Tree' \in Texts
      /\ \A f \in GitFiles : /\ tree[f] \in Int /\ worktree[f] \in Int /\ staged[f] \in Int
                             /\ Tree[f] \in Int /\ Tree'[f] \in Int
  <2>1. Tree \in Texts
    BY TreeIsText
  <2>2. Tree' \in Texts
    <3>1. /\ head' \in 1..Len(commits')
          /\ commits' \in Seq(CommitTexts)
      BY DEF HistoryOK
    <3>2. commits'[head'] \in CommitTexts
      BY <3>1
    <3>3. QED
      BY <3>2 DEF Tree, CommitTexts
  <2>3. QED
    BY <2>1, <2>2 DEF TextsOK, Texts
<1>3. TextsOK'
  <2>1. worktree' \in Texts /\ staged' \in Texts
    BY <1>1, <1>2 DEF Texts
  <2>2. \A f \in GitFiles : Age(worktree'[f]) <= edits /\ Age(staged'[f]) <= edits
    BY <1>1 DEF TextsOK
  <2>3. QED
    BY <2>1, <2>2 DEF TextsOK
<1>4. StagedIsOlder'
  <2> SUFFICES ASSUME NEW f \in GitFiles, ~Same(staged'[f], Tree'[f])
               PROVE  Age(staged'[f]) <= Age(worktree'[f])
    BY DEF StagedIsOlder
  <2>1. CASE f \in new
    <3>1. staged'[f] = tree[f] /\ worktree'[f] = tree[f]
      BY <1>1, <2>1
    <3>2. QED
      BY <1>2, <3>1, AgeIsNat
  <2>2. CASE f \notin new
    <3>1. staged'[f] = staged[f] /\ worktree'[f] = worktree[f] /\ Same(tree[f], Tree[f])
      BY <1>1, <2>2
    <3>2. ~Same(staged[f], Tree[f])
      BY <1>2, <3>1, SameTexts
    <3>3. QED
      BY <3>1, <3>2 DEF StagedIsOlder
  <2>3. QED
    BY <2>1, <2>2
<1>5. QED
  BY <1>1, <1>3, <1>4

(* A command that ends has shown nothing any more.                         *)
LEMMA NobodyKept ==
  ASSUME gitCommand' = Nobody PROVE ShownIsOlder'
BY NobodyShows DEF ShownIsOlder

(* Who does not commit need not have shown anything.                       *)
LEMMA NothingShown ==
  ASSUME gitCommand.at # "commit" \/ head' = head PROVE CommitsShown
BY DEF CommitsShown

(* A step that leaves the files, the commits and the stash alone.          *)
LEMMA FilesAlone ==
  ASSUME GitInv, UNCHANGED <<worktree, staged, commits, head, stashes, edits>>,
         upstream' = upstream
  PROVE  TextsOK' /\ HistoryOK' /\ StashesOK' /\ StagedIsOlder' /\ KeepsWork /\ KeepsUnfetched
<1>1. TextsOK /\ HistoryOK /\ StashesOK /\ StagedIsOlder
  BY DEF GitInv
<1>2. TextsOK' /\ HistoryOK' /\ StashesOK' /\ StagedIsOlder'
  BY <1>1 DEF TextsOK, HistoryOK, StashesOK, StagedIsOlder, Tree, Placed, Before
<1>3. CommitsStay /\ Len(commits') \in Nat
  BY <1>1, TreeIsText DEF CommitsStay
<1>4. QED
  BY <1>1, <1>2, <1>3, WorkStays, RemoteStays

(* The user writes a file.                                                 *)
LEMMA EditKept == GitInv /\ Edit => GitInv' /\ Keeps
<1> SUFFICES ASSUME GitInv, Edit PROVE GitInv' /\ Keeps
  OBVIOUS
<1>1. TextsOK /\ HistoryOK /\ StashesOK /\ StagedIsOlder /\ ShownIsOlder
  BY DEF GitInv
<1>2. /\ edits' = edits + 1 /\ edits \in Nat
      /\ UNCHANGED <<staged, commits, head, upstream, stashes, gitCommand>>
  BY <1>1 DEF Edit, TextsOK
<1>3. PICK f \in GitFiles, text \in Int :
        worktree' = [worktree EXCEPT ![f] = text] /\ Age(text) = edits + 1
  <2>1. PICK f \in GitFiles :
          \/ worktree' = [worktree EXCEPT ![f] = edits + 1]
          \/ worktree' = [worktree EXCEPT ![f] = -(edits + 1)]
    BY DEF Edit
  <2>2. /\ edits + 1 \in Int /\ Age(edits + 1) = edits + 1
        /\ -(edits + 1) \in Int /\ Age(-(edits + 1)) = edits + 1
    BY <1>2 DEF Age
  <2>3. QED
    BY <2>1, <2>2
<1>4. /\ worktree' \in Texts
      /\ worktree'[f] = text /\ \A g \in GitFiles : g # f => worktree'[g] = worktree[g]
  BY <1>1, <1>3 DEF TextsOK, Texts
<1>5. \A g \in GitFiles : Age(worktree[g]) \in Nat /\ Age(staged[g]) \in Nat
  BY <1>1, AgeIsNat DEF TextsOK, Texts
<1>6. TextsOK'
  BY <1>1, <1>2, <1>3, <1>4, <1>5 DEF TextsOK
<1>7. StagedIsOlder'
  <2>1. Tree' = Tree
    BY <1>2 DEF Tree
  <2>2. QED
    BY <1>1, <1>2, <1>3, <1>4, <1>5, <2>1 DEF TextsOK, StagedIsOlder
<1>8. HistoryOK'
  BY <1>1, <1>2, HistoryStays DEF HistoryOK
<1>9. StashesOK'
  <2>1. \A i \in 1..Len(stashes) : \A g \in DOMAIN stashes[i].text : Age(stashes[i].text[g]) \in Nat
    BY <1>1, StashTexts
  <2>2. QED
    BY <1>1, <1>2, <2>1 DEF StashesOK
<1>10. ShownIsOlder'
  <2>1. \A g \in DOMAIN gitCommand.saw : g \in GitFiles /\ Age(gitCommand.saw[g]) \in Nat
    BY <1>1, PartTexts, AgeIsNat DEF ShownIsOlder, GitCommands
  <2>2. \A g \in DOMAIN gitCommand.saw : Age(gitCommand.saw[g]) <= Age(worktree'[g])
    BY <1>1, <1>2, <1>3, <1>4, <1>5, <2>1 DEF ShownIsOlder, TextsOK
  <2>3. QED
    BY <1>1, <1>2, <2>2 DEF ShownIsOlder
<1>11. KeepsWork
  BY <1>2 DEF KeepsWork
<1>12. KeepsUnfetched
  BY <1>1, <1>2, RemoteStays, TreeIsText DEF CommitsStay
<1>13. QED
  BY <1>2, <1>6, <1>7, <1>8, <1>9, <1>10, <1>11, <1>12, NothingShown DEF GitInv, Keeps

(* The user stages a file.                                                 *)
LEMMA StageFileKept == GitInv /\ StageFile => GitInv' /\ Keeps
<1> SUFFICES ASSUME GitInv, StageFile PROVE GitInv' /\ Keeps
  OBVIOUS
<1>1. TextsOK /\ HistoryOK /\ StashesOK /\ StagedIsOlder /\ ShownIsOlder
  BY DEF GitInv
<1>2. UNCHANGED <<worktree, commits, head, upstream, stashes, edits, gitCommand>>
  BY DEF StageFile
<1>3. PICK f \in GitFiles : staged' = [staged EXCEPT ![f] = worktree[f]]
  BY DEF StageFile
<1>4. /\ staged' \in Texts
      /\ staged'[f] = worktree[f] /\ \A g \in GitFiles : g # f => staged'[g] = staged[g]
  BY <1>1, <1>3 DEF TextsOK, Texts
<1>5. \A g \in GitFiles : Age(worktree[g]) \in Nat
  BY <1>1, AgeIsNat DEF TextsOK, Texts
<1>6. TextsOK'
  BY <1>1, <1>2, <1>4 DEF TextsOK
<1>7. StagedIsOlder'
  <2>1. Tree' = Tree
    BY <1>2 DEF Tree
  <2>2. QED
    BY <1>1, <1>2, <1>4, <1>5, <2>1 DEF StagedIsOlder
<1>8. HistoryOK'
  BY <1>1, <1>2, HistoryStays DEF HistoryOK, TextsOK
<1>9. StashesOK'
  BY <1>1, <1>2 DEF StashesOK
<1>10. ShownIsOlder'
  <2>1. \A g \in DOMAIN gitCommand.saw : g \in GitFiles
    BY <1>1, PartTexts DEF ShownIsOlder, GitCommands
  <2>2. QED
    BY <1>1, <1>2, <1>4, <2>1 DEF ShownIsOlder
<1>11. CommitsStay /\ Len(commits') \in Nat
  BY <1>1, <1>2, TreeIsText DEF CommitsStay
<1>12. KeepsWork /\ KeepsUnfetched
  BY <1>1, <1>2, <1>11, WorkStays, RemoteStays
<1>13. QED
  BY <1>2, <1>6, <1>7, <1>8, <1>9, <1>10, <1>12, NothingShown DEF GitInv, Keeps

(* Others push a commit.                                                   *)
LEMMA OthersPushKept == GitInv /\ OthersPush => GitInv' /\ Keeps
<1> SUFFICES ASSUME GitInv, OthersPush PROVE GitInv' /\ Keeps
  OBVIOUS
<1>1. TextsOK /\ HistoryOK /\ StashesOK /\ StagedIsOlder /\ ShownIsOlder
  BY DEF GitInv
<1>2. /\ edits' = edits + 1 /\ edits \in Nat
      /\ UNCHANGED <<worktree, staged, head, stashes, gitCommand>>
      /\ upstream' = [upstream EXCEPT !.there = Len(commits')]
  BY <1>1 DEF OthersPush, TextsOK
<1>3. PICK there \in 1..Len(commits) : there = upstream.there
  BY <1>1 DEF HistoryOK
<1>4. PICK f \in GitFiles :
        Reached([commits[there].tree EXCEPT ![f] = edits + 1], Before(there) \cup Before(there))
  <2>1. Before(there) \cup Before(there) = Before(there)
    OBVIOUS
  <2>2. QED
    BY <1>3, <2>1 DEF OthersPush
<1> DEFINE tree == [commits[there].tree EXCEPT ![f] = edits + 1]
<1>5. there \in 1..Len(commits) /\ Len(commits) \in Nat /\ commits[there].tree \in Texts
  BY <1>1, TreeIsText DEF HistoryOK
<1>6. /\ tree \in Texts /\ tree[f] = edits + 1
      /\ \A g \in GitFiles : g # f => tree[g] = commits[there].tree[g]
  BY <1>2, <1>5 DEF Texts
<1>7. \A g \in GitFiles : Age(tree[g]) <= edits'
  <2>1. \A g \in GitFiles : Age(commits[there].tree[g]) \in Nat /\ Age(commits[there].tree[g]) <= edits
    BY <1>1, <1>5, AgeIsNat DEF Texts, HistoryOK
  <2>2. Age(edits + 1) = edits + 1
    BY <1>2 DEF Age
  <2>3. QED
    BY <1>2, <1>6, <2>1, <2>2
<1>8. Len(commits') = Len(commits) + 1
  <2>1. commits \in Seq(CommitTexts)
    BY <1>1 DEF HistoryOK
  <2>2. QED
    BY <1>4, <2>1 DEF Reached
<1>9. /\ upstream' \in [there : Nat, known : Nat] /\ upstream'.there = Len(commits) + 1
      /\ head' \in 1..(Len(commits) + 1)
  BY <1>1, <1>2, <1>5, <1>8 DEF HistoryOK
<1>10. Reached(tree, Before(there) \cup Before(there))
  BY <1>4
<1> HIDE DEF tree
<1>11. /\ HistoryOK'
       /\ \A i \in 1..Len(commits) : commits'[i] = commits[i]
       /\ commits'[Len(commits) + 1].before = Before(there) \cup Before(there) \cup {Len(commits) + 1}
  BY <1>1, <1>2, <1>5, <1>6, <1>7, <1>9, <1>10, HistoryGrows
<1>12. \A g \in GitFiles : Age(worktree[g]) \in Nat /\ Age(staged[g]) \in Nat
  BY <1>1, AgeIsNat DEF TextsOK, Texts
<1>13. TextsOK'
  BY <1>1, <1>2, <1>12 DEF TextsOK
<1>14. StagedIsOlder'
  <2>1. Tree' = Tree
    BY <1>1, <1>2, <1>11, TreeIsText DEF Tree
  <2>2. QED
    BY <1>1, <1>2, <2>1 DEF StagedIsOlder
<1>15. StashesOK'
  <2>1. \A i \in 1..Len(stashes) : \A g \in DOMAIN stashes[i].text : Age(stashes[i].text[g]) \in Nat
    BY <1>1, StashTexts
  <2>2. QED
    BY <1>1, <1>2, <2>1 DEF StashesOK
<1>16. ShownIsOlder'
  BY <1>1, <1>2 DEF ShownIsOlder
<1>17. KeepsWork
  BY <1>2 DEF KeepsWork
<1>18. KeepsUnfetched
  <2>1. Before(upstream.there)' = commits'[Len(commits) + 1].before
    BY <1>9 DEF Before
  <2>2. QED
    BY <1>3, <1>11, <2>1 DEF KeepsUnfetched
<1>19. QED
  BY <1>2, <1>11, <1>13, <1>14, <1>15, <1>16, <1>17, <1>18, NothingShown DEF GitInv, Keeps

(* A command that reads the files, waits, is answered or gives up.         *)
LEMMA WaitKept ==
  GitInv /\ (RemoveLock \/ GitCommit \/ AiCommit \/ ModelAnswers \/ CancelCommit \/ NewBranch)
    => GitInv' /\ Keeps
<1> SUFFICES ASSUME GitInv, RemoveLock \/ GitCommit \/ AiCommit \/ ModelAnswers \/ CancelCommit \/ NewBranch
             PROVE  GitInv' /\ Keeps
  OBVIOUS
<1>1. TextsOK /\ HistoryOK /\ StashesOK /\ StagedIsOlder /\ ShownIsOlder
  BY DEF GitInv
<1>2. UNCHANGED <<worktree, staged, commits, head, stashes, edits>> /\ upstream' = upstream
  BY DEF RemoveLock, GitCommit, AiCommit, ModelAnswers, CancelCommit, NewBranch, repo
<1>3. TextsOK' /\ HistoryOK' /\ StashesOK' /\ StagedIsOlder' /\ KeepsWork /\ KeepsUnfetched
  BY <1>2, FilesAlone
<1>4. CommitsShown
  BY <1>2, NothingShown
<1>5. \A f \in GitFiles : Age(worktree[f]) \in Nat
  BY <1>1, AgeIsNat DEF TextsOK, Texts
<1>6. ASSUME NEW name \in {"commit", "ai-commit"}, NEW place \in {"confirm", "model"},
             NEW seen \in SUBSET GitFiles, Waits(name, place, seen)
      PROVE  ShownIsOlder'
  <2>1. [f \in seen |-> worktree[f]] \in SomeTexts
    BY <1>1, PartTexts DEF TextsOK
  <2>2. /\ gitCommand' \in GitCommands /\ gitCommand'.at = place
        /\ gitCommand'.saw = [f \in seen |-> worktree[f]]
    BY <1>6, <2>1 DEF Waits, GitCommands
  <2>3. \A f \in seen : gitCommand'.saw[f] = worktree[f] /\ Age(worktree[f]) \in Nat
    BY <1>5, <2>2
  <2>4. DOMAIN gitCommand'.saw = seen
    BY <2>2
  <2>5. QED
    BY <1>2, <2>2, <2>3, <2>4 DEF ShownIsOlder
<1>7. CASE RemoveLock \/ NewBranch
  <2>1. gitCommand' = gitCommand
    BY <1>7 DEF RemoveLock, NewBranch
  <2>2. ShownIsOlder'
    BY <1>1, <1>2, <2>1 DEF ShownIsOlder
  <2>3. QED
    BY <1>3, <1>4, <2>2 DEF GitInv, Keeps
<1>8. CASE GitCommit
  <2>1. {} \subseteq GitFiles /\ StagedFiles \cup Unstaged \subseteq GitFiles
    BY DEF StagedFiles, Unstaged
  <2>2. \E seen \in SUBSET GitFiles : Waits("commit", "confirm", seen)
    BY <1>8, <2>1 DEF GitCommit
  <2>3. ShownIsOlder'
    BY <1>6, <2>2
  <2>4. QED
    BY <1>3, <1>4, <2>3 DEF GitInv, Keeps
<1>9. CASE AiCommit
  <2>1. CASE StagedFiles # {}
    <3>1. gitCommand' = [name |-> "ai-commit", at |-> "model", saw |-> [f \in StagedFiles |-> staged[f]]]
      BY <1>9, <2>1 DEF AiCommit
    <3>2. [f \in StagedFiles |-> staged[f]] \in SomeTexts
      BY <1>1, PartTexts DEF TextsOK, StagedFiles
    <3>3. /\ gitCommand' \in GitCommands /\ gitCommand'.at = "model"
          /\ gitCommand'.saw = [f \in StagedFiles |-> staged[f]]
      BY <3>1, <3>2 DEF GitCommands
    <3>4. \A f \in StagedFiles : gitCommand'.saw[f] = staged[f] /\ Age(staged[f]) <= Age(worktree[f])
      BY <1>1, <3>3 DEF StagedIsOlder, StagedFiles
    <3>5. DOMAIN gitCommand'.saw = StagedFiles
      BY <3>3
    <3>6. ShownIsOlder'
      BY <1>2, <3>3, <3>4, <3>5 DEF ShownIsOlder
    <3>7. QED
      BY <1>3, <1>4, <3>6 DEF GitInv, Keeps
  <2>2. CASE ~(StagedFiles # {})
    <3>1. Unstaged \subseteq GitFiles /\ Waits("ai-commit", "model", Unstaged)
      BY <1>9, <2>2 DEF AiCommit, Unstaged
    <3>2. ShownIsOlder'
      BY <1>6, <3>1
    <3>3. QED
      BY <1>3, <1>4, <3>2 DEF GitInv, Keeps
  <2>3. QED
    BY <2>1, <2>2
<1>10. CASE ModelAnswers \/ CancelCommit
  <2>1. CASE gitCommand' = Nobody
    BY <1>3, <1>4, <2>1, NobodyKept DEF GitInv, Keeps
  <2>2. CASE gitCommand' # Nobody
    <3>1. gitCommand' = [gitCommand EXCEPT !.at = "confirm"]
      BY <1>10, <2>2 DEF ModelAnswers, CancelCommit
    <3>2. gitCommand' \in GitCommands /\ gitCommand'.saw = gitCommand.saw /\ gitCommand'.at = "confirm"
      BY <1>1, <3>1 DEF ShownIsOlder, GitCommands
    <3>3. ShownIsOlder'
      BY <1>1, <1>2, <3>2 DEF ShownIsOlder
    <3>4. QED
      BY <1>3, <1>4, <3>3 DEF GitInv, Keeps
  <2>3. QED
    BY <2>1, <2>2
<1>11. QED
  BY <1>7, <1>8, <1>9, <1>10

(* git add -A.                                                             *)
LEMMA AddAllKept == GitInv /\ AddAll => GitInv' /\ Keeps
<1> SUFFICES ASSUME GitInv, AddAll PROVE GitInv' /\ Keeps
  OBVIOUS
<1>1. TextsOK /\ HistoryOK /\ StashesOK /\ StagedIsOlder /\ ShownIsOlder
  BY DEF GitInv
<1>2. /\ UNCHANGED <<worktree, commits, head, upstream, stashes, edits>>
      /\ gitCommand.at = "confirm"
      /\ \/ staged' = worktree /\ gitCommand' \in {Nobody, [gitCommand EXCEPT !.at = "commit"]}
         \/ gitCommand' = Nobody /\ staged' = staged
  BY DEF AddAll, Called
<1>3. \A f \in GitFiles : Age(worktree[f]) \in Nat
  BY <1>1, AgeIsNat DEF TextsOK, Texts
<1>4. TextsOK' /\ StashesOK'
  BY <1>1, <1>2 DEF TextsOK, StashesOK
<1>5. HistoryOK'
  BY <1>1, <1>2, HistoryStays DEF HistoryOK, TextsOK
<1>6. StagedIsOlder'
  <2>1. Tree' = Tree
    BY <1>2 DEF Tree
  <2>2. QED
    BY <1>1, <1>2, <1>3, <2>1 DEF StagedIsOlder
<1>7. ShownIsOlder'
  <2>1. CASE gitCommand' = Nobody
    BY <2>1, NobodyKept
  <2>2. CASE gitCommand' # Nobody
    <3>1. staged' = worktree /\ gitCommand' = [gitCommand EXCEPT !.at = "commit"]
      BY <1>2, <2>2
    <3>2. gitCommand' \in GitCommands /\ gitCommand'.saw = gitCommand.saw
      BY <1>1, <3>1 DEF ShownIsOlder, GitCommands
    <3>3. QED
      BY <1>1, <1>2, <3>1, <3>2 DEF ShownIsOlder
  <2>3. QED
    BY <2>1, <2>2
<1>8. CommitsStay /\ Len(commits') \in Nat
  BY <1>1, <1>2, TreeIsText DEF CommitsStay
<1>9. KeepsWork /\ KeepsUnfetched
  BY <1>1, <1>2, <1>8, WorkStays, RemoteStays
<1>10. QED
  BY <1>2, <1>4, <1>5, <1>6, <1>7, <1>9, NothingShown DEF GitInv, Keeps

(* git commit, for a command that has asked or for the agent.              *)
LEMMA CommitKept == GitInv /\ (Commit \/ MaybeCommit) => GitInv' /\ Keeps
<1> SUFFICES ASSUME GitInv, Commit \/ MaybeCommit PROVE GitInv' /\ Keeps
  OBVIOUS
<1>1. TextsOK /\ HistoryOK /\ StashesOK /\ StagedIsOlder /\ ShownIsOlder
  BY DEF GitInv
<1>2. /\ UNCHANGED <<worktree, staged, upstream, stashes, edits>>
      /\ gitCommand' = Nobody
      /\ \/ Reached(staged, Before(head)) /\ head' = Len(commits')
         \/ UNCHANGED <<commits, head>>
  BY DEF Commit, MaybeCommit, Committed, Called, Ready
<1>3. TextsOK' /\ StashesOK' /\ ShownIsOlder'
  BY <1>1, <1>2, NobodyKept DEF TextsOK, StashesOK
<1>4. CASE UNCHANGED <<commits, head>>
  <2>1. HistoryOK'
    BY <1>1, <1>2, <1>4, HistoryStays DEF HistoryOK, TextsOK
  <2>2. StagedIsOlder'
    BY <1>1, <1>2, <1>4 DEF StagedIsOlder, Tree
  <2>3. CommitsStay /\ Len(commits') \in Nat
    BY <1>1, <1>4, TreeIsText DEF CommitsStay
  <2>4. KeepsWork /\ KeepsUnfetched
    BY <1>1, <1>2, <2>3, WorkStays, RemoteStays
  <2>5. QED
    BY <1>3, <1>4, <2>1, <2>2, <2>4, NothingShown DEF GitInv, Keeps
<1>5. CASE Reached(staged, Before(head)) /\ head' = Len(commits')
  <2>1. /\ commits \in Seq(CommitTexts) /\ Len(commits) \in Nat /\ Len(commits') = Len(commits) + 1
        /\ head \in 1..Len(commits) /\ head' \in 1..(Len(commits) + 1)
        /\ upstream'.there \in 1..(Len(commits) + 1) /\ upstream' \in [there : Nat, known : Nat]
    BY <1>1, <1>2, <1>5 DEF HistoryOK, Reached
  <2>2. Reached(staged, Before(head) \cup Before(head))
    <3>1. Before(head) \cup Before(head) = Before(head)
      OBVIOUS
    <3>2. QED
      BY <1>5, <3>1
  <2>3. /\ staged \in Texts /\ \A f \in GitFiles : Age(staged[f]) <= edits'
        /\ edits' \in Nat /\ edits <= edits'
    BY <1>1, <1>2 DEF TextsOK
  <2>4. /\ HistoryOK'
        /\ \A i \in 1..Len(commits) : commits'[i] = commits[i]
        /\ commits'[Len(commits) + 1].tree = staged
    BY <1>1, <2>1, <2>2, <2>3, HistoryGrows
  <2>5. Tree' = staged'
    BY <1>2, <1>5, <2>1, <2>4 DEF Tree
  <2>6. StagedIsOlder'
    <3>1. \A f \in GitFiles : staged'[f] \in Int
      BY <1>1, <1>2 DEF TextsOK, Texts
    <3>2. QED
      BY <2>5, <3>1, SameTexts DEF StagedIsOlder
  <2>7. CommitsStay /\ Len(commits') \in Nat
    BY <2>1, <2>4 DEF CommitsStay, Reached, HistoryOK
  <2>8. KeepsWork /\ KeepsUnfetched
    BY <1>1, <1>2, <2>7, WorkStays, RemoteStays
  <2>9. CommitsShown
    <3> SUFFICES ASSUME gitCommand.at = "commit", NEW f \in DOMAIN gitCommand.saw
                 PROVE  Age(commits'[head'].tree[f]) >= Age(gitCommand.saw[f])
      BY DEF CommitsShown
    <3>1. f \in GitFiles /\ Age(gitCommand.saw[f]) <= Age(staged[f]) /\ gitCommand.saw[f] \in Int
      BY <1>1, PartTexts DEF ShownIsOlder, GitCommands
    <3>2. commits'[head'].tree[f] = staged[f]
      BY <1>2, <2>5 DEF Tree
    <3>3. Age(staged[f]) \in Nat /\ Age(gitCommand.saw[f]) \in Nat
      BY <1>1, <3>1, AgeIsNat DEF TextsOK, Texts
    <3>4. QED
      BY <3>1, <3>2, <3>3
  <2>10. QED
    BY <1>3, <2>4, <2>6, <2>8, <2>9 DEF GitInv, Keeps
<1>6. QED
  BY <1>2, <1>4, <1>5

(* git push.                                                               *)
LEMMA PushKept == GitInv /\ Push => GitInv' /\ Keeps
<1> SUFFICES ASSUME GitInv, Push PROVE GitInv' /\ Keeps
  OBVIOUS
<1>1. TextsOK /\ HistoryOK /\ StashesOK /\ StagedIsOlder /\ ShownIsOlder
  BY DEF GitInv
<1>2. /\ UNCHANGED <<worktree, staged, commits, head, stashes, edits, gitCommand>>
      /\ upstream.there = upstream.known \/ upstream.there \in Before(head)
      /\ \E known \in {head, upstream.known} : upstream' = [there |-> head, known |-> known]
  BY DEF Push, PushAllowed
<1>3. TextsOK' /\ StashesOK' /\ ShownIsOlder'
  BY <1>1, <1>2 DEF TextsOK, StashesOK, ShownIsOlder
<1>4. StagedIsOlder'
  BY <1>1, <1>2 DEF StagedIsOlder, Tree
<1>5. /\ head \in 1..Len(commits) /\ upstream' \in [there : Nat, known : Nat] /\ upstream'.there = head
  BY <1>1, <1>2 DEF HistoryOK
<1>6. HistoryOK'
  BY <1>1, <1>2, <1>5, HistoryStays DEF TextsOK
<1>7. CommitsStay /\ Len(commits') \in Nat
  BY <1>1, <1>2, TreeIsText DEF CommitsStay
<1>8. KeepsWork
  BY <1>1, <1>2, <1>7, WorkStays
<1>9. KeepsUnfetched
  <2>1. Before(upstream.there)' = Before(head)
    BY <1>2, <1>5 DEF Before
  <2>2. upstream.there \in Before(head) => Before(upstream.there) \subseteq Before(head)
    BY <1>1, <1>5 DEF HistoryOK, Placed
  <2>3. QED
    BY <1>2, <2>1, <2>2 DEF KeepsUnfetched
<1>10. QED
  BY <1>2, <1>3, <1>4, <1>6, <1>8, <1>9, NothingShown DEF GitInv, Keeps

(* git reset of a file.                                                    *)
LEMMA GitResetKept == GitInv /\ GitReset => GitInv' /\ Keeps
<1> SUFFICES ASSUME GitInv, GitReset PROVE GitInv' /\ Keeps
  OBVIOUS
<1>1. TextsOK /\ HistoryOK /\ StashesOK /\ StagedIsOlder /\ ShownIsOlder
  BY DEF GitInv
<1>2. /\ UNCHANGED <<worktree, commits, head, upstream, stashes, edits>>
      /\ gitCommand = Nobody /\ gitCommand' = Nobody
      /\ \/ \E f \in GitFiles : staged' = [staged EXCEPT ![f] = Tree[f]]
         \/ staged' = staged
  BY DEF GitReset, Called, ResetFile, Ready
<1>3. \A g \in GitFiles : staged'[g] \in {staged[g], Tree[g]}
  BY <1>1, <1>2 DEF TextsOK, Texts
<1>4. Tree \in Texts /\ Tree' = Tree /\ \A g \in GitFiles : Age(Tree[g]) <= edits
  BY <1>1, <1>2, TreeIsText DEF HistoryOK, Tree
<1>5. staged' \in Texts
  BY <1>1, <1>2, <1>4 DEF TextsOK, Texts
<1>6. TextsOK'
  BY <1>1, <1>2, <1>3, <1>4, <1>5 DEF TextsOK
<1>7. StagedIsOlder'
  <2>1. \A g \in GitFiles : Same(Tree[g], Tree[g])
    BY DEF Same
  <2>2. QED
    BY <1>1, <1>2, <1>3, <1>4, <2>1 DEF StagedIsOlder
<1>8. StashesOK' /\ ShownIsOlder'
  BY <1>1, <1>2, NobodyKept DEF StashesOK
<1>9. HistoryOK'
  BY <1>1, <1>2, HistoryStays DEF HistoryOK, TextsOK
<1>10. CommitsStay /\ Len(commits') \in Nat
  BY <1>1, <1>2, TreeIsText DEF CommitsStay
<1>11. KeepsWork /\ KeepsUnfetched
  BY <1>1, <1>2, <1>10, WorkStays, RemoteStays
<1>12. QED
  BY <1>2, <1>6, <1>7, <1>8, <1>9, <1>11, NothingShown DEF GitInv, Keeps

(* What git merges is made of the texts of the two sides.                  *)
LEMMA MergedTexts ==
  ASSUME NEW base, NEW there \in Texts, Tree \in Texts
  PROVE  /\ Merged(base, there).tree \in Texts
         /\ \A f \in GitFiles :
              Merged(base, there).tree[f] = IF Same(there[f], base[f]) THEN Tree[f] ELSE there[f]
<1> DEFINE theirs == {f \in GitFiles : ~Same(there[f], base[f])}
<1>1. Merged(base, there).tree = [f \in GitFiles |-> IF f \in theirs THEN there[f] ELSE Tree[f]]
  BY DEF Merged
<1>2. QED
  BY <1>1 DEF Texts

(* A merge or a revert: the files move to the texts of the commit that is  *)
(* HEAD then, which may be a new one.                                      *)
LEMMA HeadMoves ==
  ASSUME GitInv, NEW tree \in Texts, Moved(tree), HistoryOK', CommitsStay, Len(commits') \in Nat,
         \A f \in GitFiles : Age(tree[f]) <= edits, \A f \in GitFiles : Same(tree[f], Tree'[f]),
         UNCHANGED <<stashes, edits>>, upstream'.there = upstream.there,
         gitCommand = Nobody, gitCommand' = Nobody
  PROVE  GitInv' /\ Keeps
<1>1. TextsOK /\ HistoryOK /\ StashesOK /\ StagedIsOlder
  BY DEF GitInv
<1>2. /\ TextsOK' /\ StagedIsOlder'
      /\ \A f \in GitFiles : worktree'[f] = worktree[f] \/ Clean(f)
  BY <1>1, FilesMove
<1>3. StashesOK' /\ ShownIsOlder'
  BY <1>1, NobodyKept DEF StashesOK
<1>4. KeepsWork /\ KeepsUnfetched
  BY <1>1, <1>2, WorkStays, RemoteStays
<1>5. CommitsShown
  BY NobodyShows, NothingShown
<1>6. QED
  BY <1>2, <1>3, <1>4, <1>5 DEF GitInv, Keeps

(* A call of git that is refused, or killed before it has done anything.   *)
LEMMA RefusedKept ==
  ASSUME GitInv, UNCHANGED <<worktree, staged, commits, head, stashes, edits>>,
         upstream'.there = upstream.there, upstream' \in [there : Nat, known : Nat],
         gitCommand = Nobody, gitCommand' = Nobody
  PROVE  GitInv' /\ Keeps
<1>1. TextsOK /\ HistoryOK /\ StashesOK /\ StagedIsOlder
  BY DEF GitInv
<1>2. TextsOK' /\ StashesOK' /\ StagedIsOlder' /\ ShownIsOlder'
  BY <1>1, NobodyKept DEF TextsOK, StashesOK, StagedIsOlder, Tree
<1>3. HistoryOK'
  BY <1>1, HistoryStays DEF HistoryOK, TextsOK
<1>4. CommitsStay /\ Len(commits') \in Nat
  BY <1>1, TreeIsText DEF CommitsStay
<1>5. KeepsWork /\ KeepsUnfetched
  BY <1>1, <1>4, WorkStays, RemoteStays
<1>6. QED
  BY <1>2, <1>3, <1>5, NothingShown DEF GitInv, Keeps

(* git pull.                                                               *)
LEMMA PullKept == GitInv /\ Pull => GitInv' /\ Keeps
<1> SUFFICES ASSUME GitInv, Pull PROVE GitInv' /\ Keeps
  OBVIOUS
<1>1. TextsOK /\ HistoryOK
  BY DEF GitInv
<1> DEFINE there == upstream.there
           shared == CHOOSE i \in Before(head) \cap Before(there) :
                       \A j \in Before(head) \cap Before(there) : j <= i
           base == commits[shared].tree
           tree == Merged(base, commits[there].tree).tree
<1>2. /\ upstream' = [upstream EXCEPT !.known = there]
      /\ UNCHANGED <<stashes, edits>> /\ gitCommand = Nobody /\ gitCommand' = Nobody
      /\ \/ /\ Moved(tree)
            /\ \/ shared = head /\ head' = there /\ UNCHANGED commits
               \/ Reached(tree, Before(head) \cup Before(there)) /\ head' = Len(commits')
         \/ UNCHANGED <<worktree, staged, commits, head>>
  BY DEF Pull, Called, Ready
<1>3. there \in 1..Len(commits) /\ Len(commits) \in Nat /\ head \in 1..Len(commits)
  BY <1>1, TreeIsText DEF HistoryOK
<1>4. upstream' \in [there : Nat, known : Nat] /\ upstream'.there = there
  BY <1>1, <1>2 DEF HistoryOK
<1>5. commits[there].tree \in Texts /\ Tree \in Texts
  BY <1>1, <1>3, TreeIsText
<1>6. /\ tree \in Texts
      /\ \A f \in GitFiles :
           tree[f] = IF Same(commits[there].tree[f], base[f]) THEN Tree[f] ELSE commits[there].tree[f]
  <2> HIDE DEF base
  <2>1. QED
    BY <1>5, MergedTexts
<1>7. \A f \in GitFiles : Age(tree[f]) <= edits
  <2>1. \A f \in GitFiles : Age(Tree[f]) <= edits /\ Age(commits[there].tree[f]) <= edits
    BY <1>1, <1>3 DEF HistoryOK, Tree
  <2>2. QED
    BY <1>6, <2>1
<1>8. edits' \in Nat /\ edits <= edits'
  BY <1>1, <1>2 DEF TextsOK
<1>9. shared = head => base = Tree
  BY DEF Tree
<1> HIDE DEF tree, base, shared
<1>10. CASE Moved(tree) /\ shared = head /\ head' = there /\ UNCHANGED commits
  <2>1. HistoryOK'
    BY <1>1, <1>3, <1>4, <1>8, <1>10, HistoryStays
  <2>2. CommitsStay /\ Len(commits') \in Nat
    BY <1>1, <1>10, TreeIsText DEF CommitsStay
  <2>3. \A f \in GitFiles : Same(tree[f], Tree'[f])
    <3> SUFFICES ASSUME NEW f \in GitFiles PROVE Same(tree[f], Tree'[f])
      OBVIOUS
    <3>1. Tree' = commits[there].tree
      BY <1>10 DEF Tree
    <3>2. tree[f] \in Int /\ Tree[f] \in Int /\ Tree'[f] \in Int
      BY <1>5, <1>6, <3>1 DEF Texts
    <3>3. CASE Same(Tree'[f], Tree[f])
      <4>1. tree[f] = Tree[f]
        BY <1>6, <1>10, <1>9, <3>1, <3>3
      <4>2. QED
        BY <3>2, <3>3, <4>1, SameTexts
    <3>4. CASE ~Same(Tree'[f], Tree[f])
      <4>1. tree[f] = Tree'[f]
        BY <1>6, <1>10, <1>9, <3>1, <3>4
      <4>2. QED
        BY <3>2, <4>1, SameTexts
    <3>5. QED
      BY <3>3, <3>4
  <2>4. QED
    BY <1>2, <1>4, <1>6, <1>7, <1>10, <2>1, <2>2, <2>3, HeadMoves
<1>11. CASE /\ Moved(tree)
            /\ Reached(tree, Before(head) \cup Before(there)) /\ head' = Len(commits')
  <2>1. Len(commits') = Len(commits) + 1
    BY <1>1, <1>11 DEF HistoryOK, Reached
  <2>2. head' \in 1..(Len(commits) + 1) /\ upstream'.there \in 1..(Len(commits) + 1)
    BY <1>3, <1>4, <1>11, <2>1
  <2>3. /\ HistoryOK'
        /\ \A i \in 1..Len(commits) : commits'[i] = commits[i]
        /\ commits'[Len(commits) + 1].tree = tree
    <3>1. \A f \in GitFiles : Age(tree[f]) <= edits'
      BY <1>2, <1>7
    <3> HIDE DEF there
    <3>2. QED
      BY <1>1, <1>3, <1>4, <1>6, <1>8, <1>11, <2>2, <3>1, HistoryGrows
  <2>4. CommitsStay /\ Len(commits') \in Nat
    BY <1>3, <2>1, <2>3 DEF CommitsStay, HistoryOK
  <2>5. \A f \in GitFiles : Same(tree[f], Tree'[f])
    <3>1. Tree' = tree
      BY <1>11, <2>1, <2>3 DEF Tree
    <3>2. \A f \in GitFiles : tree[f] \in Int
      BY <1>6 DEF Texts
    <3>3. QED
      BY <3>1, <3>2, SameTexts
  <2>6. QED
    BY <1>2, <1>4, <1>6, <1>7, <1>11, <2>3, <2>4, <2>5, HeadMoves
<1>12. CASE UNCHANGED <<worktree, staged, commits, head>>
  BY <1>2, <1>4, <1>12, RefusedKept
<1>13. QED
  BY <1>2, <1>10, <1>11, <1>12

(* git revert.                                                             *)
LEMMA RevertKept == GitInv /\ Revert => GitInv' /\ Keeps
<1> SUFFICES ASSUME GitInv, Revert PROVE GitInv' /\ Keeps
  OBVIOUS
<1>1. TextsOK /\ HistoryOK
  BY DEF GitInv
<1>2. /\ UNCHANGED <<stashes, edits, upstream>> /\ gitCommand = Nobody /\ gitCommand' = Nobody
      /\ upstream' \in [there : Nat, known : Nat] /\ upstream'.there = upstream.there
      /\ upstream.there \in 1..Len(commits) /\ Len(commits) \in Nat /\ head \in 1..Len(commits)
      /\ edits' \in Nat /\ edits <= edits'
  BY <1>1, TreeIsText DEF Revert, Ready, HistoryOK, TextsOK
<1>3. CASE UNCHANGED <<worktree, staged, commits, head>>
  BY <1>2, <1>3, RefusedKept
<1>4. ASSUME NEW i \in Before(head) \ {1}, NEW parent, NEW undone \in SUBSET GitFiles, NEW tree,
             parent \in Before(i) \ {i},
             tree = [f \in GitFiles |-> IF f \in undone THEN commits[parent].tree[f] ELSE Tree[f]],
             Moved(tree), Reached(tree, Before(head)), head' = Len(commits')
      PROVE  GitInv' /\ Keeps
  <2>1. parent \in 1..Len(commits)
    <3>1. i \in 1..Len(commits)
      BY <1>1, <1>2, <1>4 DEF HistoryOK, Placed
    <3>2. QED
      BY <1>1, <1>2, <1>4, <3>1 DEF HistoryOK, Placed
  <2>2. commits[parent].tree \in Texts /\ Tree \in Texts
    BY <1>1, <2>1, TreeIsText
  <2>3. tree \in Texts /\ \A f \in GitFiles : tree[f] \in {commits[parent].tree[f], Tree[f]}
    BY <1>4, <2>2 DEF Texts
  <2>4. \A f \in GitFiles : Age(tree[f]) <= edits /\ Age(tree[f]) <= edits'
    <3>1. \A f \in GitFiles : Age(Tree[f]) <= edits /\ Age(commits[parent].tree[f]) <= edits
      BY <1>1, <1>2, <2>1 DEF HistoryOK, Tree
    <3>2. QED
      BY <1>2, <2>3, <3>1
  <2>5. Reached(tree, Before(head) \cup Before(head))
    <3>1. Before(head) \cup Before(head) = Before(head)
      OBVIOUS
    <3>2. QED
      BY <1>4, <3>1
  <2>6. Len(commits') = Len(commits) + 1
    BY <1>1, <1>4 DEF HistoryOK, Reached
  <2>7. head' \in 1..(Len(commits) + 1) /\ upstream'.there \in 1..(Len(commits) + 1)
    BY <1>2, <1>4, <2>6
  <2>8. /\ HistoryOK'
        /\ \A k \in 1..Len(commits) : commits'[k] = commits[k]
        /\ commits'[Len(commits) + 1].tree = tree
    BY <1>1, <1>2, <2>3, <2>4, <2>5, <2>7, HistoryGrows
  <2>9. CommitsStay /\ Len(commits') \in Nat
    BY <1>2, <2>6, <2>8 DEF CommitsStay, HistoryOK
  <2>10. \A f \in GitFiles : Same(tree[f], Tree'[f])
    <3>1. Tree' = tree
      BY <1>4, <2>6, <2>8 DEF Tree
    <3>2. \A f \in GitFiles : tree[f] \in Int
      BY <2>3 DEF Texts
    <3>3. QED
      BY <3>1, <3>2, SameTexts
  <2>11. QED
    BY <1>2, <1>4, <2>3, <2>4, <2>8, <2>9, <2>10, HeadMoves
<1>5. QED
  <2>1. CASE ~(UNCHANGED <<worktree, staged, commits, head>>)
    <3> DEFINE parent(i) == CHOOSE j \in Before(i) \ {i} : \A k \in Before(i) \ {i} : k <= j
               undone(i) == {f \in GitFiles : ~Same(commits[i].tree[f], commits[parent(i)].tree[f])}
               tree(i) == [f \in GitFiles |-> IF f \in undone(i) THEN commits[parent(i)].tree[f] ELSE Tree[f]]
    <3>1. PICK i \in Before(head) \ {1} :
            Moved(tree(i)) /\ Reached(tree(i), Before(head)) /\ head' = Len(commits')
      BY <2>1 DEF Revert, Called
    <3>2. undone(i) \in SUBSET GitFiles
      OBVIOUS
    <3>3. parent(i) \in Before(i) \ {i}
      <4>1. i \in 1..Len(commits) /\ i # 1
        BY <1>1, <1>2, <3>1 DEF HistoryOK, Placed
      <4>2. \E j \in Before(i) \ {i} : \A k \in Before(i) \ {i} : k <= j
        BY <1>1, <4>1 DEF HistoryOK, Placed
      <4>3. QED
        BY <4>2
    <3> HIDE DEF undone, parent
    <3>4. tree(i) = [f \in GitFiles |-> IF f \in undone(i) THEN commits[parent(i)].tree[f] ELSE Tree[f]]
      OBVIOUS
    <3> HIDE DEF tree
    <3>5. QED
      BY <1>4, <3>1, <3>2, <3>3, <3>4
  <2>2. QED
    BY <1>3, <2>1

(* git stash.                                                              *)
LEMMA StashKept == GitInv /\ Stash => GitInv' /\ Keeps
<1> SUFFICES ASSUME GitInv, Stash PROVE GitInv' /\ Keeps
  OBVIOUS
<1>1. TextsOK /\ HistoryOK /\ StashesOK
  BY DEF GitInv
<1> DEFINE taken == {f \in GitFiles : Tracked(f) /\ ~Clean(f)}
           stash == [text |-> [f \in taken |-> worktree[f]], base |-> Tree]
<1>2. /\ UNCHANGED <<commits, head, upstream, edits>> /\ gitCommand = Nobody /\ gitCommand' = Nobody
      /\ upstream' \in [there : Nat, known : Nat] /\ upstream'.there = upstream.there
  BY <1>1 DEF Stash, Ready, HistoryOK
<1>3. CASE UNCHANGED <<stashes, worktree, staged>>
  BY <1>2, <1>3, RefusedKept
<1>4. CASE /\ stashes' = <<stash>> \o stashes
           /\ worktree' = [f \in GitFiles |-> IF f \in taken THEN Tree[f] ELSE worktree[f]]
           /\ staged' = Tree
  <2>1. Tree \in Texts /\ Tree' = Tree /\ \A f \in GitFiles : Age(Tree[f]) <= edits
    BY <1>1, <1>2, TreeIsText DEF HistoryOK, Tree
  <2>2. TextsOK'
    <3>1. worktree' \in Texts /\ \A f \in GitFiles : worktree'[f] \in {worktree[f], Tree[f]}
      BY <1>1, <1>4, <2>1 DEF TextsOK, Texts
    <3>2. QED
      BY <1>1, <1>2, <1>4, <2>1, <3>1 DEF TextsOK
  <2>3. HistoryOK'
    BY <1>1, <1>2, HistoryStays DEF HistoryOK, TextsOK
  <2>4. StagedIsOlder'
    BY <1>4, <2>1 DEF StagedIsOlder, Same
  <2>5. stash.text \in SomeTexts /\ stash.base = Tree /\ stash \in StashEntries
    <3>1. stash.text \in SomeTexts
      BY <1>1, PartTexts DEF TextsOK
    <3>2. QED
      BY <2>1, <3>1 DEF StashEntries
  <2>6. /\ DOMAIN stash.text = taken /\ taken \subseteq GitFiles
        /\ \A f \in taken : stash.text[f] = worktree[f]
    OBVIOUS
  <2> HIDE DEF stash, taken
  <2>7. Len(stashes) \in Nat /\ stashes \in Seq(StashEntries)
    BY <1>1, StashTexts DEF StashesOK
  <2>8. /\ stashes' \in Seq(StashEntries) /\ Len(stashes') = Len(stashes) + 1
        /\ stashes'[1] = stash
        /\ \A i \in 1..Len(stashes) : stashes'[i + 1] = stashes[i]
        /\ \A i \in 1..Len(stashes') : i = 1 \/ (i - 1 \in 1..Len(stashes) /\ stashes'[i] = stashes[i - 1])
    <3>1. <<stash>> \in Seq(StashEntries) /\ Len(<<stash>>) = 1 /\ <<stash>>[1] = stash
      BY <2>5
    <3>2. /\ <<stash>> \o stashes \in Seq(StashEntries)
          /\ Len(<<stash>> \o stashes) = 1 + Len(stashes)
          /\ \A i \in 1..(1 + Len(stashes)) :
               (<<stash>> \o stashes)[i] = IF i <= 1 THEN <<stash>>[i] ELSE stashes[i - 1]
      BY <2>7, <3>1, ConcatProperties
    <3>3. QED
      BY <1>4, <2>7, <3>1, <3>2
  <2>9. StashesOK'
    <3> SUFFICES ASSUME NEW i \in 1..Len(stashes'), NEW f \in DOMAIN stashes'[i].text
                 PROVE  Age(stashes'[i].text[f]) <= edits'
      BY <2>8 DEF StashesOK
    <3>1. CASE i = 1
      BY <1>1, <1>2, <2>6, <2>8, <3>1 DEF TextsOK
    <3>2. CASE i # 1
      BY <1>1, <1>2, <2>8, <3>2 DEF StashesOK
    <3>3. QED
      BY <3>1, <3>2
  <2>10. ShownIsOlder'
    BY <1>2, NobodyKept
  <2>11. KeepsWork
    <3> SUFFICES ASSUME NEW f \in GitFiles, NEW text \in Uncommitted(f)
                 PROVE  text \in Uncommitted(f)'
      BY DEF KeepsWork
    <3>1. /\ worktree'[f] \in Uncommitted(f)'
          /\ \A i \in 1..Len(stashes') : f \in DOMAIN stashes'[i].text =>
               stashes'[i].text[f] \in Uncommitted(f)'
      <4>1. DOMAIN stashes' = 1..Len(stashes')
        BY <2>8
      <4>2. QED
        BY <4>1 DEF Uncommitted
    <3>2. CASE text = worktree[f] /\ f \in taken
      <4>1. 1 \in 1..Len(stashes') /\ f \in DOMAIN stashes'[1].text /\ stashes'[1].text[f] = text
        BY <2>6, <2>7, <2>8, <3>2
      <4>2. QED
        BY <3>1, <4>1
    <3>3. CASE text = worktree[f] /\ f \notin taken
      BY <1>4, <3>1, <3>3
    <3>4. CASE text # worktree[f]
      <4>1. PICK i \in DOMAIN stashes : f \in DOMAIN stashes[i].text /\ text = stashes[i].text[f]
        BY <3>4 DEF Uncommitted
      <4>2. i \in 1..Len(stashes) /\ i + 1 \in 1..Len(stashes') /\ stashes'[i + 1] = stashes[i]
        BY <2>7, <2>8, <4>1
      <4>3. QED
        BY <3>1, <4>1, <4>2
    <3>5. QED
      BY <3>2, <3>3, <3>4
  <2>12. KeepsUnfetched
    <3>1. CommitsStay
      BY <1>1, <1>2, TreeIsText DEF CommitsStay
    <3>2. QED
      BY <1>1, <1>2, <3>1, RemoteStays
  <2>13. QED
    BY <1>2, <2>2, <2>3, <2>4, <2>9, <2>10, <2>11, <2>12, NothingShown DEF GitInv, Keeps
<1>5. QED
  BY <1>3, <1>4 DEF Stash, Called

(* git stash pop.                                                          *)
LEMMA StashPopKept == GitInv /\ StashPop => GitInv' /\ Keeps
<1> SUFFICES ASSUME GitInv, StashPop PROVE GitInv' /\ Keeps
  OBVIOUS
<1>1. TextsOK /\ HistoryOK /\ StashesOK /\ StagedIsOlder
  BY DEF GitInv
<1> DEFINE stash == Head(stashes)
           mine == DOMAIN stash.text
<1>2. /\ UNCHANGED <<commits, head, upstream, edits>> /\ gitCommand = Nobody /\ gitCommand' = Nobody
      /\ upstream' \in [there : Nat, known : Nat] /\ upstream'.there = upstream.there
      /\ stashes # <<>>
  BY <1>1 DEF StashPop, Ready, HistoryOK
<1>3. CASE UNCHANGED <<worktree, staged, stashes>>
  BY <1>2, <1>3, RefusedKept
<1>4. CASE /\ \A f \in mine : Clean(f)
           /\ worktree' = [f \in GitFiles |-> IF f \in mine THEN stash.text[f] ELSE worktree[f]]
           /\ staged' = [f \in GitFiles |-> IF f \in mine /\ Tree[f] <= 0 THEN stash.text[f]
                                           ELSE staged[f]]
           /\ stashes' = Tail(stashes)
  <2>1. /\ stashes \in Seq(StashEntries) /\ Len(stashes) \in Nat /\ 1 \in 1..Len(stashes)
        /\ stash = stashes[1]
    BY <1>1, <1>2, StashTexts DEF StashesOK
  <2>2. /\ stashes' \in Seq(StashEntries) /\ Len(stashes') = Len(stashes) - 1
        /\ \A i \in 1..Len(stashes') : i + 1 \in 1..Len(stashes) /\ stashes'[i] = stashes[i + 1]
        /\ \A i \in 1..Len(stashes) : i = 1 \/ (i - 1 \in 1..Len(stashes') /\ stashes'[i - 1] = stashes[i])
    BY <1>2, <1>4, <2>1
  <2>3. /\ mine \subseteq GitFiles
        /\ \A f \in mine : stash.text[f] \in Int /\ Age(stash.text[f]) <= edits
                           /\ Age(stash.text[f]) \in Nat
    BY <1>1, <2>1, StashTexts DEF StashesOK
  <2> HIDE DEF mine, stash
  <2>4. Tree \in Texts /\ Tree' = Tree
    BY <1>1, <1>2, TreeIsText DEF HistoryOK, Tree
  <2>5. /\ worktree' \in Texts /\ staged' \in Texts
        /\ \A f \in GitFiles : /\ f \notin mine => worktree'[f] = worktree[f] /\ staged'[f] = staged[f]
                               /\ f \in mine => worktree'[f] = stash.text[f]
                               /\ f \in mine => staged'[f] = IF Tree[f] <= 0 THEN stash.text[f] ELSE staged[f]
    BY <1>1, <1>4, <2>3 DEF TextsOK, Texts
  <2>6. TextsOK'
    BY <1>1, <1>2, <2>3, <2>5 DEF TextsOK
  <2>7. HistoryOK'
    BY <1>1, <1>2, HistoryStays DEF HistoryOK, TextsOK
  <2>8. StagedIsOlder'
    <3> SUFFICES ASSUME NEW f \in GitFiles, ~Same(staged'[f], Tree[f])
                 PROVE  Age(staged'[f]) <= Age(worktree'[f])
      BY <2>4 DEF StagedIsOlder
    <3>1. CASE f \notin mine
      BY <1>1, <2>5, <3>1 DEF StagedIsOlder
    <3>2. CASE f \in mine /\ Tree[f] <= 0
      BY <2>3, <2>5, <3>2
    <3>3. CASE f \in mine /\ ~(Tree[f] <= 0)
      BY <1>4, <2>5, <3>3 DEF Clean
    <3>4. QED
      BY <3>1, <3>2, <3>3
  <2>9. StashesOK'
    BY <1>1, <1>2, <2>2 DEF StashesOK
  <2>10. ShownIsOlder'
    BY <1>2, NobodyKept
  <2>11. KeepsWork
    <3> SUFFICES ASSUME NEW f \in GitFiles, NEW text \in Uncommitted(f), ~(text <= 0),
                        text \notin Uncommitted(f)'
                 PROVE  \E i \in DOMAIN commits' : commits'[i].tree[f] = text
      BY DEF KeepsWork
    <3>1. /\ worktree'[f] \in Uncommitted(f)'
          /\ \A i \in 1..Len(stashes') : f \in DOMAIN stashes'[i].text =>
               stashes'[i].text[f] \in Uncommitted(f)'
      <4>1. DOMAIN stashes' = 1..Len(stashes')
        BY <2>2
      <4>2. QED
        BY <4>1 DEF Uncommitted
    <3>2. text = worktree[f]
      <4> SUFFICES ASSUME text # worktree[f] PROVE FALSE
        OBVIOUS
      <4>1. PICK i \in DOMAIN stashes : f \in DOMAIN stashes[i].text /\ text = stashes[i].text[f]
        BY DEF Uncommitted
      <4>2. i \in 1..Len(stashes)
        BY <2>1, <4>1
      <4>3. CASE i = 1
        BY <2>1, <2>5, <3>1, <4>1, <4>3 DEF mine
      <4>4. CASE i # 1
        BY <2>2, <3>1, <4>1, <4>2, <4>4
      <4>5. QED
        BY <4>3, <4>4
    <3>3. Clean(f)
      BY <1>4, <2>5, <3>1, <3>2
    <3>4. worktree[f] \in Int /\ staged[f] \in Int /\ Tree[f] \in Int
      BY <1>1, <2>4 DEF TextsOK, Texts
    <3>5. text = Tree[f]
      BY <3>2, <3>3, <3>4 DEF Clean, Same
    <3>6. head \in DOMAIN commits' /\ commits'[head].tree[f] = text
      BY <1>1, <1>2, <3>5, TreeIsText DEF Tree
    <3>7. QED
      BY <3>6
  <2>12. KeepsUnfetched
    <3>1. CommitsStay
      BY <1>1, <1>2, TreeIsText DEF CommitsStay
    <3>2. QED
      BY <1>1, <1>2, <3>1, RemoteStays
  <2>13. QED
    BY <1>2, <2>6, <2>7, <2>8, <2>9, <2>10, <2>11, <2>12, NothingShown DEF GitInv, Keeps
<1>5. QED
  BY <1>3, <1>4 DEF StashPop, Called

(* Every action keeps this and loses no work.                              *)
LEMMA GitKept == GitInv /\ GitNext => GitInv' /\ Keeps
BY EditKept, StageFileKept, OthersPushKept, WaitKept, AddAllKept, CommitKept, PushKept,
   GitResetKept, PullKept, RevertKept, StashKept, StashPopKept DEF GitNext

(* So does a step that changes nothing.                                    *)
LEMMA GitInvStutters == GitInv /\ UNCHANGED gitVars => GitInv'
<1> SUFFICES ASSUME GitInv, UNCHANGED gitVars PROVE GitInv'
  OBVIOUS
<1>1. /\ UNCHANGED <<worktree, staged, commits, head, stashes, edits>> /\ upstream' = upstream
      /\ gitCommand' = gitCommand
  BY DEF gitVars, repo
<1>2. ShownIsOlder'
  BY <1>1 DEF GitInv, ShownIsOlder
<1>3. QED
  BY <1>1, <1>2, FilesAlone DEF GitInv

(* git_helper.py, git_cmds.py: no command loses a text that is in the tree *)
(* or the stash, or a commit of others that was not fetched, and a commit  *)
(* has what was shown for it or a later text: for any files and any number *)
(* of edits, commits and stashes.                                          *)
THEOREM WorkIsKept == GitSpec => NoWorkLost
<1>1. GitInit => GitInv
  <2> SUFFICES ASSUME GitInit PROVE GitInv
    OBVIOUS
  <2>1. /\ worktree = [f \in GitFiles |-> 0] /\ staged = worktree /\ edits = 0
        /\ commits = <<[tree |-> worktree, before |-> {1}]>> /\ head = 1
        /\ upstream = [there |-> 1, known |-> 1] /\ stashes = <<>> /\ gitCommand = Nobody
    BY DEF GitInit
  <2>2. worktree \in Texts /\ \A f \in GitFiles : worktree[f] = 0 /\ Age(worktree[f]) = 0
    BY <2>1 DEF Texts, Age
  <2>3. TextsOK
    BY <2>1, <2>2 DEF TextsOK
  <2>4. /\ commits \in Seq(CommitTexts) /\ Len(commits) = 1
        /\ commits[1].tree = worktree /\ commits[1].before = {1}
    <3>1. [tree |-> worktree, before |-> {1}] \in CommitTexts
      BY <2>2 DEF CommitTexts
    <3>2. QED
      BY <2>1, <3>1
  <2>5. Placed(1)
    BY <2>4 DEF Placed, Before
  <2>6. \A i \in 1..Len(commits) : i = 1
    BY <2>4
  <2>7. HistoryOK
    BY <2>1, <2>2, <2>4, <2>5, <2>6 DEF HistoryOK
  <2>8. StashesOK
    BY <2>1 DEF StashesOK
  <2>9. StagedIsOlder
    BY <2>1, <2>2, <2>4 DEF StagedIsOlder, Same, Tree
  <2>10. ShownIsOlder
    BY <2>1, NobodyShows DEF ShownIsOlder
  <2>11. QED
    BY <2>3, <2>7, <2>8, <2>9, <2>10 DEF GitInv
<1>2. GitInv /\ [GitNext]_gitVars => GitInv'
  BY GitKept, GitInvStutters
<1>3. GitInv /\ [GitNext]_gitVars => [KeepsWork /\ KeepsUnfetched /\ CommitsShown]_gitVars
  BY GitKept DEF Keeps
<1>4. QED
  BY <1>1, <1>2, <1>3, PTL DEF GitSpec, NoWorkLost
=============================================================================

-------------------------- MODULE EditSessionProofs --------------------------
(***************************************************************************)
(* The safety properties of EditSession, for all sets of files and texts,  *)
(* every bound and every set of responses.                                 *)
(*                                                                         *)
(* First the facts about stacks; then SessionTypeOK, which the others need *)
(* for the head of todo at a prompt; then UndoInv, the strengthening from  *)
(* which RollbackUndoes follows: what /rollback owes is the upper end of   *)
(* what the store holds.                                                   *)
(***************************************************************************)
EXTENDS EditSession, TLAPS

USE SnapshotAssumption

-----------------------------------------------------------------------------
(* The stacks.                                                             *)

\* What is left below the top, and how many entries a push lets go.
Front(stack) == SubSeq(stack, 1, Len(stack) - 1)
Gone(stack) == IF Len(stack) < MaxPerFile THEN 0 ELSE 1

LEMMA FrontFacts ==
  ASSUME NEW S, NEW stack \in Seq(S)
  PROVE  /\ Front(stack) \in Seq(S)
         /\ stack # <<>> => Len(Front(stack)) = Len(stack) - 1
         /\ stack = <<>> => Front(stack) = <<>>
         /\ \A i \in 1..Len(Front(stack)) : Front(stack)[i] = stack[i]
<1>1. CASE stack = <<>>
  BY <1>1 DEF Front
<1>2. CASE stack # <<>>
  <2>1. Len(stack) \in Nat \ {0}
    BY <1>2
  <2>2. Front(stack) \in Seq(S)
    BY <2>1 DEF Front
  <2>3. Len(Front(stack)) = Len(stack) - 1
    BY <2>1 DEF Front
  <2>4. \A i \in 1..Len(stack) - 1 : Front(stack)[i] = stack[i]
    BY <2>1 DEF Front
  <2> QED
    BY <1>2, <2>2, <2>3, <2>4
<1> QED
  BY <1>1, <1>2

\* A push gives a bounded stack with the text on top.
LEMMA PushFacts ==
  ASSUME NEW S, NEW stack \in Seq(S), Len(stack) <= MaxPerFile, NEW text \in S
  PROVE  /\ Push(stack, text) \in Seq(S)
         /\ Len(Push(stack, text)) = Len(stack) + 1 - Gone(stack)
         /\ Len(Push(stack, text)) <= MaxPerFile
         /\ Push(stack, text)[Len(Push(stack, text))] = text
         /\ \A i \in 1..Len(Push(stack, text)) - 1 :
              Push(stack, text)[i] = stack[i + Gone(stack)]
BY DEF Push, Gone

\* A pop gives a stack that is no longer, with the same bottom.
LEMMA PoppedFacts ==
  ASSUME NEW S, NEW stack \in Seq(S)
  PROVE  /\ Popped(stack) \in Seq(S)
         /\ Len(Popped(stack)) = IF Len(stack) <= 1 THEN Len(stack) ELSE Len(stack) - 1
         /\ \A i \in 1..Len(Popped(stack)) : Popped(stack)[i] = stack[i]
<1>1. CASE Len(stack) <= 1
  BY <1>1 DEF Popped
<1>2. CASE ~(Len(stack) <= 1)
  BY <1>2, FrontFacts DEF Popped, Front
<1> QED
  BY <1>1, <1>2

LEMMA TopType ==
  ASSUME NEW S, NEW stack \in Seq(S), stack # <<>>
  PROVE  Top(stack) \in S
BY DEF Top

\* s is the upper end of the stack t.
UpperEnd(s, t) ==
  /\ Len(s) <= Len(t)
  /\ \A i \in 1..Len(s) : s[i] = t[i + (Len(t) - Len(s))]

LEMMA UpperEndPush ==
  ASSUME NEW S, NEW s \in Seq(S), NEW t \in Seq(S), NEW text \in S,
         Len(t) <= MaxPerFile, UpperEnd(s, t)
  PROVE  UpperEnd(Push(s, text), Push(t, text))
<1> DEFINE ps == Push(s, text)
           pt == Push(t, text)
<1>1. /\ Len(s) \in Nat /\ Len(t) \in Nat
      /\ Len(s) <= Len(t) /\ Len(s) <= MaxPerFile
  BY DEF UpperEnd
<1>2. /\ ps \in Seq(S) /\ ps[Len(ps)] = text
      /\ Len(ps) = Len(s) + 1 - Gone(s)
      /\ \A i \in 1..Len(ps) - 1 : ps[i] = s[i + Gone(s)]
  BY <1>1, PushFacts
<1>3. /\ pt \in Seq(S) /\ pt[Len(pt)] = text
      /\ Len(pt) = Len(t) + 1 - Gone(t)
      /\ \A i \in 1..Len(pt) - 1 : pt[i] = t[i + Gone(t)]
  BY <1>1, PushFacts
<1> HIDE DEF ps, pt
<1>4. /\ Gone(s) \in {0, 1} /\ Gone(t) \in {0, 1}
      /\ Gone(s) = 1 => Len(s) = MaxPerFile /\ Len(t) = MaxPerFile
      /\ Gone(t) = 0 => Len(t) < MaxPerFile
  BY <1>1 DEF Gone
<1>5. Len(ps) <= Len(pt) /\ Len(ps) \in Nat /\ Len(pt) \in Nat
  BY <1>1, <1>2, <1>3, <1>4 DEF Gone
<1>6. ASSUME NEW i \in 1..Len(ps)
      PROVE  ps[i] = pt[i + (Len(pt) - Len(ps))]
  <2>1. CASE i = Len(ps)
    BY <1>2, <1>3, <1>5, <2>1
  <2>2. CASE i < Len(ps)
    <3> DEFINE j == i + Gone(s)
               k == i + (Len(pt) - Len(ps))
    <3>1. j \in 1..Len(s) /\ k \in 1..Len(pt) - 1
      BY <1>1, <1>2, <1>3, <1>4, <1>5, <2>2
    <3>2. k + Gone(t) = j + (Len(t) - Len(s))
      BY SMTT(30), <1>1, <1>2, <1>3, <1>4, <1>5
    <3>3. ps[i] = s[j]
      BY <1>2, <1>5, <2>2
    <3>4. pt[k] = t[k + Gone(t)]
      BY <1>3, <3>1
    <3>5. s[j] = t[j + (Len(t) - Len(s))]
      BY <3>1 DEF UpperEnd
    <3> QED
      BY <3>2, <3>3, <3>4, <3>5
  <2> QED
    BY <1>5, <2>1, <2>2
<1> QED
  BY <1>5, <1>6 DEF UpperEnd, ps, pt

\* The last content owed goes with the pop, or alone when the bottom stays.
LEMMA UpperEndPop ==
  ASSUME NEW S, NEW s \in Seq(S), NEW t \in Seq(S), UpperEnd(s, t)
  PROVE  UpperEnd(Front(s), Popped(t))
<1>1. Len(s) \in Nat /\ Len(t) \in Nat /\ Len(s) <= Len(t)
  BY DEF UpperEnd
<1>2. CASE s = <<>>
  <2>1. Front(s) = <<>>
    BY <1>2, FrontFacts
  <2>2. Popped(t) \in Seq(S)
    BY PoppedFacts
  <2> QED
    BY <2>1, <2>2 DEF UpperEnd
<1>3. CASE s # <<>>
  <2>1. /\ Front(s) \in Seq(S) /\ Len(Front(s)) = Len(s) - 1
        /\ \A i \in 1..Len(Front(s)) : Front(s)[i] = s[i]
    BY <1>3, FrontFacts
  <2>2. /\ Popped(t) \in Seq(S)
        /\ Len(Popped(t)) = IF Len(t) <= 1 THEN Len(t) ELSE Len(t) - 1
        /\ \A i \in 1..Len(Popped(t)) : Popped(t)[i] = t[i]
    BY PoppedFacts
  <2>3. Len(s) >= 1
    BY <1>1, <1>3
  <2>4. CASE Len(t) <= 1
    BY <1>1, <2>1, <2>2, <2>3, <2>4 DEF UpperEnd
  <2>5. CASE ~(Len(t) <= 1)
    <3>1. Len(Popped(t)) - Len(Front(s)) = Len(t) - Len(s)
      BY <1>1, <2>1, <2>2, <2>5
    <3>2. ASSUME NEW i \in 1..Len(Front(s))
          PROVE  Front(s)[i] = Popped(t)[i + (Len(Popped(t)) - Len(Front(s)))]
      <4>1. i \in 1..Len(s) /\ i + (Len(t) - Len(s)) \in 1..Len(Popped(t))
        BY <1>1, <2>1, <2>2, <2>3, <2>5
      <4>2. s[i] = t[i + (Len(t) - Len(s))]
        BY <4>1 DEF UpperEnd
      <4> QED
        BY <2>1, <2>2, <3>1, <4>1, <4>2
    <3> QED
      BY <1>1, <2>1, <2>2, <2>3, <2>5, <3>2 DEF UpperEnd
  <2> QED
    BY <1>1, <2>4, <2>5
<1> QED
  BY <1>2, <1>3

LEMMA UpperEndTop ==
  ASSUME NEW S, NEW s \in Seq(S), NEW t \in Seq(S), s # <<>>, UpperEnd(s, t)
  PROVE  t # <<>> /\ Top(t) = Top(s)
BY DEF UpperEnd, Top

-----------------------------------------------------------------------------
(* Types.                                                                  *)

LEMMA NothingType ==
  /\ Nothing \in [Paths -> Seq(Content)]
  /\ \A p \in Paths : Len(Nothing[p]) <= MaxPerFile
BY DEF Nothing

LEMMA ActionTypes ==
  ASSUME AgentTypeOK, todo # <<>>
  PROVE  /\ Head(todo) \in Action
         /\ Head(todo).path \in Paths
         /\ Head(todo).op \in Op
         /\ Head(todo).text \in Content
         /\ Tail(todo) \in Seq(Action)
<1>1. todo \in Seq(Action)
  BY DEF AgentTypeOK
<1>2. Head(todo) \in Action /\ Tail(todo) \in Seq(Action)
  BY <1>1
<1> QED
  BY <1>2 DEF Action

\* What Snapshot does to the stacks.
LEMMA SnapshotType ==
  ASSUME StoreTypeOK, NEW fa \in Action, Snapshot(fa)
  PROVE  /\ stacks' \in [Paths -> Seq(Content)]
         /\ \A p \in Paths : Len(stacks'[p]) <= MaxPerFile
<1>1. fa.path \in Paths /\ disk[fa.path] \in Content
  BY DEF Action, StoreTypeOK
<1>2. CASE Saves(fa)
  <2>1. /\ Push(stacks[fa.path], disk[fa.path]) \in Seq(Content)
        /\ Len(Push(stacks[fa.path], disk[fa.path])) <= MaxPerFile
    BY <1>1, PushFacts DEF StoreTypeOK
  <2> QED
    BY <1>1, <1>2, <2>1 DEF Snapshot, StoreTypeOK
<1>3. CASE ~Saves(fa)
  BY <1>3 DEF Snapshot, StoreTypeOK
<1> QED
  BY <1>2, <1>3

LEMMA WriteType ==
  ASSUME StoreTypeOK, NEW p \in Paths, NEW text \in Content, WriteFile(p, text)
  PROVE  /\ disk' \in [Paths -> Content]
         /\ present' \subseteq Paths
         /\ \A q \in Paths \ present' : disk'[q] = Empty
BY DEF StoreTypeOK, WriteFile

LEMMA PerformType ==
  ASSUME StoreTypeOK, NEW fa \in Action, Perform(fa)
  PROVE  /\ disk' \in [Paths -> Content]
         /\ present' \subseteq Paths
         /\ \A q \in Paths \ present' : disk'[q] = Empty
<1>1. fa.path \in Paths /\ fa.text \in Content /\ disk[fa.path] \in Content
  BY DEF Action, StoreTypeOK
<1>2. disk[fa.path] \o fa.text \in Content
  BY <1>1 DEF Content
<1>3. CASE fa.op = "delete" /\ DeleteFile(fa.path)
  BY <1>1, <1>3 DEF DeleteFile, StoreTypeOK, Empty, Content
<1> QED
  BY <1>1, <1>2, <1>3, WriteType DEF Perform

LEMMA ObserveType ==
  ASSUME SessionTypeOK, NEW saved \in SUBSET Paths, NEW changed \in SUBSET Paths,
         Observe(saved, changed)
  PROVE  /\ tasks' \in 0..MaxTasks
         /\ undo' \in [Paths -> Seq(Content)]
         /\ \A p \in Paths : Len(undo'[p]) <= MaxPerFile
         /\ first' \in [Paths -> Content]
         /\ strayed' \subseteq Paths
         /\ before' \in [Paths -> Content]
         /\ outside' \subseteq Paths
<1>1. ASSUME NEW p \in Paths
      PROVE  Owed(p, saved) \in Seq(Content) /\ Len(Owed(p, saved)) <= MaxPerFile
  <2>1. /\ undo[p] \in Seq(Content) /\ Len(undo[p]) <= MaxPerFile
        /\ disk[p] \in Content
    BY DEF SessionTypeOK, AgentTypeOK, StoreTypeOK
  <2>2. /\ Push(undo[p], disk[p]) \in Seq(Content)
        /\ Len(Push(undo[p], disk[p])) <= MaxPerFile
    BY <2>1, PushFacts
  <2> QED
    BY <2>1, <2>2 DEF Owed
<1>2. strayed' \subseteq Paths /\ outside' \subseteq Paths
  BY DEF Observe, SessionTypeOK
<1> QED
  BY <1>1, <1>2 DEF Observe, SessionTypeOK

LEMMA TalkType ==
  ASSUME SessionTypeOK, TalkStep
  PROVE  AgentTypeOK'
<1> USE DEF AgentTypeOK, StoreTypeOK, storeVars, fileVars, responseVars
<1> USE AgentAssumption DEF SessionTypeOK
<1>1. ASSUME Retry PROVE /\ pc' \in {"calling", "idle"}
                         /\ attempt' \in 0..MaxAttempts
                         /\ result' \in Verdicts
  BY <1>1 DEF Retry, Finish, Verdicts
<1>2. CASE CallFails
  BY <1>1, <1>2 DEF CallFails
<1>3. CASE CallAborts
  BY <1>3 DEF CallAborts, Finish, Verdicts
<1>4. ASSUME NEW r \in Responses, CallAnswers(r) PROVE AgentTypeOK'
  <2>1. r.files \in Seq(Action) /\ r.command \in BOOLEAN
    OBVIOUS
  <2> QED
    BY <1>4, <2>1 DEF CallAnswers
<1>5. CASE HookBlocks
  <2>1. Tail(todo) \in Seq(Action)
    BY <1>5, ActionTypes DEF HookBlocks
  <2> QED
    BY <1>5, <2>1 DEF HookBlocks, NextAction
<1>6. CASE Ask
  BY <1>6 DEF Ask
<1>7. CASE Deny
  <2>1. Tail(todo) \in Seq(Action)
    BY <1>7, ActionTypes DEF Deny
  <2> QED
    BY <1>7, <2>1 DEF Deny, NextAction
<1>8. CASE CheckFiles
  <2>1. CASE Rejected
    BY <1>1, <1>8, <2>1 DEF CheckFiles
  <2>2. CASE ~Rejected
    BY <1>8, <2>2 DEF CheckFiles, Finish, Verdicts
  <2> QED
    BY <2>1, <2>2
<1>9. CASE AskCommand
  BY <1>9 DEF AskCommand
<1>10. CASE DenyCommand
  BY <1>10 DEF DenyCommand, Finish, Verdicts
<1>11. CASE GrantCommand
  BY <1>11 DEF GrantCommand
<1>12. ASSUME NEW ok \in BOOLEAN, CommandEnds(ok) PROVE AgentTypeOK'
  <2>1. CASE ok
    BY <1>12, <2>1 DEF CommandEnds, Finish, Verdicts
  <2>2. CASE ~ok
    BY <1>1, <1>12, <2>2 DEF CommandEnds
  <2> QED
    BY <2>1, <2>2
<1> QED
  BY <1>2, <1>3, <1>4, <1>5, <1>6, <1>7, <1>8, <1>9, <1>10, <1>11, <1>12 DEF TalkStep

LEMMA SavedFiles ==
  ASSUME SessionTypeOK, pc = "consent"
  PROVE  /\ Head(todo) \in Action
         /\ AskedFor \in SUBSET Paths
         /\ ToSave \in SUBSET Paths
BY ActionTypes DEF SessionTypeOK, AgentTypeOK, AskedFor, ToSave

LEMMA FileType ==
  ASSUME SessionTypeOK, FileStep
  PROVE  AgentTypeOK'
<1> DEFINE fa == Head(todo)
<1>1. pc = "consent"
  BY DEF FileStep, Apply, ApplyFails, ApplyTruncates
<1>2. /\ fa \in Action /\ fa.path \in Paths
      /\ Tail(todo) \in Seq(Action)
  BY <1>1, ActionTypes DEF SessionTypeOK, AgentTypeOK
<1>3. Snapshot(fa) /\ NextAction
  BY DEF FileStep, Apply, ApplyFails, ApplyTruncates
<1>4. /\ stacks' \in [Paths -> Seq(Content)]
      /\ \A p \in Paths : Len(stacks'[p]) <= MaxPerFile
  BY <1>2, <1>3, SnapshotType DEF SessionTypeOK, AgentTypeOK
<1>5. /\ disk' \in [Paths -> Content]
      /\ present' \subseteq Paths
      /\ \A q \in Paths \ present' : disk'[q] = Empty
  <2>1. CASE Apply
    BY <1>2, <2>1, PerformType DEF Apply, SessionTypeOK, AgentTypeOK
  <2>2. CASE ApplyFails
    BY <2>2 DEF ApplyFails, fileVars, SessionTypeOK, AgentTypeOK, StoreTypeOK
  <2>3. CASE ApplyTruncates
    <3>1. WriteFile(fa.path, Empty)
      BY <2>3 DEF ApplyTruncates
    <3>2. Empty \in Content /\ StoreTypeOK
      BY DEF Empty, Content, SessionTypeOK, AgentTypeOK
    <3> QED
      BY <1>2, <3>1, <3>2, WriteType
  <2> QED
    BY <2>1, <2>2, <2>3 DEF FileStep
<1>6. wrote' \subseteq Paths /\ allWrote' \subseteq Paths
  BY <1>2 DEF FileStep, Apply, ApplyFails, ApplyTruncates, Report,
              SessionTypeOK, AgentTypeOK
<1> QED
  BY <1>2, <1>3, <1>4, <1>5, <1>6
     DEF NextAction, SessionTypeOK, AgentTypeOK, StoreTypeOK

LEMMA RollbackTypes ==
  ASSUME SessionTypeOK, NEW p \in Paths
  PROVE  /\ Popped(stacks[p]) \in Seq(Content)
         /\ Len(Popped(stacks[p])) <= MaxPerFile
         /\ stacks[p] # <<>> => Top(stacks[p]) \in Content
         /\ Front(undo[p]) \in Seq(Content)
         /\ Len(Front(undo[p])) <= MaxPerFile
<1>1. /\ stacks[p] \in Seq(Content) /\ Len(stacks[p]) <= MaxPerFile
      /\ undo[p] \in Seq(Content) /\ Len(undo[p]) <= MaxPerFile
  BY DEF SessionTypeOK, AgentTypeOK, StoreTypeOK
<1>2. Len(Popped(stacks[p])) <= Len(stacks[p])
  BY <1>1, PoppedFacts
<1>3. Len(Front(undo[p])) <= Len(undo[p])
  BY <1>1, FrontFacts
<1>4. Popped(stacks[p]) \in Seq(Content) /\ Front(undo[p]) \in Seq(Content)
  BY <1>1, PoppedFacts, FrontFacts
<1> QED
  BY <1>1, <1>2, <1>3, <1>4, TopType

(* Every variable of a session keeps its type, and the stacks their bound. *)
THEOREM SessionTypes == SessionSpec => []SessionTypeOK
<1>1. SessionInit => SessionTypeOK
  <2> SUFFICES ASSUME SessionInit PROVE SessionTypeOK
    OBVIOUS
  <2>1. StoreTypeOK
    <3>1. Empty \in Content
      BY DEF Empty, Content
    <3>2. ASSUME NEW c \in Chunks PROVE <<c>> \in Content
      BY DEF Content
    <3>3. {Empty} \cup {<<c>> : c \in Chunks} \subseteq Content
      BY <3>1, <3>2
    <3> QED
      BY <3>3, NothingType
         DEF SessionInit, AgentInit, StoreInit, StoreTypeOK, Nothing
  <2>2. <<>> \in Seq(Action) /\ 0 \in 0..MaxAttempts
    BY AgentAssumption
  <2>3. AgentTypeOK
    BY <2>1, <2>2 DEF SessionInit, AgentInit, AgentTypeOK, Verdicts
  <2> QED
    BY <2>3, NothingType, SessionAssumption
       DEF SessionInit, SessionTypeOK, AgentTypeOK, StoreTypeOK
<1>2. ASSUME SessionTypeOK, SessionNext PROVE SessionTypeOK'
  <2> USE <1>2 DEF SessionTypeOK
  <2>1. ASSUME NEW m \in {"run", "stream"}, Start(m) PROVE SessionTypeOK'
    BY <2>1, AgentAssumption, SessionAssumption
       DEF Start, StartTask, AgentTypeOK, StoreTypeOK, storeVars, fileVars,
           responseVars, Verdicts
  <2>2. CASE TalkStep /\ Observe({}, {})
    BY <2>2, TalkType, ObserveType
  <2>3. CASE FileStep
    <3>1. pc = "consent"
      BY <2>3 DEF FileStep, Apply, ApplyFails, ApplyTruncates
    <3>2. PICK changed \in SUBSET Paths : Observe(ToSave, changed)
      BY <2>3, <3>1, SavedFiles DEF FileStep
    <3> QED
      BY <2>3, <3>1, <3>2, SavedFiles, FileType, ObserveType
  <2>4. ASSUME NEW p \in Paths, NEW text \in OutsideTexts,
               CommandWrites(p, text) \/ UserEdits(p, text), Observe({}, {p})
        PROVE  SessionTypeOK'
    <3>1. text \in Content
      BY AgentAssumption
    <3>2. AgentTypeOK'
      BY <2>4, <3>1, WriteType
         DEF CommandWrites, UserEdits, AgentTypeOK, StoreTypeOK, agentVars
    <3> QED
      BY <2>4, <3>2, ObserveType
  <2>5. ASSUME NEW p \in Paths, RollbackFile(p) PROVE SessionTypeOK'
    <3>1. AgentTypeOK'
      BY <2>5, RollbackTypes, WriteType
         DEF RollbackFile, AgentTypeOK, StoreTypeOK, agentVars
    <3>2. /\ undo' \in [Paths -> Seq(Content)]
          /\ \A q \in Paths : Len(undo'[q]) <= MaxPerFile
      BY <2>5, RollbackTypes DEF RollbackFile, Front
    <3> QED
      BY <2>5, <3>1, <3>2 DEF RollbackFile
  <2>6. CASE RollbackAll
    <3>1. AgentTypeOK'
      BY <2>6, RollbackTypes
         DEF RollbackAll, Tracked, AgentTypeOK, StoreTypeOK, agentVars
    <3>2. /\ undo' \in [Paths -> Seq(Content)]
          /\ \A q \in Paths : Len(undo'[q]) <= MaxPerFile
      BY <2>6, RollbackTypes DEF RollbackAll, Front
    <3> QED
      BY <2>6, <3>1, <3>2 DEF RollbackAll
  <2>7. CASE Checkpoint /\ Observe(Tracked \cap present, {})
    <3>1. ASSUME NEW p \in Paths
          PROVE  /\ Push(stacks[p], disk[p]) \in Seq(Content)
                 /\ Len(Push(stacks[p], disk[p])) <= MaxPerFile
      BY PushFacts DEF AgentTypeOK, StoreTypeOK
    <3>2. AgentTypeOK'
      BY <2>7, <3>1 DEF Checkpoint, AgentTypeOK, StoreTypeOK, agentVars, fileVars
    <3>3. PICK saved \in SUBSET Paths : Observe(saved, {})
      BY <2>7 DEF Tracked
    <3> QED
      BY <2>7, <3>2, <3>3, ObserveType
  <2>8. CASE Restart
    <3>1. <<>> \in Seq(Action) /\ 0 \in 0..MaxAttempts
      BY AgentAssumption
    <3>2. AgentTypeOK'
      BY <2>8, <3>1, NothingType
         DEF Restart, AgentTypeOK, StoreTypeOK, fileVars, Verdicts
    <3> QED
      BY <2>8, <3>2, NothingType DEF Restart, AgentTypeOK, StoreTypeOK
  <2> QED
    BY <1>2, <2>1, <2>2, <2>3, <2>4, <2>5, <2>6, <2>7, <2>8
       DEF SessionNext, Interference
<1>3. SessionTypeOK /\ UNCHANGED sessionVars => SessionTypeOK'
  BY DEF SessionTypeOK, AgentTypeOK, StoreTypeOK, sessionVars, storeVars, agentVars,
         historyVars
<1> QED
  BY <1>1, <1>2, <1>3, PTL DEF SessionSpec

-----------------------------------------------------------------------------
(* What /rollback gives back.                                              *)

UndoInv == \A p \in Paths : UpperEnd(undo[p], stacks[p])

\* The step takes a snapshot of just the files of saved.
SnapshotsOf(saved) ==
  stacks' = [p \in Paths |-> IF p \in saved THEN Push(stacks[p], disk[p]) ELSE stacks[p]]

LEMMA StackTypes ==
  ASSUME SessionTypeOK, NEW p \in Paths
  PROVE  /\ stacks[p] \in Seq(Content) /\ Len(stacks[p]) <= MaxPerFile
         /\ undo[p] \in Seq(Content) /\ Len(undo[p]) <= MaxPerFile
         /\ disk[p] \in Content
BY DEF SessionTypeOK, AgentTypeOK, StoreTypeOK

\* Every step but Start, the rollbacks and Restart is one that Observe sees.
LEMMA ObservedSteps ==
  ASSUME SessionTypeOK,
         \/ TalkStep /\ Observe({}, {})
         \/ FileStep
         \/ Interference
         \/ Checkpoint /\ Observe(Tracked \cap present, {})
  PROVE  \E saved, changed \in SUBSET Paths : SnapshotsOf(saved) /\ Observe(saved, changed)
<1>1. ASSUME UNCHANGED stacks PROVE SnapshotsOf({})
  <2>1. stacks = [p \in Paths |-> stacks[p]]
    BY DEF SessionTypeOK, AgentTypeOK, StoreTypeOK
  <2> QED
    BY <1>1, <2>1 DEF SnapshotsOf
<1>2. CASE TalkStep /\ Observe({}, {})
  <2>1. UNCHANGED stacks
    BY <1>2 DEF TalkStep, CallFails, CallAborts, CallAnswers, HookBlocks, Ask, Deny,
                CheckFiles, AskCommand, DenyCommand, GrantCommand, CommandEnds, storeVars
  <2> QED
    BY <1>1, <1>2, <2>1
<1>3. CASE FileStep
  <2>1. pc = "consent" /\ Snapshot(Head(todo))
    BY <1>3 DEF FileStep, Apply, ApplyFails, ApplyTruncates
  <2>2. Head(todo).path \in Paths /\ AskedFor \in SUBSET Paths /\ ToSave \in SUBSET Paths
    BY <2>1, SavedFiles DEF Action
  <2>3. stacks \in [Paths -> Seq(Content)]
    BY DEF SessionTypeOK, AgentTypeOK, StoreTypeOK
  <2>4. SnapshotsOf(ToSave)
    BY <2>1, <2>2, <2>3 DEF Snapshot, SnapshotsOf, ToSave, AskedFor
  <2> QED
    BY <1>3, <2>2, <2>4 DEF FileStep
<1>4. CASE Interference
  <2>1. UNCHANGED stacks
    BY <1>4 DEF Interference, CommandWrites, UserEdits
  <2> QED
    BY <1>1, <1>4, <2>1 DEF Interference
<1>5. CASE Checkpoint /\ Observe(Tracked \cap present, {})
  <2>1. Tracked \cap present \in SUBSET Paths
    BY DEF Tracked
  <2> QED
    BY <1>5, <2>1 DEF Checkpoint, SnapshotsOf
<1> QED
  BY <1>2, <1>3, <1>4, <1>5

LEMMA UndoInitial == SessionInit => UndoInv
<1>1. UpperEnd(<<>>, <<>>)
  BY DEF UpperEnd
<1> QED
  BY <1>1 DEF SessionInit, AgentInit, StoreInit, Nothing, UndoInv

LEMMA UndoInductive ==
  ASSUME SessionTypeOK, UndoInv, SessionNext
  PROVE  UndoInv'
<1> SUFFICES ASSUME NEW p \in Paths
             PROVE  UpperEnd(undo'[p], stacks'[p])
  BY DEF UndoInv
<1>1. UpperEnd(undo[p], stacks[p])
  BY DEF UndoInv
<1>2. ASSUME NEW saved \in SUBSET Paths, NEW changed \in SUBSET Paths,
             SnapshotsOf(saved), Observe(saved, changed)
      PROVE  UpperEnd(undo'[p], stacks'[p])
  <2>1. undo'[p] = Owed(p, saved)
    BY <1>2 DEF Observe
  <2>2. CASE p \in saved
    <3>1. undo'[p] = Push(undo[p], disk[p]) /\ stacks'[p] = Push(stacks[p], disk[p])
      BY <1>2, <2>1, <2>2 DEF SnapshotsOf, Owed
    <3>2. UpperEnd(Push(undo[p], disk[p]), Push(stacks[p], disk[p]))
      BY <1>1, StackTypes, UpperEndPush
    <3> QED
      BY <3>1, <3>2
  <2>3. CASE p \notin saved
    <3>1. stacks'[p] = stacks[p] /\ undo'[p] \in {undo[p], <<>>}
      BY <1>2, <2>1, <2>3 DEF SnapshotsOf, Owed
    <3>2. stacks[p] \in Seq(Content)
      BY StackTypes
    <3>3. UpperEnd(<<>>, stacks[p])
      BY <3>2 DEF UpperEnd
    <3> QED
      BY <1>1, <3>1, <3>3
  <2> QED
    BY <2>2, <2>3
<1>3. ASSUME NEW m \in {"run", "stream"}, Start(m)
      PROVE  UpperEnd(undo'[p], stacks'[p])
  BY <1>1, <1>3 DEF Start, StartTask, storeVars
<1>4. UpperEnd(Front(undo[p]), Popped(stacks[p]))
  BY <1>1, StackTypes, UpperEndPop
<1>5. ASSUME NEW q \in Paths, RollbackFile(q)
      PROVE  UpperEnd(undo'[p], stacks'[p])
  <2>1. stacks \in [Paths -> Seq(Content)] /\ undo \in [Paths -> Seq(Content)]
    BY DEF SessionTypeOK, AgentTypeOK, StoreTypeOK
  <2> QED
    BY <1>1, <1>4, <1>5, <2>1 DEF RollbackFile, Front
<1>6. CASE RollbackAll
  BY <1>4, <1>6 DEF RollbackAll, Front
<1>7. CASE Restart
  BY <1>7 DEF Restart, Nothing, UpperEnd
<1>8. CASE \/ TalkStep /\ Observe({}, {})
           \/ FileStep
           \/ Interference
           \/ Checkpoint /\ Observe(Tracked \cap present, {})
  BY <1>2, <1>8, ObservedSteps
<1> QED
  BY <1>3, <1>5, <1>6, <1>7, <1>8 DEF SessionNext

(* /rollback gives each file the text that is owed: the one it had before  *)
(* the last change the store has seen.                                     *)
THEOREM RollbackRestores == SessionSpec => RollbackUndoes
<1> DEFINE Inv == SessionTypeOK /\ UndoInv
           Restores == \A p \in Paths :
                         (RollbackFile(p) \/ RollbackAll) /\ undo[p] # <<>>
                           => disk'[p] = Top(undo[p])
<1>1. SessionInit => UndoInv
  BY UndoInitial
<1>2. Inv /\ [SessionNext]_sessionVars => UndoInv'
  <2>1. CASE SessionNext
    BY <2>1, UndoInductive
  <2>2. CASE UNCHANGED sessionVars
    BY <2>2 DEF UndoInv, sessionVars, storeVars, historyVars
  <2> QED
    BY <2>1, <2>2
<1>3. Inv => Restores
  <2> SUFFICES ASSUME Inv, NEW p \in Paths, RollbackFile(p) \/ RollbackAll, undo[p] # <<>>
               PROVE  disk'[p] = Top(undo[p])
    OBVIOUS
  <2>1. stacks[p] # <<>> /\ Top(stacks[p]) = Top(undo[p])
    BY StackTypes, UpperEndTop DEF UndoInv
  <2>2. CASE RollbackFile(p)
    BY <2>1, <2>2 DEF RollbackFile, WriteFile, SessionTypeOK, AgentTypeOK, StoreTypeOK
  <2>3. CASE RollbackAll
    BY <2>1, <2>3 DEF RollbackAll, Tracked
  <2> QED
    BY <2>2, <2>3
<1>4. SessionSpec => []Inv
  BY <1>1, <1>2, SessionTypes, PTL DEF SessionSpec
<1>5. SessionSpec => [][Restores]_sessionVars
  BY <1>3, <1>4, PTL
<1> QED
  BY <1>5 DEF RollbackUndoes

-----------------------------------------------------------------------------
(* The bottoms of the stacks.                                              *)

LEMMA OriginalInductive ==
  ASSUME SessionTypeOK, OriginalKept, SessionNext
  PROVE  OriginalKept'
<1> SUFFICES ASSUME NEW p \in Paths, p \notin strayed'
             PROVE  IF stacks'[p] = <<>> THEN disk'[p] = first'[p]
                                         ELSE stacks'[p][1] = first'[p]
  BY DEF OriginalKept
<1> DEFINE Kept == IF stacks'[p] = <<>> THEN disk'[p] = first'[p]
                                        ELSE stacks'[p][1] = first'[p]
<1>1. p \notin strayed =>
        IF stacks[p] = <<>> THEN disk[p] = first[p] ELSE stacks[p][1] = first[p]
  BY DEF OriginalKept
<1>2. ASSUME NEW saved \in SUBSET Paths, NEW changed \in SUBSET Paths,
             SnapshotsOf(saved), Observe(saved, changed)
      PROVE  Kept
  <2>1. p \notin strayed /\ ~Strays(p, saved) /\ first' = first
    BY <1>2 DEF Observe
  <2>2. CASE p \in saved
    <3>1. stacks'[p] = Push(stacks[p], disk[p]) /\ Len(stacks[p]) # MaxPerFile
      BY <1>2, <2>1, <2>2 DEF SnapshotsOf, Strays
    <3>2. stacks'[p] = Append(stacks[p], disk[p])
      BY <3>1, StackTypes DEF Push
    <3>3. stacks'[p] # <<>>
      BY <3>2, StackTypes
    <3>4. CASE stacks[p] = <<>>
      BY <1>1, <2>1, <3>2, <3>3, <3>4, StackTypes
    <3>5. CASE stacks[p] # <<>>
      <4>1. stacks'[p][1] = stacks[p][1]
        BY <3>2, <3>5, StackTypes
      <4> QED
        BY <1>1, <2>1, <3>3, <3>5, <4>1
    <3> QED
      BY <3>4, <3>5
  <2>3. CASE p \notin saved
    BY <1>1, <1>2, <2>1, <2>3 DEF SnapshotsOf, Strays
  <2> QED
    BY <2>2, <2>3
<1>3. ASSUME NEW m \in {"run", "stream"}, Start(m) PROVE Kept
  BY <1>1, <1>3 DEF Start, StartTask, storeVars, fileVars
<1>4. stacks[p] # <<>> => Popped(stacks[p]) # <<>> /\ Popped(stacks[p])[1] = stacks[p][1]
  <2>1. /\ stacks[p] \in Seq(Content)
        /\ Popped(stacks[p]) \in Seq(Content)
        /\ Len(Popped(stacks[p])) = IF Len(stacks[p]) <= 1 THEN Len(stacks[p])
                                                           ELSE Len(stacks[p]) - 1
        /\ \A i \in 1..Len(Popped(stacks[p])) : Popped(stacks[p])[i] = stacks[p][i]
    BY StackTypes, PoppedFacts
  <2> HAVE stacks[p] # <<>>
  <2>2. Len(Popped(stacks[p])) >= 1
    BY <2>1
  <2> QED
    BY <2>1, <2>2
<1>5. ASSUME NEW q \in Paths, RollbackFile(q) PROVE Kept
  <2>1. stacks \in [Paths -> Seq(Content)] /\ disk \in [Paths -> Content]
    BY DEF SessionTypeOK, AgentTypeOK, StoreTypeOK
  <2>2. CASE p = q
    BY <1>1, <1>4, <1>5, <2>1, <2>2 DEF RollbackFile
  <2>3. CASE p # q
    BY <1>1, <1>5, <2>1, <2>3 DEF RollbackFile, WriteFile
  <2> QED
    BY <2>2, <2>3
<1>6. CASE RollbackAll
  <2>1. CASE stacks[p] = <<>>
    <3>1. Popped(stacks[p]) = <<>>
      BY <2>1 DEF Popped
    <3> QED
      BY <1>1, <1>6, <2>1, <3>1 DEF RollbackAll, Tracked
  <2>2. CASE stacks[p] # <<>>
    BY <1>1, <1>4, <1>6, <2>2 DEF RollbackAll
  <2> QED
    BY <2>1, <2>2
<1>7. CASE Restart
  BY <1>7 DEF Restart, Nothing, fileVars
<1>8. CASE \/ TalkStep /\ Observe({}, {})
           \/ FileStep
           \/ Interference
           \/ Checkpoint /\ Observe(Tracked \cap present, {})
  BY <1>2, <1>8, ObservedSteps
<1> QED
  BY <1>3, <1>5, <1>6, <1>7, <1>8 DEF SessionNext

(* The bottom of a stack is the text from the start of the program, for    *)
(* every file whose changes the store has all seen and kept.               *)
THEOREM OriginalsStay == SessionSpec => []OriginalKept
<1>1. SessionInit => OriginalKept
  BY DEF SessionInit, AgentInit, StoreInit, OriginalKept
<1>2. SessionTypeOK /\ OriginalKept /\ [SessionNext]_sessionVars => OriginalKept'
  <2>1. CASE UNCHANGED sessionVars
    BY <2>1 DEF OriginalKept, sessionVars, storeVars, fileVars, historyVars
  <2> QED
    BY <2>1, OriginalInductive
<1> QED
  BY <1>1, <1>2, SessionTypes, PTL DEF SessionSpec

-----------------------------------------------------------------------------
(* The report of a task.                                                   *)

LEMMA ReportInductive ==
  ASSUME SessionTypeOK, ReportNamesEveryChange, SessionNext
  PROVE  ReportNamesEveryChange'
<1> SUFFICES ASSUME pc' # "idle", NEW p \in Paths, disk'[p] # before'[p]
             PROVE  p \in allWrote' \cup outside'
  BY DEF ReportNamesEveryChange
<1>1. pc # "idle" /\ disk[p] # before[p] => p \in allWrote \cup outside
  BY DEF ReportNamesEveryChange
<1>2. ASSUME NEW m \in {"run", "stream"}, Start(m) PROVE FALSE
  BY <1>2 DEF Start, StartTask, storeVars, fileVars
<1>3. CASE TalkStep /\ Observe({}, {})
  <2>1. pc # "idle" /\ UNCHANGED <<disk, allWrote>>
    BY <1>3 DEF TalkStep, CallFails, CallAborts, CallAnswers, HookBlocks, Ask, Deny,
                CheckFiles, AskCommand, DenyCommand, GrantCommand, CommandEnds,
                AllCarriedOut, storeVars, fileVars
  <2> QED
    BY <1>1, <1>3, <2>1 DEF Observe
<1>4. CASE FileStep
  <2> DEFINE q == Head(todo).path
  <2>1. pc = "consent" /\ before' = before
    BY <1>4 DEF FileStep, Apply, ApplyFails, ApplyTruncates, Observe
  <2>2. disk \in [Paths -> Content] /\ q \in Paths
    BY <2>1, SavedFiles DEF Action, SessionTypeOK, AgentTypeOK, StoreTypeOK
  <2>3. CASE Apply /\ Observe(ToSave, {})
    <3>1. allWrote' = allWrote \cup {q} /\ outside' = outside
      BY <2>3 DEF Apply, Report, Observe
    <3>2. p # q => disk'[p] = disk[p]
      BY <2>2, <2>3 DEF Apply, Perform, WriteFile, DeleteFile
    <3> QED
      BY <1>1, <2>1, <3>1, <3>2
  <2>4. CASE ApplyFails /\ Observe(ToSave, {})
    BY <1>1, <2>1, <2>4 DEF ApplyFails, fileVars, Observe
  <2>5. CASE ApplyTruncates /\ Observe(ToSave, AskedFor)
    <3>1. allWrote' = allWrote /\ outside' = outside \cup {q}
      BY <2>5 DEF ApplyTruncates, Observe, AskedFor
    <3>2. p # q => disk'[p] = disk[p]
      BY <2>2, <2>5 DEF ApplyTruncates, WriteFile
    <3> QED
      BY <1>1, <2>1, <3>1, <3>2
  <2> QED
    BY <1>4, <2>3, <2>4, <2>5 DEF FileStep
<1>5. ASSUME NEW q \in Paths, NEW text \in OutsideTexts,
             CommandWrites(q, text) \/ UserEdits(q, text), Observe({}, {q})
      PROVE  p \in allWrote' \cup outside'
  <2>1. pc # "idle" /\ allWrote' = allWrote
    BY <1>5 DEF CommandWrites, UserEdits, agentVars
  <2>2. before' = before /\ outside' = outside \cup {q}
    BY <1>5 DEF Observe
  <2>3. p # q => disk'[p] = disk[p]
    BY <1>5 DEF CommandWrites, UserEdits, WriteFile, SessionTypeOK, AgentTypeOK, StoreTypeOK
  <2> QED
    BY <1>1, <2>1, <2>2, <2>3
<1>6. CASE \/ \E q \in Paths : RollbackFile(q)
           \/ RollbackAll
           \/ Checkpoint
           \/ Restart
  BY <1>6 DEF RollbackFile, RollbackAll, Checkpoint, Restart, agentVars
<1> QED
  BY <1>2, <1>3, <1>4, <1>5, <1>6 DEF SessionNext, Interference

(* While a task runs, and so when it ends, its list of written files names *)
(* every file it has changed and knows to have changed.                    *)
THEOREM ReportComplete == SessionSpec => []ReportNamesEveryChange
<1>1. SessionInit => ReportNamesEveryChange
  BY DEF SessionInit, AgentInit, ReportNamesEveryChange
<1>2. SessionTypeOK /\ ReportNamesEveryChange /\ [SessionNext]_sessionVars
        => ReportNamesEveryChange'
  <2>1. CASE UNCHANGED sessionVars
    BY <2>1 DEF ReportNamesEveryChange, sessionVars, storeVars, fileVars, agentVars,
                historyVars
  <2> QED
    BY <2>1, ReportInductive
<1> QED
  BY <1>1, <1>2, SessionTypes, PTL DEF SessionSpec

=============================================================================

--------------------------- MODULE ToolTurnProofs ---------------------------
(***************************************************************************)
(* The safety properties of ToolTurn, for all sets of files, texts,        *)
(* commands and rounds, all settings and every bound: the settings bind    *)
(* every call, the history stays in pairs, and the calls on a file keep    *)
(* their order.                                                            *)
(***************************************************************************)
EXTENDS ToolTurn, SequenceTheorems, TLAPS

-----------------------------------------------------------------------------
(* Question and answer.                                                    *)

LEMMA Parity ==
  ASSUME NEW n \in Nat
  PROVE  /\ n % 2 = 0 => (n + 1) % 2 = 1 /\ (n + 2) % 2 = 0
         /\ n % 2 = 0 /\ n > 0 => n >= 2 /\ (n - 1) % 2 = 1
OBVIOUS

LEMMA FrontFacts ==
  ASSUME NEW s \in Seq(Roles), s # <<>>
  PROVE  /\ Front(s) \in Seq(Roles)
         /\ Len(Front(s)) = Len(s) - 1
         /\ \A i \in 1..Len(s) - 1 : Front(s)[i] = s[i]
         /\ Last(s) = s[Len(s)] /\ Last(s) \in Roles
<1>1. Len(s) \in Nat \ {0}
  OBVIOUS
<1> DEFINE n == Len(s) - 1
<1>2. /\ SubSeq(s, 1, n) \in Seq(Roles)
      /\ Len(SubSeq(s, 1, n)) = IF 1 <= n THEN n - 1 + 1 ELSE 0
      /\ \A i \in 1..n - 1 + 1 : SubSeq(s, 1, n)[i] = s[1 + i - 1]
  <2>1. n \in Int /\ 1 \in Int /\ \A i \in 1..n : s[i] \in Roles
    BY <1>1
  <2> HIDE DEF n
  <2> QED
    BY <2>1, SubSeqProperties
<1>3. /\ Front(s) \in Seq(Roles)
      /\ Len(Front(s)) = Len(s) - 1
      /\ \A i \in 1..Len(s) - 1 : Front(s)[i] = s[i]
  <2> DEFINE f == SubSeq(s, 1, n)
  <2>1. Front(s) = f
    BY DEF Front
  <2>2. n \in Nat /\ n = Len(s) - 1
    BY <1>1
  <2>3. f \in Seq(Roles) /\ Len(f) = (IF 1 <= n THEN n - 1 + 1 ELSE 0)
        /\ \A i \in 1..n - 1 + 1 : f[i] = s[1 + i - 1]
    BY <1>2
  <2> HIDE DEF f, n
  <2>4. Len(f) = n
    BY <2>2, <2>3
  <2>5. \A i \in 1..n : f[i] = s[i]
    BY <2>2, <2>3
  <2> QED
    BY <2>1, <2>2, <2>3, <2>4, <2>5
<1>4. Last(s) = s[Len(s)] /\ Last(s) \in Roles
  BY <1>1 DEF Last
<1> QED
  BY <1>3, <1>4

\* A question and its answer keep the pairs; taking back the question, too.
LEMMA QuestionAndAnswer ==
  ASSUME NEW s \in Seq(Roles)
  PROVE  /\ Append(s, "user") \in Seq(Roles)
         /\ Append(s, "assistant") \in Seq(Roles)
         /\ Append(s, "user") # <<>>
         /\ Last(Append(s, "user")) = "user"
         /\ Paired(s) => Paired(Append(Append(s, "user"), "assistant"))
<1>1. /\ Append(s, "user") \in Seq(Roles)
      /\ Append(s, "assistant") \in Seq(Roles)
      /\ Append(s, "user") # <<>>
      /\ Last(Append(s, "user")) = "user"
  BY DEF Roles, Last
<1> DEFINE t == Append(Append(s, "user"), "assistant")
<1>2. /\ t \in Seq(Roles) /\ Len(t) = Len(s) + 2 /\ Len(s) \in Nat
      /\ \A i \in 1..Len(s) : t[i] = s[i]
      /\ t[Len(s) + 1] = "user" /\ t[Len(s) + 2] = "assistant"
  BY DEF Roles
<1>3. Paired(s) => Paired(t)
  <2> HIDE DEF t
  <2> SUFFICES ASSUME Paired(s) PROVE Paired(t)
    OBVIOUS
  <2>1. CASE s # <<>> /\ s[1] = "system"
    <3>1. t # <<>> /\ t[1] = "system" /\ (Len(s) - 1) % 2 = 0
      BY <1>2, <2>1 DEF Paired
    <3>2. (Len(t) - 1) % 2 = 0
      BY <1>2, <3>1
    <3>3. ASSUME NEW i \in 2..Len(t)
          PROVE  t[i] = IF (i - 1) % 2 = 1 THEN "user" ELSE "assistant"
      <4>1. CASE i <= Len(s)
        BY <1>2, <2>1, <4>1 DEF Paired
      <4>2. CASE i = Len(s) + 1
        BY <1>2, <3>1, <4>2
      <4>3. CASE i = Len(s) + 2
        BY <1>2, <3>1, <4>3
      <4> QED
        BY <1>2, <4>1, <4>2, <4>3
    <3> QED
      BY <3>1, <3>2, <3>3 DEF Paired
  <2>2. CASE ~(s # <<>> /\ s[1] = "system")
    <3>1. t # <<>> /\ t[1] # "system" /\ Len(s) % 2 = 0
      <4>1. t # <<>> /\ t[1] # "system"
        BY <1>2, <2>2
      <4>2. (Len(s) - 0) % 2 = 0
        BY <2>2 DEF Paired
      <4> QED
        BY <1>2, <4>1, <4>2
    <3>2. Len(t) % 2 = 0
      BY <1>2, <3>1
    <3>3. ASSUME NEW i \in 1..Len(t)
          PROVE  t[i] = IF i % 2 = 1 THEN "user" ELSE "assistant"
      <4>1. CASE i <= Len(s)
        BY <1>2, <2>2, <4>1 DEF Paired
      <4>2. CASE i = Len(s) + 1
        BY <1>2, <3>1, <4>2
      <4>3. CASE i = Len(s) + 2
        BY <1>2, <3>1, <4>3
      <4> QED
        BY <1>2, <4>1, <4>2, <4>3
    <3> QED
      BY <3>1, <3>2, <3>3 DEF Paired
  <2> QED
    BY <2>1, <2>2
<1> QED
  BY <1>1, <1>3

\* A question whose answer would complete a pair is taken back.
LEMMA QuestionTakenBack ==
  ASSUME NEW s \in Seq(Roles), s # <<>>, Last(s) = "user",
         Paired(Append(s, "assistant"))
  PROVE  Paired(Front(s))
<1> DEFINE t == Append(s, "assistant")
           f == Front(s)
<1>1. /\ t \in Seq(Roles) /\ Len(t) = Len(s) + 1 /\ Len(s) \in Nat \ {0}
      /\ \A i \in 1..Len(s) : t[i] = s[i]
  BY DEF Roles
<1>2. /\ f \in Seq(Roles) /\ Len(f) = Len(s) - 1
      /\ \A i \in 1..Len(s) - 1 : f[i] = s[i]
      /\ s[Len(s)] = "user"
  BY FrontFacts
<1> HIDE DEF t, f
<1>3. CASE s[1] = "system"
  <2>1. t # <<>> /\ t[1] = "system" /\ Len(s) >= 2
    BY <1>1, <1>2, <1>3
  <2>2. f # <<>> /\ f[1] = "system"
    BY <1>1, <1>2, <1>3, <2>1
  <2>3. (Len(f) - 1) % 2 = 0
    BY <1>1, <1>2, <2>1 DEF Paired, t
  <2>4. \A i \in 2..Len(f) : f[i] = IF (i - 1) % 2 = 1 THEN "user" ELSE "assistant"
    BY <1>1, <1>2, <2>1 DEF Paired, t
  <2> QED
    <3>1. Paired(f)
      BY <2>2, <2>3, <2>4 DEF Paired
    <3> QED
      BY <3>1 DEF f
<1>4. CASE s[1] # "system"
  <2>1. t # <<>> /\ t[1] # "system"
    BY <1>1, <1>4
  <2>2. ~(f # <<>> /\ f[1] = "system")
    BY <1>1, <1>2, <1>4
  <2>3. Len(f) % 2 = 0
    BY <1>1, <1>2, <2>1 DEF Paired, t
  <2>4. \A i \in 1..Len(f) : f[i] = IF i % 2 = 1 THEN "user" ELSE "assistant"
    BY <1>1, <1>2, <2>1 DEF Paired, t
  <2> QED
    <3>1. Len(f) - 0 = Len(f)
      BY <1>2
    <3>2. Paired(f)
      BY <1>2, <2>2, <2>3, <2>4, <3>1 DEF Paired
    <3> QED
      BY <3>2 DEF f
<1> QED
  BY <1>3, <1>4

\* undo() takes back a pair.
LEMMA PairTakenBack ==
  ASSUME NEW s \in Seq(Roles), Len(s) >= 2, Paired(s)
  PROVE  Paired(Dropped(Dropped(s, "assistant"), "user"))
<1> DEFINE f == Front(s)
<1>1. /\ s # <<>> /\ Len(s) \in Nat
      /\ f \in Seq(Roles) /\ Len(f) = Len(s) - 1
      /\ \A i \in 1..Len(s) - 1 : f[i] = s[i]
  BY FrontFacts
<1>2. s[Len(s)] = "assistant" /\ s[Len(s) - 1] = "user"
  <2>1. CASE s[1] = "system"
    <3>1. (Len(s) - 1) % 2 = 0
      BY <1>1, <2>1 DEF Paired
    <3>2. Len(s) >= 3 /\ ((Len(s) - 1) - 1) % 2 = 1
      <4> DEFINE n == Len(s) - 1
      <4>1. n \in Nat /\ n > 0 /\ n % 2 = 0
        BY <1>1, <3>1
      <4> HIDE DEF n
      <4>2. n >= 2 /\ (n - 1) % 2 = 1
        BY <4>1, Parity
      <4> QED
        BY <1>1, <4>2 DEF n
    <3>3. \A i \in 2..Len(s) : s[i] = IF (i - 1) % 2 = 1 THEN "user" ELSE "assistant"
      BY <1>1, <2>1 DEF Paired
    <3> QED
      BY <1>1, <3>1, <3>2, <3>3
  <2>2. CASE s[1] # "system"
    <3>1. Len(s) % 2 = 0
      BY <1>1, <2>2 DEF Paired
    <3>2. (Len(s) - 1) % 2 = 1
      BY <1>1, <3>1, Parity
    <3>3. \A i \in 1..Len(s) : s[i] = IF i % 2 = 1 THEN "user" ELSE "assistant"
      BY <1>1, <2>2 DEF Paired
    <3> QED
      BY <1>1, <3>1, <3>2, <3>3
  <2> QED
    BY <2>1, <2>2
<1>3. Last(s) = "assistant" /\ f # <<>> /\ Last(f) = "user"
  BY <1>1, <1>2 DEF Last
<1>4. Append(f, "assistant") = s
  <2>1. Append(f, "assistant") \in Seq(Roles) /\ Len(Append(f, "assistant")) = Len(s)
    BY <1>1 DEF Roles
  <2>2. \A i \in 1..Len(s) : Append(f, "assistant")[i] = s[i]
    BY <1>1, <1>2
  <2> QED
    BY <1>1, <2>1, <2>2
<1>5. Paired(Front(f))
  BY <1>1, <1>3, <1>4, QuestionTakenBack
<1> QED
  BY <1>1, <1>3, <1>5 DEF Dropped

-----------------------------------------------------------------------------
(* The calls of a round.                                                   *)

USE ToolTurnAssumption

\* What the proofs need of the types.
CallTypes ==
  /\ cfg \in Configs
  /\ calls \in Rounds \cup {<<>>}
  /\ stage \in [DOMAIN calls -> Stages]
  /\ result \in [DOMAIN calls -> Outcomes \cup Texts]
  /\ disk \in [Files -> Texts]

\* What a call is in the middle of, and the tool it calls.
StageInv ==
  \A i \in DOMAIN calls :
    /\ stage[i] = "writing" => calls[i].tool = "write_file"
    /\ stage[i] = "patching" => calls[i].tool = "apply_patch"
    /\ stage[i] \in {"ready", "asked again"} => calls[i].tool = "run_command"
    /\ result[i] = "ran" => calls[i].tool = "run_command"

TurnInv == CallTypes /\ StageInv

LEMMA NoCalls == ASSUME NEW S PROVE <<>> \in [DOMAIN <<>> -> S] /\ DOMAIN <<>> = {}
<1>1. <<>> \in Seq(S) /\ Len(<<>>) = 0
  OBVIOUS
<1>2. DOMAIN <<>> = 1..0
  BY <1>1
<1> QED
  BY <1>1, <1>2

LEMMA TurnInvInit == Init => TurnInv
<1> SUFFICES ASSUME Init PROVE TurnInv
  OBVIOUS
<1>1. DOMAIN calls = {} /\ stage \in [DOMAIN calls -> Stages]
      /\ result \in [DOMAIN calls -> Outcomes \cup Texts]
  BY NoCalls DEF Init
<1> QED
  BY <1>1 DEF Init, TurnInv, CallTypes, StageInv

\* A turn that ends, or a round, leaves no calls.
LEMMA NoCallsLeft ==
  ASSUME TurnInv, cfg' = cfg \/ cfg' \in Configs, UNCHANGED disk,
         calls' = <<>>, stage' = <<>>, result' = <<>>
  PROVE  TurnInv'
<1>1. DOMAIN calls' = {} /\ stage' \in [DOMAIN calls' -> Stages]
      /\ result' \in [DOMAIN calls' -> Outcomes \cup Texts]
  BY NoCalls
<1> QED
  BY <1>1 DEF TurnInv, CallTypes, StageInv

\* The i-th call moves on to a place that fits its tool.
LEMMA MovesOn ==
  ASSUME TurnInv, TurnGoesOn, NEW i \in DOMAIN calls, NEW place \in Stages,
         Goto(i, place), disk' \in [Files -> Texts],
         place = "writing" => calls[i].tool = "write_file",
         place = "patching" => calls[i].tool = "apply_patch",
         place \in {"ready", "asked again"} => calls[i].tool = "run_command"
  PROVE  TurnInv'
BY DEF TurnInv, CallTypes, StageInv, Goto, TurnGoesOn, sessionVars

LEMMA ComesToAnEnd ==
  ASSUME TurnInv, TurnGoesOn, NEW i \in DOMAIN calls, NEW outcome \in Outcomes \cup Texts,
         Ends(i, outcome), disk' \in [Files -> Texts],
         outcome = "ran" => calls[i].tool = "run_command"
  PROVE  TurnInv'
BY DEF TurnInv, CallTypes, StageInv, Ends, TurnGoesOn, sessionVars, Stages

LEMMA CallFacts ==
  ASSUME TurnInv, NEW i \in DOMAIN calls
  PROVE  /\ calls[i] \in ToolCall
         /\ OnFile(i) => Target(i) \in Files
         /\ CallKind(i) \in Kinds
<1>1. calls \in Seq(ToolCall)
  BY DEF TurnInv, CallTypes
<1>2. calls[i] \in ToolCall
  BY <1>1
<1>3. OnFile(i) => calls[i].path \in Spellings
  BY <1>2 DEF ToolCall, OnFile
<1> QED
  BY <1>2, <1>3 DEF Target, CallKind, KindOf, Kinds

LEMMA TurnInvStep == TurnInv /\ [Next]_vars => TurnInv'
<1> SUFFICES ASSUME TurnInv, [Next]_vars PROVE TurnInv'
  OBVIOUS
<1> USE DEF TurnInv, CallTypes
<1>1. CASE SessionStep
  <2>1. CASE Quit
    BY <2>1, NoCallsLeft DEF Quit, StartAgain
  <2>2. CASE ChangeSettings \/ Clear \/ Undo \/ Compact \/ Resume \/ Send
    BY <2>2 DEF ChangeSettings, Clear, Undo, Compact, Resume, Send, BetweenTurns,
      roundVars, StageInv
  <2> QED
    BY <1>1, <2>1, <2>2 DEF SessionStep
<1>2. CASE StreamStep
  BY <1>2, NoCallsLeft DEF StreamStep, StreamEnds, StreamFails, TurnOver
<1>3. CASE ModelStep
  <2>1. CASE ModelCalls
    BY <2>1 DEF ModelCalls, sessionVars, Stages, Outcomes, StageInv
  <2>2. CASE ModelAnswers \/ ModelFails \/ NextRound \/ LimitReached
    BY <2>2, NoCallsLeft DEF ModelAnswers, ModelFails, NextRound, LimitReached,
      TurnOver, sessionVars
  <2> QED
    BY <1>3, <2>1, <2>2 DEF ModelStep
<1>4. ASSUME NEW i \in DOMAIN calls, AskStep(i) PROVE TurnInv'
  <2>1. CASE CallTool(i)
    <3>1. Goto(i, "asked") \/ Goto(i, "cleared") \/ Ends(i, "denied")
      BY <2>1 DEF CallTool, Gate
    <3> QED
      BY <2>1, <3>1, MovesOn, ComesToAnEnd DEF CallTool, Stages, Asked, Outcomes
  <2>2. CASE CommandGate(i)
    <3>1. Goto(i, "asked again") \/ Goto(i, "ready") \/ Ends(i, "denied")
      BY <2>2 DEF CommandGate, Gate
    <3> QED
      BY <2>2, <3>1, MovesOn, ComesToAnEnd DEF CommandGate, Stages, Asked, Outcomes
  <2>3. CASE AnswerYes(i)
    <3>1. CASE stage[i] = "asked"
      BY <2>3, <3>1, MovesOn DEF AnswerYes, Stages
    <3>2. CASE stage[i] = "asked again"
      BY <2>3, <3>2, MovesOn DEF AnswerYes, Stages, StageInv
    <3> QED
      BY <2>3, <3>1, <3>2 DEF AnswerYes, Asked
  <2>4. CASE AnswerNo(i) \/ PromptBreaks(i)
    BY <2>4, ComesToAnEnd DEF AnswerNo, PromptBreaks, Outcomes
  <2>5. CASE TurnFails(i)
    BY <2>5, NoCallsLeft DEF TurnFails, TurnOver
  <2> QED
    BY <1>4, <2>1, <2>2, <2>3, <2>4, <2>5 DEF AskStep
<1>5. ASSUME NEW i \in DOMAIN calls, ToolStep(i) PROVE TurnInv'
  <2>1. CASE RunCommand(i)
    BY <2>1, ComesToAnEnd DEF RunCommand, Outcomes, StageInv
  <2>2. CASE ToolFails(i) \/ WriteCut(i)
    BY <2>2, ComesToAnEnd DEF ToolFails, WriteCut, Outcomes
  <2>3. CASE ReadFile(i)
    <3>1. disk[Target(i)] \in Texts
      BY <2>3, CallFacts DEF ReadFile, Cleared, OnFile
    <3>2. disk[Target(i)] # "ran"
      BY <3>1 DEF Outcomes
    <3> QED
      BY <2>3, <3>1, <3>2, ComesToAnEnd DEF ReadFile
  <2>4. CASE OpenForWrite(i)
    BY <2>4, MovesOn DEF OpenForWrite, Cleared, Stages
  <2>5. CASE Write(i)
    <3>1. calls[i].text \in Texts
      BY <2>5, CallFacts DEF Write, StageInv, ToolCall
    <3>2. disk' \in [Files -> Texts]
      BY <2>5, <3>1 DEF Write
    <3> QED
      BY <2>5, <3>2, ComesToAnEnd DEF Write, Outcomes
  <2>6. CASE ReadForPatch(i)
    BY <2>6, MovesOn, ComesToAnEnd DEF ReadForPatch, Cleared, Stages, Outcomes
  <2>7. CASE ReplaceFile(i)
    <3>1. calls[i].new \in Texts
      BY <2>7, CallFacts DEF ReplaceFile, StageInv, ToolCall
    <3>2. disk' \in [Files -> Texts]
      BY <2>7, <3>1 DEF ReplaceFile
    <3> QED
      BY <2>7, <3>2, ComesToAnEnd DEF ReplaceFile, Outcomes
  <2> QED
    BY <1>5, <2>1, <2>2, <2>3, <2>4, <2>5, <2>6, <2>7 DEF ToolStep
<1>6. CASE Stop
  BY <1>6, NoCallsLeft DEF Stop, StartAgain
<1>7. CASE DenialExpires
  BY <1>7 DEF DenialExpires, sessionVars, roundVars, StageInv
<1>8. CASE UNCHANGED vars
  BY <1>8 DEF vars, sessionVars, roundVars, StageInv
<1> QED
  BY <1>1, <1>2, <1>3, <1>4, <1>5, <1>6, <1>7, <1>8 DEF Next, TurnStep
-----------------------------------------------------------------------------
(* The settings bind.  A call that has passed a gate was not forbidden     *)
(* there, and the settings do not change while calls are made.             *)

BoundCall(i) ==
  /\ stage[i] \notin {"todo", "over"} => ~Forbids(cfg.rules, CallKind(i))
  /\ stage[i] \in {"ready", "asked again"} => calls[i].command \notin cfg.rules.deny
  /\ result[i] = "ran" =>
       ~Forbids(cfg.rules, "execute") /\ calls[i].command \notin cfg.rules.deny

BindInv ==
  /\ pc # "tools" => calls = <<>> /\ disk = before
  /\ \A i \in DOMAIN calls : BoundCall(i)
  /\ Forbids(cfg.rules, "write") => disk = before

\* At the first gate what is not refused is not forbidden; at the second,
\* it is not on the denylist.
LEMMA GateFacts ==
  ASSUME NEW rules, NEW kind \in Kinds
  PROVE  /\ ~Refused(rules, kind, "none") => ~Forbids(rules, kind)
         /\ \A command :
              ~Refused(rules, "execute", ListDecision(rules, command))
                => command \notin rules.deny
BY DEF Refused, Forbids, ListDecision, Kinds

LEMMA Empties ==
  ASSUME calls' = <<>>, before' = disk', TurnInv
  PROVE  BindInv'
<1>1. DOMAIN calls' = {}
  BY NoCalls
<1> QED
  BY <1>1 DEF BindInv

\* A call that moves on, or ends, when the other calls stay where they are.
LEMMA OneMoves ==
  ASSUME TurnInv, BindInv, TurnGoesOn, pc = "tools", NEW i \in DOMAIN calls,
         NEW place, NEW outcome,
         stage' = [stage EXCEPT ![i] = place],
         result' = [result EXCEPT ![i] = outcome] \/ UNCHANGED result,
         BoundCall(i)',
         UNCHANGED disk \/ ~Forbids(cfg.rules, "write")
  PROVE  BindInv'
<1>1. ASSUME NEW j \in DOMAIN calls, j # i PROVE BoundCall(j)'
  <2>1. stage'[j] = stage[j] /\ result'[j] = result[j]
    BY <1>1 DEF TurnInv, CallTypes
  <2>2. BoundCall(j)
    BY <1>1 DEF BindInv
  <2> QED
    BY <2>1, <2>2 DEF BoundCall, TurnGoesOn, sessionVars, CallKind
<1> QED
  BY <1>1 DEF BindInv, TurnGoesOn, sessionVars

LEMMA BindInvStep == TurnInv /\ BindInv /\ [Next]_vars => BindInv'
<1> SUFFICES ASSUME TurnInv, BindInv, [Next]_vars PROVE BindInv'
  OBVIOUS
<1>1. CASE SessionStep
  <2>1. CASE Quit
    BY <2>1, Empties DEF Quit, StartAgain
  <2>2. CASE ChangeSettings \/ Clear \/ Undo \/ Compact \/ Resume \/ Send
    <3>1. calls' = <<>> /\ before' = disk'
      BY <2>2 DEF ChangeSettings, Clear, Undo, Compact, Resume, Send, BetweenTurns,
        AtPrompt, roundVars, BindInv
    <3> QED
      BY <3>1, Empties
  <2> QED
    BY <1>1, <2>1, <2>2 DEF SessionStep
<1>2. CASE StreamStep
  BY <1>2, Empties DEF StreamStep, StreamEnds, StreamFails, TurnOver
<1>3. CASE ModelStep
  <2>1. CASE ModelCalls
    <3>1. \A i \in DOMAIN calls' : BoundCall(i)'
      BY <2>1 DEF ModelCalls, BoundCall
    <3> QED
      BY <2>1, <3>1 DEF ModelCalls, BindInv
  <2>2. CASE ModelAnswers \/ ModelFails \/ NextRound \/ LimitReached
    BY <2>2, Empties DEF ModelAnswers, ModelFails, NextRound, LimitReached, TurnOver
  <2> QED
    BY <1>3, <2>1, <2>2 DEF ModelStep
<1>4. ASSUME NEW i \in DOMAIN calls, AskStep(i) PROVE BindInv'
  <2> DEFINE kind == CallKind(i)
  <2>1. kind \in Kinds /\ BoundCall(i)
    BY CallFacts DEF BindInv
  <2>2. CASE CallTool(i)
    <3>1. BoundCall(i)'
      BY <2>1, <2>2, GateFacts DEF CallTool, Gate, Goto, Ends, TurnInv, CallTypes,
        TurnGoesOn, sessionVars, BoundCall, CallKind
    <3> QED
      BY <2>2, <3>1, OneMoves DEF CallTool, CallStep, Gate, Goto, Ends
  <2>3. CASE CommandGate(i)
    <3>1. kind = "execute"
      BY <2>3 DEF CommandGate, CallKind, KindOf, OpType
    <3>2. BoundCall(i)'
      BY <2>1, <2>3, <3>1, GateFacts DEF CommandGate, Gate, Goto, Ends, TurnInv,
        CallTypes, TurnGoesOn, sessionVars, BoundCall, CallKind
    <3> QED
      BY <2>3, <3>2, OneMoves DEF CommandGate, CallStep, Gate, Goto, Ends
  <2>4. CASE AnswerYes(i)
    <3>1. BoundCall(i)'
      BY <2>1, <2>4 DEF AnswerYes, Asked, Goto, TurnInv, CallTypes, TurnGoesOn,
        sessionVars, BoundCall, CallKind
    <3> QED
      BY <2>4, <3>1, OneMoves DEF AnswerYes, CallStep, Goto
  <2>5. CASE AnswerNo(i) \/ PromptBreaks(i)
    <3>1. BoundCall(i)'
      BY <2>1, <2>5 DEF AnswerNo, PromptBreaks, Ends, TurnInv, CallTypes,
        TurnGoesOn, sessionVars, BoundCall, CallKind
    <3> QED
      BY <2>5, <3>1, OneMoves DEF AnswerNo, PromptBreaks, CallStep, Ends
  <2>6. CASE TurnFails(i)
    BY <2>6, Empties DEF TurnFails, TurnOver
  <2> QED
    BY <1>4, <2>2, <2>3, <2>4, <2>5, <2>6 DEF AskStep
<1>5. ASSUME NEW i \in DOMAIN calls, ToolStep(i) PROVE BindInv'
  <2> USE DEF TurnInv, CallTypes, TurnGoesOn, sessionVars
  <2>1. BoundCall(i)
    BY DEF BindInv
  <2>2. CASE RunCommand(i)
    <3>1. CallKind(i) = "execute"
      BY <2>2 DEF RunCommand, StageInv, CallKind, KindOf, OpType
    <3>2. BoundCall(i)'
      BY <2>1, <2>2, <3>1 DEF RunCommand, Ends, BoundCall, CallKind
    <3> QED
      BY <2>2, <3>2, OneMoves DEF RunCommand, CallStep, Ends
  <2>3. CASE ToolFails(i) \/ WriteCut(i)
    <3>1. BoundCall(i)'
      BY <2>1, <2>3 DEF ToolFails, WriteCut, Ends, BoundCall, CallKind
    <3> QED
      BY <2>3, <3>1, OneMoves DEF ToolFails, WriteCut, CallStep, Ends
  <2>4. CASE ReadFile(i)
    <3>1. disk[Target(i)] # "ran"
      BY <2>4, CallFacts DEF ReadFile, Cleared, OnFile, Outcomes
    <3>2. BoundCall(i)'
      BY <2>1, <2>4, <3>1 DEF ReadFile, Ends, BoundCall, CallKind
    <3> QED
      BY <2>4, <3>2, OneMoves DEF ReadFile, Cleared, CallStep, Ends
  <2>5. CASE OpenForWrite(i) \/ ReadForPatch(i) \/ Write(i) \/ ReplaceFile(i)
    <3>1. CallKind(i) = "write"
      BY <2>5 DEF OpenForWrite, ReadForPatch, Write, ReplaceFile, Cleared, StageInv,
        CallKind, KindOf, OpType
    <3>2. ~Forbids(cfg.rules, "write")
      BY <2>1, <2>5, <3>1 DEF OpenForWrite, ReadForPatch, Write, ReplaceFile, Cleared,
        BoundCall
    <3>3. BoundCall(i)'
      BY <2>1, <2>5, <3>1, <3>2 DEF OpenForWrite, ReadForPatch, Write, ReplaceFile,
        Cleared, Goto, Ends, BoundCall, CallKind
    <3> QED
      BY <2>5, <3>2, <3>3, OneMoves DEF OpenForWrite, ReadForPatch, Write, ReplaceFile,
        Cleared, CallStep, Goto, Ends
  <2> QED
    BY <1>5, <2>2, <2>3, <2>4, <2>5 DEF ToolStep
<1>6. CASE Stop
  BY <1>6, Empties DEF Stop, StartAgain
<1>7. CASE DenialExpires
  BY <1>7 DEF DenialExpires, sessionVars, roundVars, BindInv, BoundCall, CallKind
<1>8. CASE UNCHANGED vars
  BY <1>8 DEF vars, sessionVars, roundVars, BindInv, BoundCall, CallKind
<1> QED
  BY <1>1, <1>2, <1>3, <1>4, <1>5, <1>6, <1>7, <1>8 DEF Next, TurnStep

\* No command runs and no file changes that the settings forbid, whatever
\* else is asked and done at the same time.
THEOREM SettingsBind == Spec => []NothingForbidden
<1>1. Init => TurnInv /\ BindInv
  <2> SUFFICES ASSUME Init PROVE TurnInv /\ BindInv
    OBVIOUS
  <2>1. TurnInv /\ DOMAIN calls = {}
    BY TurnInvInit, NoCalls DEF Init
  <2> QED
    BY <2>1 DEF Init, BindInv
<1>2. TurnInv /\ BindInv /\ [Next]_vars => (TurnInv /\ BindInv)'
  BY TurnInvStep, BindInvStep
<1>3. BindInv => NothingForbidden
  BY DEF BindInv, BoundCall, NothingForbidden
<1> QED
  BY <1>1, <1>2, <1>3, PTL DEF Spec
-----------------------------------------------------------------------------
(* The history stays in pairs.                                             *)

HistoryInv ==
  /\ history \in Seq(Roles)
  /\ saved \in Seq(Roles)
  /\ ~AtPrompt => history # <<>> /\ Last(history) = "user"
  /\ HistoryPaired

LEMMA HistoryInvInit == Init => HistoryInv
<1>1. Paired(<<>>)
  BY DEF Paired
<1> QED
  BY <1>1 DEF Init, HistoryInv, HistoryPaired, AtPrompt

\* A turn ends with its question answered, or taken back.
LEMMA TurnOverKeepsPairs ==
  ASSUME HistoryInv, ~AtPrompt, pc' = "idle", UNCHANGED <<saved, torn>>,
         history' \in {Answered, Front(history)}
  PROVE  HistoryInv'
<1>1. history \in Seq(Roles) /\ history # <<>> /\ Last(history) = "user"
  BY DEF HistoryInv
<1>2. ~torn => Paired(Answered)
  BY DEF HistoryInv, HistoryPaired, Answered
<1>3. CASE history' = Answered
  BY <1>1, <1>2, <1>3, QuestionAndAnswer DEF HistoryInv, HistoryPaired, AtPrompt, Answered
<1>4. CASE history' = Front(history)
  <2>1. Front(history) \in Seq(Roles)
    BY <1>1, FrontFacts
  <2>2. ~torn => Paired(Front(history))
    BY <1>1, <1>2, QuestionTakenBack DEF Answered
  <2> QED
    BY <1>4, <2>1, <2>2 DEF HistoryInv, HistoryPaired, AtPrompt
<1> QED
  BY <1>3, <1>4

LEMMA StartAgainKeepsPairs ==
  ASSUME HistoryInv, StartAgain, saved' \in Seq(Roles)
  PROVE  HistoryInv'
<1>1. Paired(<<>>)
  BY DEF Paired
<1> QED
  BY <1>1 DEF StartAgain, HistoryInv, HistoryPaired, AtPrompt

LEMMA HistoryInvStep == HistoryInv /\ [Next]_vars => HistoryInv'
<1> SUFFICES ASSUME HistoryInv, [Next]_vars PROVE HistoryInv'
  OBVIOUS
<1> DEFINE Unmoved == UNCHANGED <<history, saved, torn>> /\ (AtPrompt' <=> AtPrompt)
<1>0. Unmoved => HistoryInv'
  BY DEF HistoryInv, HistoryPaired
<1>1. CASE SessionStep
  <2>1. CASE ChangeSettings
    BY <1>0, <2>1 DEF ChangeSettings, BetweenTurns, AtPrompt
  <2>2. CASE Clear
    <3>1. Paired(<<>>)
      BY DEF Paired
    <3> QED
      BY <2>2, <3>1 DEF Clear, BetweenTurns, HistoryInv, HistoryPaired, AtPrompt
  <2>3. CASE Undo
    <3>1. history' \in Seq(Roles)
      <4>1. \A t \in Seq(Roles) : \A role : Dropped(t, role) \in Seq(Roles)
        BY FrontFacts DEF Dropped
      <4> QED
        BY <2>3, <4>1 DEF Undo, HistoryInv
    <3>2. ~torn => Paired(history')
      BY <2>3, PairTakenBack DEF Undo, BetweenTurns, HistoryInv, HistoryPaired
    <3> QED
      BY <2>3, <3>1, <3>2 DEF Undo, BetweenTurns, HistoryInv, HistoryPaired, AtPrompt
  <2>4. CASE Compact
    <3>1. <<"system">> \in Seq(Roles) /\ Len(<<"system">>) = 1 /\ <<"system">>[1] = "system"
          /\ <<"system">> # <<>>
      BY DEF Roles
    <3>2. Paired(<<"system">>)
      BY <3>1 DEF Paired
    <3> QED
      BY <2>4, <3>1, <3>2 DEF Compact, BetweenTurns, HistoryInv, HistoryPaired, AtPrompt
  <2>5. CASE Quit
    <3>1. ASSUME NEW n \in 0..Len(history) PROVE SubSeq(history, 1, n) \in Seq(Roles)
      <4>1. \A i \in 1..n : history[i] \in Roles
        BY DEF HistoryInv
      <4> QED
        BY <4>1, SubSeqProperties
    <3>2. saved' \in Seq(Roles)
      BY <2>5, <3>1 DEF Quit, HistoryInv
    <3> QED
      BY <2>5, <3>2, StartAgainKeepsPairs DEF Quit
  <2>6. CASE Resume
    BY <2>6 DEF Resume, BetweenTurns, HistoryInv, HistoryPaired, AtPrompt
  <2>7. CASE Send
    <3>1. ~AtPrompt' /\ history' = Append(history, "user")
      BY <2>7 DEF Send, AtPrompt
    <3>2. ~torn => Paired(Append(history', "assistant"))
      BY <2>7, <3>1, QuestionAndAnswer DEF Send, HistoryInv, HistoryPaired
    <3> QED
      BY <2>7, <3>1, <3>2, QuestionAndAnswer DEF Send, HistoryInv, HistoryPaired
  <2> QED
    BY <1>1, <2>1, <2>2, <2>3, <2>4, <2>5, <2>6, <2>7 DEF SessionStep
<1>2. CASE StreamStep
  <2>1. ~AtPrompt => Dropped(history, "user") = Front(history)
    BY DEF Dropped, HistoryInv
  <2> QED
    BY <1>2, <2>1, TurnOverKeepsPairs DEF StreamStep, StreamEnds, StreamFails, TurnOver,
      AtPrompt
<1>3. CASE ModelStep
  <2>1. CASE ModelCalls \/ NextRound
    BY <1>0, <2>1 DEF ModelCalls, NextRound, RoundOver, sessionVars, AtPrompt
  <2>2. CASE ModelAnswers \/ ModelFails \/ LimitReached
    BY <2>2, TurnOverKeepsPairs DEF ModelAnswers, ModelFails, LimitReached, RoundOver,
      TurnOver, AtPrompt
  <2> QED
    BY <1>3, <2>1, <2>2 DEF ModelStep
<1>4. ASSUME NEW i \in DOMAIN calls, AskStep(i) \/ ToolStep(i) PROVE HistoryInv'
  <2>1. CASE TurnFails(i)
    BY <2>1, TurnOverKeepsPairs DEF TurnFails, CallStep, TurnOver, AtPrompt
  <2>2. CASE ~TurnFails(i)
    <3>1. TurnGoesOn
      BY <1>4, <2>2 DEF AskStep, CallTool, CommandGate, AnswerYes, AnswerNo, PromptBreaks,
        ToolStep, RunCommand, ReadFile, ToolFails, OpenForWrite, Write, WriteCut,
        ReadForPatch, ReplaceFile
    <3> QED
      BY <1>0, <3>1 DEF TurnGoesOn, sessionVars, AtPrompt
  <2> QED
    BY <2>1, <2>2
<1>5. CASE Stop
  BY <1>5, StartAgainKeepsPairs DEF Stop, HistoryInv
<1>6. CASE DenialExpires \/ UNCHANGED vars
  BY <1>0, <1>6 DEF DenialExpires, vars, sessionVars, AtPrompt
<1> QED
  BY <1>1, <1>2, <1>3, <1>4, <1>5, <1>6 DEF Next, TurnStep

\* Whatever fails or is taken back, the history is made of questions with
\* their answers, unless it comes from a file that was cut short.
THEOREM HistoryStaysPaired == Spec => []HistoryPaired
<1>1. HistoryInv => HistoryPaired
  BY DEF HistoryInv
<1> QED
  BY <1>1, HistoryInvInit, HistoryInvStep, PTL DEF Spec
-----------------------------------------------------------------------------
(* Calls on one file keep their order.                                     *)

HIDE ToolTurnAssumption

InOrder(f) ==
  /\ \A i, j \in CallsOn(f) : j < i /\ stage[i] # "todo" => Over(j)
  /\ \A i \in CallsOn(f) :
       /\ ~Over(i) => result[i] = "none"
       /\ stage[i] = "writing" => disk[f] = Empty
       /\ stage[i] = "patching" => disk[f] = calls[i].old
       /\ Over(i) => FoundInTurn(i)
  /\ (\A i \in CallsOn(f) : stage[i] # "writing") => InTurn(f, Len(calls) + 1, disk[f])

OrderInv == \A f \in Files : OneSpelling(f) => InOrder(f)

\* Positions are numbers.
LEMMA Positions ==
  ASSUME TurnInv
  PROVE  /\ Len(calls) \in Nat
         /\ DOMAIN calls = 1..Len(calls)
         /\ \A f : CallsOn(f) \subseteq 1..Len(calls)
         /\ \A f \in Files : \A i \in CallsOn(f) :
              i \in DOMAIN calls /\ OnFile(i) /\ Target(i) = f
<1>1. calls \in Seq(ToolCall)
  BY ToolTurnAssumption DEF TurnInv, CallTypes
<1> QED
  BY <1>1 DEF CallsOn

\* Of two calls on a file, one is the earlier.
LEMMA Earlier ==
  ASSUME TurnInv, NEW f \in Files, NEW i \in CallsOn(f), NEW k \in CallsOn(f)
  PROVE  /\ i \in DOMAIN calls
         /\ i < Len(calls) + 1
         /\ i < k \/ i = k \/ k < i
         /\ i <= k <=> ~(k < i)
         /\ i < k \/ i = k => \A j \in CallsOn(f) : j < i => j < k
         /\ i < k => i # k
<1>1. Len(calls) \in Nat /\ DOMAIN calls = 1..Len(calls)
      /\ \A j \in CallsOn(f) : j \in 1..Len(calls)
  BY Positions
<1> QED
  BY <1>1

\* There is one text in turn.
LEMMA OneTextInTurn ==
  ASSUME TurnInv, NEW f \in Files, NEW n, NEW x, NEW y, InTurn(f, n, x), InTurn(f, n, y)
  PROVE  x = y
<1>1. CASE Writers(f, n) = {}
  BY <1>1 DEF InTurn
<1>2. CASE Writers(f, n) # {}
  <2>1. PICK i \in Writers(f, n) : x = Leaves(i) /\ \A j \in Writers(f, n) : j <= i
    BY <1>2 DEF InTurn
  <2>2. PICK k \in Writers(f, n) : y = Leaves(k) /\ \A j \in Writers(f, n) : j <= k
    BY <1>2 DEF InTurn
  <2>3. i \in Nat /\ k \in Nat /\ i <= k /\ k <= i
    BY <2>1, <2>2, Positions DEF Writers
  <2> QED
    BY <2>1, <2>2, <2>3
<1> QED
  BY <1>1, <1>2

\* What is in turn for a position depends on the calls before it.
LEMMA SameInTurn ==
  ASSUME TurnInv, TurnGoesOn, NEW f \in Files, NEW n,
         \A k \in CallsOn(f) : k < n => result'[k] = result[k]
  PROVE  \A x : InTurn(f, n, x)' <=> InTurn(f, n, x)
<1>1. CallsOn(f)' = CallsOn(f)
  BY DEF CallsOn, OnFile, Target, TurnGoesOn
<1>2. Writers(f, n)' = Writers(f, n)
  BY <1>1 DEF Writers
<1>3. \A k \in Writers(f, n) : Leaves(k)' = Leaves(k)
  BY DEF Leaves, Writers, TurnGoesOn
<1>4. before' = before
  BY DEF TurnGoesOn
<1> QED
  BY <1>2, <1>3, <1>4 DEF InTurn

\* While a call is not over, those after it have not begun: what is in turn
\* for it is in turn for all.
LEMMA NoneLater ==
  ASSUME TurnInv, NEW f \in Files, InOrder(f), NEW i \in CallsOn(f), ~Over(i)
  PROVE  /\ \A k \in CallsOn(f) : i < k => stage[k] = "todo" /\ ~Over(k)
         /\ \A x : InTurn(f, Len(calls) + 1, x) <=> InTurn(f, i, x)
<1>1. \A k \in CallsOn(f) : i < k => stage[k] = "todo" /\ ~Over(k)
  BY DEF InOrder, Over
<1>2. \A k \in CallsOn(f) : ~(k < i) => result[k] = "none"
  BY <1>1, Positions DEF InOrder
<1>3. Writers(f, Len(calls) + 1) = Writers(f, i)
  BY <1>2, Positions DEF Writers
<1> QED
  BY <1>1, <1>3 DEF InTurn

\* A step that is not on f leaves f in order.
LEMMA Elsewhere ==
  ASSUME TurnInv, TurnGoesOn, NEW f \in Files, InOrder(f), disk'[f] = disk[f],
         \A k \in CallsOn(f) : stage'[k] = stage[k] /\ result'[k] = result[k]
  PROVE  InOrder(f)'
<1>1. CallsOn(f)' = CallsOn(f) /\ calls' = calls
  BY DEF CallsOn, OnFile, Target, TurnGoesOn
<1>2. \A n, x : InTurn(f, n, x)' <=> InTurn(f, n, x)
  BY SameInTurn
<1>3. ASSUME NEW i \in CallsOn(f) PROVE FoundInTurn(i)' <=> FoundInTurn(i)
  <2>1. Target(i) = f /\ Target(i)' = f
    BY <1>1 DEF CallsOn, Target
  <2> QED
    BY <1>1, <1>2, <2>1 DEF FoundInTurn
<1> QED
  BY <1>1, <1>2, <1>3 DEF InOrder, Over

\* The i-th call goes on, in its turn.
LEMMA GoesOnInOrder ==
  ASSUME TurnInv, TurnGoesOn, NEW f \in Files, InOrder(f), NEW i \in CallsOn(f),
         ~Over(i), \A j \in CallsOn(f) : j < i => Over(j),
         NEW place, place # "over", Goto(i, place),
         place = "writing" => disk'[f] = Empty,
         place # "writing" => disk'[f] = disk[f] /\ stage[i] # "writing",
         place = "patching" => disk[f] = calls[i].old
  PROVE  InOrder(f)'
<1>1. CallsOn(f)' = CallsOn(f) /\ calls' = calls /\ result' = result
  BY DEF CallsOn, OnFile, Target, TurnGoesOn, Goto
<1>2. \A n, x : InTurn(f, n, x)' <=> InTurn(f, n, x)
  BY <1>1, SameInTurn
<1>3. /\ stage'[i] = place
      /\ \A k \in CallsOn(f) \ {i} : stage'[k] = stage[k]
  BY Earlier DEF Goto, TurnInv, CallTypes
<1>4. \A k \in CallsOn(f) \ {i} : (k < i /\ Over(k)) \/ (i < k /\ stage[k] = "todo")
  <2> TAKE k \in CallsOn(f) \ {i}
  <2>1. k < i \/ i < k
    BY Earlier
  <2>2. i < k => stage[k] = "todo"
    BY NoneLater
  <2> QED
    BY <2>1, <2>2
<1>5. ASSUME NEW k \in CallsOn(f), NEW j \in CallsOn(f), j < k, stage'[k] # "todo"
      PROVE  Over(j)'
  <2>1. k = i \/ k < i
    BY <1>3, <1>4, <1>5
  <2>2. j < i
    BY <1>5, <2>1, Earlier
  <2>3. j # i /\ Over(j)
    BY <2>2, Earlier
  <2> QED
    BY <1>3, <2>3 DEF Over
<1>6. ASSUME NEW k \in CallsOn(f)
      PROVE  /\ ~Over(k)' => result'[k] = "none"
             /\ stage'[k] = "writing" => disk'[f] = Empty
             /\ stage'[k] = "patching" => disk'[f] = calls'[k].old
             /\ Over(k)' => FoundInTurn(k)'
  <2>1. CASE k = i
    BY <1>1, <1>3, <2>1 DEF InOrder, Over
  <2>2. CASE k # i
    <3>1. stage'[k] = stage[k] /\ stage[k] \in {"todo", "over"}
      BY <1>3, <1>4, <2>2 DEF Over
    <3>2. Target(k) = f /\ Target(k)' = f
      BY <1>1 DEF CallsOn, Target
    <3>3. FoundInTurn(k)' <=> FoundInTurn(k)
      BY <1>1, <1>2, <3>2 DEF FoundInTurn
    <3> QED
      BY <1>1, <3>1, <3>3 DEF InOrder, Over
  <2> QED
    BY <2>1, <2>2
<1>7. ASSUME \A k \in CallsOn(f) : stage'[k] # "writing"
      PROVE  InTurn(f, Len(calls) + 1, disk[f]) /\ disk'[f] = disk[f]
  <2>1. \A k \in CallsOn(f) : stage[k] # "writing"
    BY <1>3, <1>4, <1>7 DEF Over
  <2> QED
    BY <1>3, <1>7, <2>1 DEF InOrder
<1> QED
  BY <1>1, <1>2, <1>5, <1>6, <1>7 DEF InOrder

Effects == {"written", "cut", "patched"}

\* The i-th call ends, in its turn.
LEMMA EndsInOrder ==
  ASSUME TurnInv, TurnGoesOn, NEW f \in Files, InOrder(f), NEW i \in CallsOn(f),
         ~Over(i), \A j \in CallsOn(f) : j < i => Over(j),
         NEW outcome, Ends(i, outcome),
         outcome \notin Effects => disk'[f] = disk[f] /\ stage[i] # "writing",
         outcome \in Texts => outcome = disk[f],
         outcome = "no context" => disk[f] # calls[i].old,
         outcome = "written" => disk'[f] = calls[i].text,
         outcome = "cut" => stage[i] = "writing" /\ disk'[f] = disk[f],
         outcome = "patched" => stage[i] = "patching" /\ disk'[f] = calls[i].new
  PROVE  InOrder(f)'
<1>1. CallsOn(f)' = CallsOn(f) /\ calls' = calls
  BY DEF CallsOn, OnFile, Target, TurnGoesOn
<1>2. /\ stage'[i] = "over" /\ result'[i] = outcome
      /\ \A k \in CallsOn(f) \ {i} : stage'[k] = stage[k] /\ result'[k] = result[k]
  BY Earlier DEF Ends, TurnInv, CallTypes
<1>3. \A k \in CallsOn(f) \ {i} : (k < i /\ Over(k)) \/ (i < k /\ stage[k] = "todo")
  <2> TAKE k \in CallsOn(f) \ {i}
  <2>1. k < i \/ i < k
    BY Earlier
  <2>2. i < k => stage[k] = "todo"
    BY NoneLater
  <2> QED
    BY <2>1, <2>2
<1>4. \A k \in CallsOn(f) : k <= i => \A x : InTurn(f, k, x)' <=> InTurn(f, k, x)
  <2> TAKE k \in CallsOn(f)
  <2>1. k <= i => \A j \in CallsOn(f) : j < k => result'[j] = result[j]
    BY <1>2, Earlier
  <2> QED
    BY <2>1, SameInTurn
<1>5. stage[i] # "writing" => InTurn(f, i, disk[f])
  <2>1. \A k \in CallsOn(f) \ {i} : stage[k] # "writing"
    BY <1>3 DEF Over
  <2> QED
    BY <2>1, NoneLater DEF InOrder
<1>6. FoundInTurn(i)'
  <2>1. Target(i)' = f
    BY <1>1 DEF CallsOn, Target
  <2>2. outcome \in Texts => InTurn(f, i, outcome)
    BY <1>5, ToolTurnAssumption DEF Effects, Outcomes
  <2>3. outcome = "patched" => InTurn(f, i, calls[i].old)
    BY <1>5 DEF InOrder
  <2>4. outcome = "no context" => ~InTurn(f, i, calls[i].old)
    BY <1>5, OneTextInTurn DEF Effects
  <2> QED
    BY <1>1, <1>2, <1>4, <2>1, <2>2, <2>3, <2>4, Earlier DEF FoundInTurn
<1>7. \A k, j \in CallsOn(f) : j < k /\ stage'[k] # "todo" => Over(j)'
  <2> SUFFICES ASSUME NEW k \in CallsOn(f), NEW j \in CallsOn(f), j < k,
                      stage'[k] # "todo"
               PROVE  Over(j)'
    OBVIOUS
  <2>1. k = i \/ k < i
    BY <1>2, <1>3
  <2>2. j < i
    BY <2>1, Earlier
  <2>3. j # i /\ Over(j)
    BY <2>2, Earlier
  <2> QED
    BY <1>2, <2>3 DEF Over
<1>8. ASSUME NEW k \in CallsOn(f)
      PROVE  /\ ~Over(k)' => result'[k] = "none"
             /\ stage'[k] \notin {"writing", "patching"}
             /\ Over(k)' => FoundInTurn(k)'
  <2>1. CASE k = i
    BY <1>2, <1>6, <2>1 DEF Over
  <2>2. CASE k # i
    <3>1. stage'[k] = stage[k] /\ result'[k] = result[k]
      BY <1>2, <2>2
    <3>2. Target(k) = f /\ Target(k)' = f
      BY <1>1 DEF CallsOn, Target
    <3>3. k < i => \A x : InTurn(f, k, x)' <=> InTurn(f, k, x)
      BY <1>4, Earlier
    <3>4. k < i => (FoundInTurn(k)' <=> FoundInTurn(k))
      BY <1>1, <3>1, <3>2, <3>3 DEF FoundInTurn
    <3> QED
      BY <1>3, <2>2, <3>1, <3>4 DEF InOrder, Over
  <2> QED
    BY <2>1, <2>2
<1>9. InTurn(f, Len(calls) + 1, disk[f])'
  <2>1. CASE outcome \in Effects
    <3>1. i \in Writers(f, Len(calls) + 1)'
      BY <1>1, <1>2, <2>1, Earlier DEF Writers, Effects
    <3>2. \A k \in Writers(f, Len(calls) + 1)' : k <= i
      <4>1. \A k \in CallsOn(f) : i < k => result'[k] = "none"
        BY <1>2, <1>3, Earlier DEF InOrder, Over
      <4> QED
        BY <1>1, <4>1, Earlier DEF Writers
    <3>3. disk'[f] = Leaves(i)'
      BY <1>1, <1>2, <2>1 DEF Leaves, Effects, InOrder
    <3> QED
      BY <3>1, <3>2, <3>3 DEF InTurn
  <2>2. CASE outcome \notin Effects
    <3>1. result[i] \notin Effects /\ result[i] = "none"
      BY DEF InOrder, Effects
    <3>2. Writers(f, Len(calls) + 1)' = Writers(f, Len(calls) + 1)
      BY <1>1, <1>2, <2>2, <3>1 DEF Writers, Effects
    <3>3. i \notin Writers(f, Len(calls) + 1)
      BY <3>1 DEF Writers
    <3>4. \A k \in Writers(f, Len(calls) + 1) : Leaves(k)' = Leaves(k)
      BY <1>1, <1>2, <3>3 DEF Leaves, Writers
    <3>5. InTurn(f, Len(calls) + 1, disk[f]) /\ disk'[f] = disk[f] /\ before' = before
      BY <1>5, <2>2, NoneLater DEF TurnGoesOn
    <3> QED
      BY <1>1, <3>2, <3>4, <3>5 DEF InTurn
  <2> QED
    BY <2>1, <2>2
<1> QED
  BY <1>1, <1>7, <1>8, <1>9 DEF InOrder

\* A step of the i-th call moves no other call, and no other file.
LEMMA OthersStay ==
  ASSUME TurnInv, NEW i \in DOMAIN calls, AskStep(i) \/ ToolStep(i), ~TurnFails(i)
  PROVE  /\ TurnGoesOn
         /\ ~Over(i)
         /\ \A k \in DOMAIN calls \ {i} : stage'[k] = stage[k] /\ result'[k] = result[k]
         /\ \A f \in Files : i \notin CallsOn(f) => disk'[f] = disk[f]
<1>1. TurnGoesOn /\ ~Over(i)
  BY DEF AskStep, CallTool, CommandGate, AnswerYes, AnswerNo, PromptBreaks, ToolStep,
    RunCommand, ReadFile, ToolFails, OpenForWrite, Write, WriteCut, ReadForPatch,
    ReplaceFile, CallStep, Cleared, Asked, Over
<1>2. \/ \E place : Goto(i, place)
      \/ \E outcome : Ends(i, outcome)
  BY DEF AskStep, CallTool, CommandGate, Gate, AnswerYes, AnswerNo, PromptBreaks,
    ToolStep, RunCommand, ReadFile, ToolFails, OpenForWrite, Write, WriteCut,
    ReadForPatch, ReplaceFile
<1>3. \A k \in DOMAIN calls \ {i} : stage'[k] = stage[k] /\ result'[k] = result[k]
  BY <1>2 DEF Goto, Ends, TurnInv, CallTypes
<1>4. ASSUME NEW f \in Files, i \notin CallsOn(f) PROVE disk'[f] = disk[f]
  <2>1. CASE OpenForWrite(i) \/ Write(i) \/ ReplaceFile(i)
    <3>1. OnFile(i)
      BY <2>1 DEF OpenForWrite, Write, ReplaceFile, Cleared, OnFile, TurnInv, StageInv
    <3>2. Target(i) # f
      BY <1>4, <3>1 DEF CallsOn
    <3> QED
      BY <2>1, <3>2 DEF OpenForWrite, Write, ReplaceFile, TurnInv, CallTypes
  <2>2. CASE ~(OpenForWrite(i) \/ Write(i) \/ ReplaceFile(i))
    <3>1. UNCHANGED disk
      BY <2>2 DEF AskStep, CallTool, CommandGate, AnswerYes, AnswerNo, PromptBreaks,
        ToolStep, RunCommand, ReadFile, ToolFails, WriteCut, ReadForPatch
    <3> QED
      BY <3>1
  <2> QED
    BY <2>1, <2>2
<1> QED
  BY <1>1, <1>3, <1>4

\* A call that begins or goes on comes after the calls before it.
LEMMA InItsTurn ==
  ASSUME TurnInv, NEW f \in Files, OneSpelling(f), InOrder(f), NEW i \in CallsOn(f),
         stage[i] = "todo" => MayStart(i)
  PROVE  \A j \in CallsOn(f) : j < i => Over(j)
<1> SUFFICES ASSUME NEW j \in CallsOn(f), j < i PROVE Over(j)
  OBVIOUS
<1>1. CASE stage[i] # "todo"
  BY <1>1 DEF InOrder
<1>2. CASE stage[i] = "todo"
  <2>1. SamePath(i, j) /\ j # i /\ i \in DOMAIN calls /\ j \in DOMAIN calls
    BY Earlier DEF OneSpelling
  <2>2. Serial(i)
    BY <2>1 DEF Serial
  <2> QED
    BY <1>2, <2>1, <2>2 DEF MayStart
<1> QED
  BY <1>1, <1>2

LEMMA CallInOrder ==
  ASSUME TurnInv, NEW f \in Files, OneSpelling(f), InOrder(f), NEW i \in CallsOn(f),
         AskStep(i) \/ ToolStep(i), ~TurnFails(i)
  PROVE  InOrder(f)'
<1>1. i \in DOMAIN calls /\ OnFile(i) /\ Target(i) = f
  BY Positions
<1>2. TurnGoesOn /\ ~Over(i)
  BY <1>1, OthersStay
<1>3. stage[i] = "todo" => MayStart(i)
  BY DEF AskStep, CallTool, CommandGate, AnswerYes, AnswerNo, PromptBreaks, ToolStep,
    RunCommand, ReadFile, ToolFails, OpenForWrite, Write, WriteCut, ReadForPatch,
    ReplaceFile, Cleared, Asked
<1>4. \A j \in CallsOn(f) : j < i => Over(j)
  BY <1>3, InItsTurn
<1>5. calls[i].tool # "run_command"
  BY <1>1 DEF OnFile
<1>6. Texts \cap Outcomes = {} /\ disk \in [Files -> Texts]
  BY ToolTurnAssumption DEF TurnInv, CallTypes
<1>7. CASE CallTool(i)
  <2>1. Goto(i, "asked") \/ Goto(i, "cleared") \/ Ends(i, "denied")
    BY <1>7 DEF CallTool, Gate
  <2> QED
    BY <1>2, <1>4, <1>6, <1>7, <2>1, GoesOnInOrder, EndsInOrder
    DEF CallTool, Outcomes, Effects
<1>8. CASE AnswerYes(i)
  <2>1. Goto(i, "cleared") \/ Goto(i, "ready")
    BY <1>8 DEF AnswerYes
  <2> QED
    BY <1>2, <1>4, <1>8, <2>1, GoesOnInOrder DEF AnswerYes, Asked
<1>9. CASE AnswerNo(i) \/ PromptBreaks(i)
  BY <1>2, <1>4, <1>6, <1>9, EndsInOrder DEF AnswerNo, PromptBreaks, Asked, Outcomes, Effects
<1>10. CASE ReadFile(i)
  BY <1>1, <1>2, <1>4, <1>6, <1>10, EndsInOrder DEF ReadFile, Cleared, Outcomes, Effects
<1>11. CASE ToolFails(i)
  BY <1>2, <1>4, <1>6, <1>11, EndsInOrder DEF ToolFails, Outcomes, Effects
<1>12. CASE OpenForWrite(i)
  <2>1. disk'[f] = Empty
    BY <1>1, <1>6, <1>12 DEF OpenForWrite
  <2> QED
    BY <1>2, <1>4, <1>12, <2>1, GoesOnInOrder DEF OpenForWrite
<1>13. CASE Write(i)
  <2>1. disk'[f] = calls[i].text
    BY <1>1, <1>6, <1>13 DEF Write
  <2> QED
    BY <1>2, <1>4, <1>6, <1>13, <2>1, EndsInOrder DEF Write, Outcomes, Effects
<1>14. CASE WriteCut(i)
  BY <1>2, <1>4, <1>6, <1>14, EndsInOrder DEF WriteCut, Outcomes, Effects
<1>15. CASE ReadForPatch(i)
  <2>1. CASE disk[f] = calls[i].old
    BY <1>1, <1>2, <1>4, <1>15, <2>1, GoesOnInOrder DEF ReadForPatch, Cleared
  <2>2. CASE disk[f] # calls[i].old
    BY <1>1, <1>2, <1>4, <1>6, <1>15, <2>2, EndsInOrder
    DEF ReadForPatch, Cleared, Outcomes, Effects
  <2> QED
    BY <2>1, <2>2
<1>16. CASE ReplaceFile(i)
  <2>1. disk'[f] = calls[i].new
    BY <1>1, <1>6, <1>16 DEF ReplaceFile
  <2> QED
    BY <1>2, <1>4, <1>6, <1>16, <2>1, EndsInOrder DEF ReplaceFile, Outcomes, Effects
<1>17. ~CommandGate(i) /\ ~RunCommand(i)
  BY <1>1, <1>5 DEF CommandGate, RunCommand, TurnInv, StageInv
<1> QED
  BY <1>7, <1>8, <1>9, <1>10, <1>11, <1>12, <1>13, <1>14, <1>15, <1>16, <1>17
  DEF AskStep, ToolStep

\* A round begins in order.
Fresh ==
  /\ \A i \in DOMAIN calls : stage[i] = "todo" /\ result[i] = "none"
  /\ before = disk

LEMMA FreshInOrder == Fresh => OrderInv
<1> SUFFICES ASSUME Fresh, NEW f \in Files PROVE InOrder(f)
  BY DEF OrderInv
<1>1. \A i \in CallsOn(f) : stage[i] = "todo" /\ result[i] = "none"
  BY DEF Fresh, CallsOn
<1>2. Writers(f, Len(calls) + 1) = {}
  BY <1>1 DEF Writers
<1> QED
  BY <1>1, <1>2 DEF Fresh, InOrder, InTurn, Over

LEMMA FreshNext == Fresh' => OrderInv'
BY FreshInOrder, PTL

LEMMA OrderInvStep == TurnInv /\ BindInv /\ OrderInv /\ [Next]_vars => OrderInv'
<1> SUFFICES ASSUME TurnInv, BindInv, OrderInv, [Next]_vars PROVE OrderInv'
  OBVIOUS
<1>0. calls' = <<>> /\ before' = disk' => Fresh'
  BY NoCalls DEF Fresh
<1>1. CASE SessionStep
  <2>1. CASE Quit
    BY <1>0, <2>1, FreshNext DEF Quit, StartAgain
  <2>2. CASE ChangeSettings \/ Clear \/ Undo \/ Compact \/ Resume \/ Send
    <3>1. calls' = <<>> /\ before' = disk'
      BY <2>2 DEF ChangeSettings, Clear, Undo, Compact, Resume, Send, BetweenTurns,
        AtPrompt, roundVars, BindInv
    <3> QED
      BY <1>0, <3>1, FreshNext
  <2> QED
    BY <1>1, <2>1, <2>2 DEF SessionStep
<1>2. CASE StreamStep
  BY <1>0, <1>2, FreshNext DEF StreamStep, StreamEnds, StreamFails, TurnOver
<1>3. CASE ModelStep
  <2>1. CASE ModelCalls
    BY <2>1, FreshNext DEF ModelCalls, Fresh
  <2>2. CASE ModelAnswers \/ ModelFails \/ NextRound \/ LimitReached
    BY <1>0, <2>2, FreshNext DEF ModelAnswers, ModelFails, NextRound, LimitReached, TurnOver
  <2> QED
    BY <1>3, <2>1, <2>2 DEF ModelStep
<1>4. ASSUME NEW i \in DOMAIN calls, AskStep(i) \/ ToolStep(i) PROVE OrderInv'
  <2>1. CASE TurnFails(i)
    BY <1>0, <2>1, FreshNext DEF TurnFails, TurnOver
  <2>2. CASE ~TurnFails(i)
    <3>1. TurnGoesOn
      BY <1>4, <2>2, OthersStay
    <3> SUFFICES ASSUME NEW f \in Files, OneSpelling(f)' PROVE InOrder(f)'
      BY DEF OrderInv
    <3>2. OneSpelling(f)
      BY <3>1 DEF TurnGoesOn, OneSpelling, SamePath, CallsOn, OnFile, Target
    <3>3. InOrder(f)
      BY <3>2 DEF OrderInv
    <3>4. CASE i \in CallsOn(f)
      BY <1>4, <2>2, <3>2, <3>3, <3>4, CallInOrder
    <3>5. CASE i \notin CallsOn(f)
      <4>1. disk'[f] = disk[f]
        BY <1>4, <2>2, <3>5, OthersStay
      <4>2. \A k \in CallsOn(f) : stage'[k] = stage[k] /\ result'[k] = result[k]
        BY <1>4, <2>2, <3>5, OthersStay, Positions
      <4> QED
        BY <3>1, <3>3, <4>1, <4>2, Elsewhere
    <3> QED
      BY <3>4, <3>5
  <2> QED
    BY <2>1, <2>2
<1>5. CASE Stop
  BY <1>0, <1>5, FreshNext DEF Stop, StartAgain
<1>6. CASE DenialExpires \/ UNCHANGED vars
  <2>1. TurnGoesOn /\ UNCHANGED <<stage, result, disk>>
    BY <1>6 DEF DenialExpires, vars, roundVars, TurnGoesOn
  <2> SUFFICES ASSUME NEW f \in Files, OneSpelling(f)' PROVE InOrder(f)'
    BY DEF OrderInv
  <2>2. InOrder(f)
    BY <2>1 DEF TurnGoesOn, OneSpelling, SamePath, CallsOn, OnFile, Target, OrderInv
  <2> QED
    BY <2>1, <2>2, Elsewhere
<1> QED
  BY <1>1, <1>2, <1>3, <1>4, <1>5, <1>6 DEF Next, TurnStep

\* Where the calls on a file spell its path alike, the file and the calls
\* are as if the calls had been made one after the other.
THEOREM CallsKeepOrder == Spec => []RoundInOrder
<1>1. Init => TurnInv /\ BindInv /\ OrderInv
  <2> SUFFICES ASSUME Init PROVE TurnInv /\ BindInv /\ OrderInv
    OBVIOUS
  <2>1. TurnInv /\ DOMAIN calls = {}
    BY TurnInvInit, NoCalls DEF Init
  <2>2. BindInv
    BY <2>1 DEF Init, BindInv
  <2>3. OrderInv
    BY <2>1, FreshInOrder DEF Init, Fresh
  <2> QED
    BY <2>1, <2>2, <2>3
<1>2. TurnInv /\ BindInv /\ OrderInv /\ [Next]_vars => (TurnInv /\ BindInv /\ OrderInv)'
  BY TurnInvStep, BindInvStep, OrderInvStep
<1>3. TurnInv /\ OrderInv => RoundInOrder
  <2> SUFFICES ASSUME TurnInv, OrderInv, RoundOver, NEW f \in Files, OneSpelling(f)
               PROVE  /\ InTurn(f, Len(calls) + 1, disk[f])
                      /\ \A i \in CallsOn(f) : FoundInTurn(i)
    BY DEF RoundInOrder
  <2>1. InOrder(f) /\ \A i \in CallsOn(f) : Over(i)
    BY DEF OrderInv, RoundOver, CallsOn
  <2> QED
    BY <2>1 DEF InOrder, Over
<1> QED
  BY <1>1, <1>2, <1>3, PTL DEF Spec
=============================================================================

---------------------------- MODULE TestFixLoop ----------------------------
(***************************************************************************)
(* app/core/test_fix_loop.py: /fix-tests.  A round runs the tests, has the *)
(* model write patches for the failures, applies them one by one with git  *)
(* apply, and runs the tests again.  The workspace is what a test run can  *)
(* tell of it: the tests that fail, and whether the tests can be collected *)
(* at all; when they cannot, or when the run exceeds its 120 seconds, the  *)
(* exit code is not 0 and the output names no failing test.                *)
(***************************************************************************)
EXTENDS Naturals, Sequences, FiniteSets

CONSTANTS
  Tests,          \* the tests of the workspace
  MaxAttempts,    \* max_attempts
  MaxPatches,     \* bound: the patches of one answer
  FixFallbacks    \* cfg.fallback_providers is not empty

ASSUME FixAssumption ==
  /\ IsFiniteSet(Tests)
  /\ MaxAttempts \in Nat
  /\ MaxPatches \in Nat
  /\ FixFallbacks \in BOOLEAN

VARIABLES
  failing,     \* the tests that fail in the workspace
  collects,    \* the tests can be collected
  fixPc,       \* where run() is
  fixRound,    \* attempt_num
  before,      \* the failures of the round's first run
  patches,     \* the patches of the answer still to be applied
  report       \* the TestFixResult

fixVars == <<failing, collects, fixPc, fixRound, before, patches, report>>

\* No run yet, and TestFixResult() at the start of one.
NoReport == [over |-> FALSE, pass |-> FALSE, left |-> {}, fixed |-> 0, error |-> FALSE]

FixInit ==
  /\ failing = {}
  /\ collects = TRUE
  /\ fixPc = "idle"
  /\ fixRound = 0
  /\ before = {}
  /\ patches = 0
  /\ report = NoReport

\* What one run of the tests may show: its failures and whether it exits with 0.
TestRun ==
  {[failures |-> IF collects THEN failing ELSE {},
    zero |-> collects /\ failing = {}],
   [failures |-> {}, zero |-> FALSE]}

FixIdle == fixPc = "idle"

-----------------------------------------------------------------------------
(* TestFixLoop.run                                                         *)

StartFix ==
  /\ FixIdle
  /\ fixRound' = 1
  /\ report' = NoReport
  /\ IF MaxAttempts = 0 THEN fixPc' = "over" ELSE fixPc' = "test"
  /\ UNCHANGED <<failing, collects, before, patches>>

\* The run at the start of a round.
FirstRun ==
  /\ fixPc = "test"
  /\ \E run \in TestRun :
       /\ before' = run.failures
       /\ IF run.failures # {}
          THEN /\ fixPc' = "ask"
               /\ UNCHANGED report
          ELSE /\ fixPc' = "over"
               /\ report' = IF run.zero THEN [report EXCEPT !.pass = TRUE]
                            ELSE [report EXCEPT !.error = TRUE, !.left = {}]
  /\ UNCHANGED <<failing, collects, fixRound, patches>>

\* _fix_failures: chat() is called with temperature and max_tokens, which only
\* FallbackLLMClient.chat takes; an error counts as no patch.
AskForPatches ==
  /\ fixPc = "ask"
  /\ patches' \in IF FixFallbacks THEN 0..MaxPatches ELSE {0}
  /\ fixPc' = "patch"
  /\ UNCHANGED <<failing, collects, fixRound, before, report>>

\* git apply of one patch: it changes the workspace as a whole or not at all.
ApplyPatch ==
  /\ fixPc = "patch" /\ patches > 0
  /\ patches' = patches - 1
  /\ failing' \in SUBSET Tests
  /\ collects' \in BOOLEAN
  /\ UNCHANGED <<fixPc, fixRound, before, report>>

Patched ==
  /\ fixPc = "patch" /\ patches = 0
  /\ fixPc' = "retest"
  /\ UNCHANGED <<failing, collects, fixRound, before, patches, report>>

\* max(0, failures_before - failures_after)
Gain(run) ==
  LET b == Cardinality(before)
      a == Cardinality(run.failures)
  IN IF a < b THEN b - a ELSE 0

\* Mutant of the next: the exit code is not looked at.
PassesOnOutput(run) == run.failures = {}

\* A run without failures is a pass only if its exit code is 0, too.
Passes(run) == run.failures = {} /\ run.zero

\* Mutant of the next: the rounds are not counted.
SecondRunUncounted ==
  /\ fixPc = "retest"
  /\ \E run \in TestRun :
       /\ report' = [report EXCEPT !.pass = Passes(run), !.left = run.failures]
       /\ fixPc' = IF Passes(run) \/ Gain(run) = 0 THEN "over" ELSE "test"
  /\ UNCHANGED <<failing, collects, fixRound, before, patches>>

\* The run that tells whether the patches helped, and the end of the round.
SecondRun ==
  /\ fixPc = "retest"
  /\ \E run \in TestRun :
       /\ report' = IF Passes(run)
                    THEN [report EXCEPT !.pass = TRUE, !.fixed = Cardinality(before)]
                    ELSE [report EXCEPT !.fixed = @ + Gain(run), !.left = run.failures]
       /\ IF Passes(run) \/ Gain(run) = 0 \/ fixRound = MaxAttempts
          THEN fixPc' = "over" /\ UNCHANGED fixRound
          ELSE fixPc' = "test" /\ fixRound' = fixRound + 1
  /\ UNCHANGED <<failing, collects, before, patches>>

\* run() returns and /fix-tests prints the result.
FixOver ==
  /\ fixPc = "over"
  /\ fixPc' = "idle"
  /\ report' = [report EXCEPT !.over = TRUE]
  /\ UNCHANGED <<failing, collects, fixRound, before, patches>>

\* Between two commands the user edits the files.
EditByHand ==
  /\ FixIdle
  /\ failing' \in SUBSET Tests
  /\ collects' \in BOOLEAN
  /\ report' = NoReport
  /\ UNCHANGED <<fixPc, fixRound, before, patches>>

FixLoop ==
  FirstRun \/ AskForPatches \/ ApplyPatch \/ Patched \/ SecondRun \/ FixOver

FixNext == StartFix \/ FixLoop \/ EditByHand

FixSpec == FixInit /\ [][FixNext]_fixVars /\ WF_fixVars(FixLoop)

-----------------------------------------------------------------------------
(* Properties.                                                             *)

\* When /fix-tests says "All tests passing!", they do: every test of the
\* workspace that it leaves behind can be collected and succeeds.  A patch that
\* breaks the collection of the tests takes all failures out of the output.
PassIsTrue == report.pass => failing = {} /\ collects

\* A run of the loop ends, whatever the model answers.
FixEnds == ~FixIdle ~> FixIdle
=============================================================================

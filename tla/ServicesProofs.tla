--------------------------- MODULE ServicesProofs ---------------------------
(***************************************************************************)
(* Theorems about what the program asks of others, for every number of     *)
(* tests, threads, providers and servers: TestFixLoop, ResearchFetch,      *)
(* ModelCall and McpStdio.                                                 *)
(***************************************************************************)
EXTENDS TestFixLoop, ResearchFetch, ModelCall, McpStdio, FiniteSetTheorems,
  SequenceTheorems, TLAPS

(* TestFixLoop: a pass is a pass.                                          *)

\* The reports of the loop.
Reports == [over : BOOLEAN, pass : BOOLEAN, left : SUBSET Tests, fixed : Nat, error : BOOLEAN]

\* Every variable has its type.
FixTypeOK ==
  /\ failing \in SUBSET Tests
  /\ collects \in BOOLEAN
  /\ fixPc \in {"idle", "test", "ask", "patch", "retest", "over"}
  /\ fixRound \in Nat
  /\ before \in SUBSET Tests
  /\ patches \in Nat
  /\ report \in Reports

\* A report that says so is made by the last run of the tests, behind which no
\* patch is applied any more.
FixInv ==
  /\ FixTypeOK
  /\ fixPc \in {"test", "ask", "patch", "retest"} => ~report.pass /\ fixRound <= MaxAttempts
  /\ PassIsTrue

(* What a round gained is a number: the tests are finitely many.           *)
LEMMA GainIsANumber ==
  ASSUME NEW run, run.failures \in SUBSET Tests, before \in SUBSET Tests
  PROVE  Gain(run) \in Nat /\ Cardinality(before) \in Nat
<1>1. IsFiniteSet(before) /\ IsFiniteSet(run.failures)
  BY FixAssumption, FS_Subset
<1>2. Cardinality(before) \in Nat /\ Cardinality(run.failures) \in Nat
  BY <1>1, FS_CardinalityType
<1>. QED
  BY <1>2 DEF Gain

(* A run of the tests that ends with zero shows that they all pass.        *)
LEMMA RunShows ==
  ASSUME FixTypeOK, NEW run \in TestRun
  PROVE  /\ run.failures \in SUBSET Tests /\ run.zero \in BOOLEAN
         /\ run.zero => failing = {} /\ collects
<1>1. CASE run = [failures |-> IF collects THEN failing ELSE {}, zero |-> collects /\ failing = {}]
  <2>1. run.failures = (IF collects THEN failing ELSE {}) /\ run.zero = (collects /\ failing = {})
    BY <1>1
  <2>. QED
    BY <2>1 DEF FixTypeOK
<1>2. CASE run = [failures |-> {}, zero |-> FALSE]
  BY <1>2
<1>. QED
  BY <1>1, <1>2 DEF TestRun

(* A report stays one, and says nothing of passing, when it is changed.    *)
LEMMA ReportChanged ==
  ASSUME NEW r \in Reports, NEW n \in Nat, NEW rest \in SUBSET Tests
  PROVE  /\ [r EXCEPT !.pass = TRUE] \in Reports
         /\ [r EXCEPT !.error = TRUE, !.left = {}] \in Reports
         /\ [r EXCEPT !.error = TRUE, !.left = {}].pass = r.pass
         /\ [r EXCEPT !.pass = TRUE, !.fixed = n] \in Reports
         /\ [r EXCEPT !.fixed = @ + n, !.left = rest] \in Reports
         /\ [r EXCEPT !.fixed = @ + n, !.left = rest].pass = r.pass
<1>1. [r EXCEPT !.pass = TRUE] \in Reports
  BY DEF Reports
<1>2. /\ [r EXCEPT !.error = TRUE, !.left = {}] \in Reports
      /\ [r EXCEPT !.error = TRUE, !.left = {}].pass = r.pass
  BY DEF Reports
<1>3. [r EXCEPT !.pass = TRUE, !.fixed = n] \in Reports
  BY DEF Reports
<1>4. r.fixed + n \in Nat
  BY DEF Reports
<1>5. /\ [r EXCEPT !.fixed = @ + n, !.left = rest] \in Reports
      /\ [r EXCEPT !.fixed = @ + n, !.left = rest].pass = r.pass
  BY <1>4 DEF Reports
<1>. QED
  BY <1>1, <1>2, <1>3, <1>5

(* Every step of the loop keeps this.                                      *)
LEMMA FixKept == FixInv /\ [FixNext]_fixVars => FixInv'
<1> SUFFICES ASSUME FixInv, [FixNext]_fixVars PROVE FixInv'
  OBVIOUS
<1>1. FixTypeOK /\ PassIsTrue /\ MaxAttempts \in Nat /\ MaxPatches \in Nat
  BY FixAssumption DEF FixInv
<1>2. NoReport \in Reports /\ ~NoReport.pass
  BY DEF NoReport, Reports
<1>3. CASE UNCHANGED fixVars
  BY <1>3 DEF fixVars, FixInv, FixTypeOK, PassIsTrue
<1>4. CASE StartFix
  BY <1>1, <1>4, <1>2 DEF StartFix, FixInv, FixTypeOK, PassIsTrue
<1>5. CASE FirstRun
  <2>1. PICK run \in TestRun :
          /\ before' = run.failures
          /\ \/ run.failures # {} /\ fixPc' = "ask" /\ report' = report
             \/ run.zero /\ fixPc' = "over" /\ report' = [report EXCEPT !.pass = TRUE]
             \/ fixPc' = "over" /\ report' = [report EXCEPT !.error = TRUE, !.left = {}]
    BY <1>5 DEF FirstRun
  <2>2. /\ run.failures \in SUBSET Tests
        /\ run.zero => failing = {} /\ collects
    BY <1>1, <2>1, RunShows
  <2>3. ~report.pass /\ fixRound <= MaxAttempts /\ report \in Reports
        /\ UNCHANGED <<failing, collects, fixRound, patches>>
    BY <1>5 DEF FirstRun, FixInv, FixTypeOK
  <2>4. /\ report' \in Reports
        /\ report'.pass => fixPc' = "over" /\ failing = {} /\ collects
    BY <2>1, <2>2, <2>3, ReportChanged
  <2>. QED
    BY <1>1, <2>1, <2>2, <2>3, <2>4 DEF FixInv, FixTypeOK, PassIsTrue
<1>6. CASE AskForPatches
  BY <1>1, <1>6 DEF AskForPatches, FixInv, FixTypeOK, PassIsTrue
<1>7. CASE ApplyPatch
  BY <1>1, <1>7 DEF ApplyPatch, FixInv, FixTypeOK, PassIsTrue
<1>8. CASE Patched
  BY <1>1, <1>8 DEF Patched, FixInv, FixTypeOK, PassIsTrue
<1>9. CASE SecondRun
  <2>1. PICK run \in TestRun :
          /\ report' = IF Passes(run)
                       THEN [report EXCEPT !.pass = TRUE, !.fixed = Cardinality(before)]
                       ELSE [report EXCEPT !.fixed = @ + Gain(run), !.left = run.failures]
          /\ IF Passes(run) \/ Gain(run) = 0 \/ fixRound = MaxAttempts
             THEN fixPc' = "over" /\ UNCHANGED fixRound
             ELSE fixPc' = "test" /\ fixRound' = fixRound + 1
    BY <1>9 DEF SecondRun
  <2>2. /\ run.failures \in SUBSET Tests
        /\ run.zero => failing = {} /\ collects
        /\ Gain(run) \in Nat /\ Cardinality(before) \in Nat
    BY <1>1, <2>1, RunShows, GainIsANumber DEF FixTypeOK
  <2>3. ~report.pass /\ fixRound <= MaxAttempts /\ report \in Reports /\ fixRound \in Nat
        /\ UNCHANGED <<failing, collects, before, patches>>
    BY <1>9 DEF SecondRun, FixInv, FixTypeOK
  <2>4. CASE Passes(run)
    <3>1. fixPc' = "over" /\ fixRound' = fixRound /\ failing = {} /\ collects
      BY <2>1, <2>2, <2>4 DEF Passes
    <3>2. report' \in Reports
      BY <2>1, <2>2, <2>3, <2>4, ReportChanged
    <3>. QED
      BY <1>1, <2>3, <3>1, <3>2 DEF FixInv, FixTypeOK, PassIsTrue
  <2>5. CASE ~Passes(run)
    <3>1. report' = [report EXCEPT !.fixed = @ + Gain(run), !.left = run.failures]
      BY <2>1, <2>5
    <3>2. report' \in Reports /\ ~report'.pass
      BY ZenonT(60), <2>2, <2>3, <3>1, ReportChanged
    <3>3. /\ fixPc' \in {"over", "test"} /\ fixRound' \in Nat
          /\ fixPc' = "test" => fixRound' <= MaxAttempts
      BY <1>1, <2>1, <2>3
    <3>. QED
      BY <1>1, <2>3, <3>2, <3>3 DEF FixInv, FixTypeOK, PassIsTrue
  <2>. QED
    BY <2>4, <2>5
<1>10. CASE FixOver
  <2>1. report' \in Reports /\ report'.pass = report.pass
    BY <1>1, <1>10 DEF FixOver, FixTypeOK, Reports
  <2>. QED
    BY <1>1, <1>10, <2>1 DEF FixOver, FixInv, FixTypeOK, PassIsTrue
<1>11. CASE EditByHand
  BY <1>1, <1>11, <1>2 DEF EditByHand, FixIdle, FixInv, FixTypeOK, PassIsTrue
<1>. QED
  BY <1>3, <1>4, <1>5, <1>6, <1>7, <1>8, <1>9, <1>10, <1>11 DEF FixNext, FixLoop

(* TestFixLoop.run: when /fix-tests says that all tests pass, all of them  *)
(* can be collected and succeed: for any tests, any number of attempts,    *)
(* and any patches.                                                        *)
THEOREM PassMeansPassing == FixSpec => []PassIsTrue
<1>1. FixInit => FixInv
  BY FixAssumption DEF FixInit, NoReport, Reports, FixInv, FixTypeOK, PassIsTrue
<1>2. FixInv => PassIsTrue
  BY DEF FixInv
<1>. QED
  BY <1>1, <1>2, FixKept, PTL DEF FixSpec

-----------------------------------------------------------------------------
(* ResearchFetch: one thread fetches, the others find.                     *)

\* Where a thread is in fetch_page.
FetchPlaces ==
  {"idle", "look", "claim", "wait", "recheck", "fetch", "store", "release", "signal"}

\* Every variable has its type.
FetchTypeOK ==
  /\ fetchPc \in [Fetchers -> FetchPlaces]
  /\ inFlight \in Fetchers \cup {NoFetcher}
  /\ waitsFor \in [Fetchers -> Fetchers \cup {NoFetcher}]
  /\ eventSet \in SUBSET Fetchers
  /\ cached \in BOOLEAN
  /\ cacheFile \in {"none", "fresh", "stale", "cut"}
  /\ fetched \in [Fetchers -> {"nothing", "text", "failure"}]
  /\ found \in [Fetchers -> BOOLEAN]
  /\ fetchStops \in Nat

\* The claim is that of the thread that fetches, and there is none without it.
ClaimIsFetchers ==
  /\ \A t \in Fetching : inFlight = t
  /\ inFlight # NoFetcher => inFlight \in Fetching

\* The event of a call is set at its end, and the text in memory by then: for
\* those that are still to be told, and for those that have waited for it.
TextBeforeEvent ==
  /\ \A u \in Fetchers : fetchPc[u] # "idle" => u \notin eventSet
  /\ \A u \in Fetchers : fetchPc[u] \in {"release", "signal"} /\ fetched[u] = "text" => cached
  /\ \A t, u \in Fetchers :
       fetchPc[t] \in {"wait", "recheck"} /\ waitsFor[t] = u /\ u \in eventSet /\ fetched[u] = "text"
         => cached

\* One thread has the claim, and the others hear of its text no sooner than it
\* can be found.
FetchInv == FetchTypeOK /\ ClaimIsFetchers /\ TextBeforeEvent

(* What everyone has is a function of the threads.                         *)
LEMMA EveryoneHas ==
  ASSUME NEW S, NEW x \in S
  PROVE  Everyone(x) \in [Fetchers -> S] /\ \A t \in Fetchers : Everyone(x)[t] = x
BY DEF Everyone

(* Every step of a thread keeps this, and so does the end of the program.  *)
LEMMA FetchKept == FetchInv /\ [FetchNext]_fetchVars => FetchInv'
<1> SUFFICES ASSUME FetchInv, [FetchNext]_fetchVars PROVE FetchInv'
  OBVIOUS
<1> USE FetchAssumption DEF FetchInv, FetchTypeOK, ClaimIsFetchers, TextBeforeEvent, Fetching
<1>1. CASE UNCHANGED fetchVars
  BY <1>1 DEF fetchVars
<1>2. ASSUME NEW t \in Fetchers, BeginFetch(t) PROVE FetchInv'
  BY <1>2 DEF BeginFetch, FetchAt, TheCache, FetchPlaces
<1>3. ASSUME NEW t \in Fetchers, LookUp(t) PROVE FetchInv'
  BY <1>3 DEF LookUp, FetchAt, InCache, TheTable, FetchPlaces
<1>4. ASSUME NEW t \in Fetchers, Claim(t) PROVE FetchInv'
  BY <1>4 DEF Claim, FetchAt, TheCache, FetchPlaces
<1>5. ASSUME NEW t \in Fetchers, Awake(t) PROVE FetchInv'
  BY <1>5 DEF Awake, FetchAt, TheCache, TheTable, FetchPlaces
<1>6. ASSUME NEW t \in Fetchers, Recheck(t) PROVE FetchInv'
  BY <1>6 DEF Recheck, FetchAt, InCache, TheTable, FetchPlaces
<1>7. ASSUME NEW t \in Fetchers, FetchUrl(t) PROVE FetchInv'
  BY <1>7 DEF FetchUrl, FetchAt, TheCache, TheTable, FetchPlaces
<1>8. ASSUME NEW t \in Fetchers, Store(t) PROVE FetchInv'
  BY <1>8 DEF Store, FetchAt, TheTable, FetchPlaces
<1>9. ASSUME NEW t \in Fetchers, Release(t) PROVE FetchInv'
  BY <1>9 DEF Release, FetchAt, TheCache, FetchPlaces
<1>10. ASSUME NEW t \in Fetchers, Signal(t) PROVE FetchInv'
  BY <1>10 DEF Signal, FetchAt, TheCache, FetchPlaces
<1>11. CASE ClearCache
  BY <1>11 DEF ClearCache, FetchIdle, Everyone, TheTable
<1>12. CASE CacheAges
  BY <1>12 DEF CacheAges, TheTable
<1>13. CASE FetchStop
  <2>1. cacheFile' \in {"none", "fresh", "stale", "cut"} /\ fetchStops' \in Nat
    BY <1>13 DEF FetchStop
  <2>2. /\ fetchPc' \in [Fetchers -> FetchPlaces]
        /\ \A t \in Fetchers : fetchPc'[t] = "idle"
    BY <1>13, EveryoneHas DEF FetchStop, FetchPlaces
  <2>3. waitsFor' \in [Fetchers -> Fetchers \cup {NoFetcher}]
    BY <1>13, EveryoneHas DEF FetchStop
  <2>4. fetched' \in [Fetchers -> {"nothing", "text", "failure"}]
    BY <1>13, EveryoneHas DEF FetchStop
  <2>5. found' \in [Fetchers -> BOOLEAN]
    BY <1>13, EveryoneHas DEF FetchStop
  <2>. QED
    BY <1>13, <2>1, <2>2, <2>3, <2>4, <2>5 DEF FetchStop
<1>. QED
  BY <1>1, <1>2, <1>3, <1>4, <1>5, <1>6, <1>7, <1>8, <1>9, <1>10, <1>11, <1>12, <1>13
     DEF FetchNext, FetchStep

(* So it holds in every behaviour.                                         *)
LEMMA FetchInvAlways == FetchSpec => []FetchInv
<1>1. FetchInit => FetchInv
  <2> SUFFICES ASSUME FetchInit PROVE FetchInv
    OBVIOUS
  <2>1. /\ fetchPc \in [Fetchers -> FetchPlaces]
        /\ \A t \in Fetchers : fetchPc[t] = "idle"
    BY EveryoneHas DEF FetchInit, FetchPlaces
  <2>2. waitsFor \in [Fetchers -> Fetchers \cup {NoFetcher}]
    BY EveryoneHas DEF FetchInit
  <2>3. fetched \in [Fetchers -> {"nothing", "text", "failure"}]
    BY EveryoneHas DEF FetchInit
  <2>4. found \in [Fetchers -> BOOLEAN]
    BY EveryoneHas DEF FetchInit
  <2>. QED
    BY <2>1, <2>2, <2>3, <2>4 DEF FetchInit, FetchInv, FetchTypeOK, ClaimIsFetchers,
       TextBeforeEvent, Fetching
<1>. QED
  BY <1>1, FetchKept, PTL DEF FetchSpec

(* fetch_research: of the threads that want a page, one at most fetches    *)
(* it, and the claim is its own: for any number of threads.                *)
THEOREM FetchesAreApart == FetchSpec => []OneFetchAtATime
<1>1. FetchInv => OneFetchAtATime
  BY DEF FetchInv, ClaimIsFetchers, OneFetchAtATime, Fetching
<1>. QED
  BY <1>1, FetchInvAlways, PTL

(* fetch_research: a thread that has waited for another's fetch finds the  *)
(* page, if the other one had it: for any number of threads, and whatever  *)
(* becomes of the file of the cache.                                       *)
THEOREM WaitersFindText == FetchSpec => []WaiterFindsText
<1>1. FetchInv => WaiterFindsText
  BY DEF FetchInv, TextBeforeEvent, WaiterFindsText, InCache
<1>. QED
  BY <1>1, FetchInvAlways, PTL

-----------------------------------------------------------------------------
(* ModelCall: a turn stays within its budget.                              *)

\* The providers.
Providers == {"ollama", "anthropic", "openai", "gemini"}

\* What a turn may be, and no turn.
Turns == {"none", "stream", "tools", "request", "generate", "ask"}

\* Every variable has its type; a chain of providers is never empty.
ModelTypeOK ==
  /\ chain \in Seq(Providers) /\ Len(chain) >= 1
  /\ turn \in Turns
  /\ round \in Nat
  /\ at \in 0..Len(chain)
  /\ tried \in Nat
  /\ plain \in BOOLEAN
  /\ calls \in BOOLEAN
  /\ stream \in [open : BOOLEAN, events : Nat, counts : Nat]
  /\ lastUsage \in Nat
  /\ posts \in [1..Len(chain) -> Nat]
  /\ answers \in Nat
  /\ charged \in SUBSET Nat

\* A turn that is over asks nobody; one that streams has one provider, and is
\* asked once for one answer.
TurnShape ==
  /\ turn = "none" => at = 0
  /\ stream.open => Streams /\ at > 0
  /\ Streams => Len(chain) <= 1
  /\ Streams /\ Asking => lastUsage = 0 /\ answers = 0

\* What has been posted to the provider that is asked: its retry loop counts,
\* and at the local server there may have been one loop before.
PostsCounted ==
  Asking =>
    /\ plain => turn = "tools" /\ chain[at] = "ollama"
    /\ chain[at] = "ollama" => tried <= 2
    /\ chain[at] \in {"anthropic", "openai"} => tried <= 3
    /\ Streams \/ chain[at] = "gemini" => tried = 0
    /\ IF plain THEN posts[at] \in 1..(tried + 3) ELSE posts[at] = tried
    /\ \A i \in 1..Len(chain) : i < at => posts[i] \in 1..Budget(chain[i])
    /\ \A i \in 1..Len(chain) : i > at => posts[i] = 0

\* The counts that are held are those of the last answer, or none.
CountsOfLast ==
  /\ lastUsage \in {0, answers}
  /\ stream.counts \in {0, answers}
  /\ ~stream.open => stream.counts = 0
  /\ turn # "none" => charged = {}
  /\ charged \subseteq {answers}

\* The parts together are inductive.
ModelInv == ModelTypeOK /\ TurnShape /\ PostsCounted /\ CountsOfLast

(* How many requests one provider may be sent for one answer.              *)
LEMMA BudgetOf ==
  /\ \A api : Budget(api) \in Nat
  /\ \A api : Budget(api) >= 1
  /\ Streams => \A api : Budget(api) = 1
  /\ Budget("gemini") = 1
  /\ ~Streams => Budget("anthropic") = 4 /\ Budget("openai") = 4
  /\ ~Streams => Budget("ollama") = IF turn = "tools" THEN 6 ELSE 3
<1>1. ASSUME Streams PROVE \A api : Budget(api) = 1
  BY <1>1 DEF Budget
<1>2. Budget("gemini") = 1
  BY DEF Budget
<1>3. ASSUME ~Streams PROVE Budget("anthropic") = 4 /\ Budget("openai") = 4
  BY <1>3 DEF Budget
<1>4. ASSUME ~Streams PROVE \A api : api \notin {"gemini", "anthropic", "openai"} =>
                              Budget(api) = IF turn = "tools" THEN 6 ELSE 3
  BY <1>4 DEF Budget
<1>5. ASSUME NEW api PROVE Budget(api) \in {1, 3, 4, 6}
  <2>1. CASE Streams
    BY <1>1, <2>1
  <2>2. CASE ~Streams /\ api \in {"gemini", "anthropic", "openai"}
    BY <1>2, <1>3, <2>2
  <2>3. CASE ~Streams /\ api \notin {"gemini", "anthropic", "openai"}
    BY <1>4, <2>3
  <2>. QED
    BY <2>1, <2>2, <2>3
<1>6. \A api : Budget(api) \in Nat /\ Budget(api) >= 1
  BY <1>5
<1>. QED
  BY <1>1, <1>2, <1>3, <1>4, <1>6

(* One more POST stays within what the provider may get.                   *)
LEMMA RoomForOne ==
  ASSUME ModelInv, Asking
  PROVE  at \in 1..Len(chain) /\ posts[at] \in Nat /\ posts[at] < Budget(chain[at])
<1>1. at \in 1..Len(chain) /\ chain[at] \in Providers /\ posts[at] \in Nat /\ tried \in Nat
  BY DEF ModelInv, ModelTypeOK, Asking
<1>2. CASE Streams
  BY <1>1, <1>2, BudgetOf DEF ModelInv, PostsCounted, Streams
<1>3. CASE ~Streams
  BY <1>1, <1>3, BudgetOf DEF ModelInv, PostsCounted, Providers
<1>. QED
  BY <1>1, <1>2, <1>3

(* What the loops have counted is within the budget.                       *)
LEMMA BudgetHolds == ModelInv => WithinBudget
<1> SUFFICES ASSUME ModelInv PROVE WithinBudget
  OBVIOUS
<1>1. charged \subseteq {answers}
  BY DEF ModelInv, CountsOfLast
<1>2. ASSUME Asking, NEW i \in 1..Len(chain)
      PROVE  /\ i < at => posts[i] \in 1..Budget(chain[i])
             /\ i = at => posts[i] < Budget(chain[i])
             /\ i > at => posts[i] = 0
  BY <1>2, RoomForOne DEF ModelInv, PostsCounted
<1>. QED
  BY <1>1, <1>2 DEF WithinBudget

(* A turn begins with nothing sent.                                        *)
LEMMA NoPostsYet ==
  ASSUME NEW c \in Seq(Providers)
  PROVE  NoPosts(c) \in [1..Len(c) -> Nat] /\ \A i \in 1..Len(c) : NoPosts(c)[i] = 0
BY DEF NoPosts

(* Every step of a turn keeps this: a loop that goes round again had room  *)
(* for one request more, and a provider that is left behind stays within   *)
(* its budget.                                                             *)
LEMMA ModelKept == ModelInv /\ [ModelNext]_modelVars => ModelInv'
<1> SUFFICES ASSUME ModelInv, [ModelNext]_modelVars PROVE ModelInv'
  OBVIOUS
<1>1. ModelTypeOK /\ TurnShape /\ PostsCounted /\ CountsOfLast
  BY DEF ModelInv
<1>2. CASE UNCHANGED modelVars
  BY <1>1, <1>2 DEF modelVars, ModelInv, ModelTypeOK, TurnShape, PostsCounted, CountsOfLast,
     Streams, Asking, Budget
<1>3. ASSUME NEW c \in Chains, NEW how \in {"stream", "tools", "request", "generate", "ask"},
             BeginTurn(c, how)
      PROVE  ModelInv'
  <2>1. c \in Seq(Providers) /\ Len(c) \in Nat /\ Len(c) >= 1
    <3>1. c \in Seq(Providers) /\ c # <<>>
      BY ModelAssumption DEF Providers
    <3>. QED
      BY <3>1
  <2>2. /\ chain' = c /\ turn' = how /\ round' = 1 /\ at' = 1 /\ tried' = 0 /\ plain' = FALSE
        /\ calls' = FALSE /\ stream' = Closed
        /\ lastUsage' = 0 /\ posts' = NoPosts(c) /\ answers' = 0 /\ charged' = {}
        /\ how \in {"stream", "request"} => Len(c) <= 1
    BY <1>3, <2>1 DEF BeginTurn
  <2>3. stream' \in [open : BOOLEAN, events : Nat, counts : Nat]
        /\ ~stream'.open /\ stream'.counts = 0
    BY <2>2 DEF Closed
  <2>4. posts' \in [1..Len(c) -> Nat] /\ \A i \in 1..Len(c) : posts'[i] = 0
    BY <2>1, <2>2, NoPostsYet
  <2>5. ModelTypeOK'
    <3>1. chain' \in Seq(Providers) /\ Len(chain') >= 1 /\ at' \in 0..Len(chain')
      BY <2>1, <2>2
    <3>2. posts' \in [1..Len(chain') -> Nat]
      BY <2>2, <2>4
    <3>. QED
      BY <2>2, <2>3, <3>1, <3>2 DEF ModelTypeOK, Turns
  <2>6. TurnShape' /\ CountsOfLast'
    BY <2>1, <2>2, <2>3 DEF TurnShape, CountsOfLast, Streams, Asking
  <2>7. PostsCounted'
    BY <2>1, <2>2, <2>3, <2>4 DEF PostsCounted, Asking
  <2>. QED
    BY <2>5, <2>6, <2>7 DEF ModelInv
<1>4. ASSUME Asking, Posted PROVE /\ posts' \in [1..Len(chain) -> Nat]
                                  /\ \A i \in 1..Len(chain) : i # at => posts'[i] = posts[i]
                                  /\ posts'[at] = posts[at] + 1
                                  /\ posts'[at] \in 1..Budget(chain[at])
                                  /\ at \in 1..Len(chain) /\ chain[at] \in Providers
  <2>1. at \in 1..Len(chain) /\ posts[at] \in Nat /\ posts[at] < Budget(chain[at])
        /\ posts \in [1..Len(chain) -> Nat] /\ chain[at] \in Providers
    BY <1>1, <1>4, RoomForOne DEF ModelTypeOK
  <2>2. posts' = [posts EXCEPT ![at] = posts[at] + 1]
    BY <1>4 DEF Posted
  <2>3. posts'[at] = posts[at] + 1 /\ \A i \in 1..Len(chain) : i # at => posts'[i] = posts[i]
    BY <2>1, <2>2
  <2>4. posts' \in [1..Len(chain) -> Nat]
    BY <2>1, <2>2
  <2>. QED
    BY <2>1, <2>3, <2>4, BudgetOf
<1>5. ASSUME NEW failure \in Failures, PostAgain(failure) PROVE ModelInv'
  <2>1. /\ Asking /\ TriedAgain(failure) /\ tried' = tried + 1 /\ Posted
        /\ UNCHANGED <<chain, turn, round, at, plain, calls, stream, lastUsage, answers, charged>>
    BY <1>5 DEF PostAgain, TheAnswer
  <2>2. ~Streams /\ \/ chain[at] = "ollama" /\ tried < 2
                    \/ chain[at] \in {"anthropic", "openai"} /\ tried < 3
    BY <2>1 DEF TriedAgain, Cloud
  <2>3. ModelTypeOK' /\ TurnShape' /\ CountsOfLast'
    BY <1>1, <1>4, <2>1 DEF ModelTypeOK, TurnShape, CountsOfLast, Streams, Asking
  <2>4. PostsCounted'
    <3>1. tried \in Nat /\ \A api : Budget(api)' = Budget(api)
      BY <1>1, <2>1 DEF ModelTypeOK, Budget, Streams
    <3>. QED
      BY SMTT(30), <1>1, <1>4, <2>1, <2>2, <3>1 DEF PostsCounted, Asking, Streams
  <2>. QED
    BY <2>3, <2>4 DEF ModelInv
<1>6. ASSUME NEW failure \in Failures, PostWithoutTools(failure) PROVE ModelInv'
  <2>1. /\ Asking /\ WithoutTools /\ plain' = TRUE /\ tried' = 0 /\ Posted
        /\ UNCHANGED <<chain, turn, round, at, calls, stream, lastUsage, answers, charged>>
    BY <1>6 DEF PostWithoutTools, TheAnswer
  <2>2. chain[at] = "ollama" /\ turn = "tools" /\ ~plain /\ ~Streams
    BY <2>1 DEF WithoutTools, Streams
  <2>3. ModelTypeOK' /\ TurnShape' /\ CountsOfLast'
    BY <1>1, <1>4, <2>1 DEF ModelTypeOK, TurnShape, CountsOfLast, Streams, Asking
  <2>4. PostsCounted'
    <3>1. tried \in Nat /\ tried <= 2 /\ posts[at] = tried /\ \A api : Budget(api)' = Budget(api)
      BY <1>1, <2>1, <2>2 DEF ModelTypeOK, Budget, Streams, PostsCounted
    <3>. QED
      BY <1>1, <1>4, <2>1, <2>2, <3>1 DEF PostsCounted, Asking, Streams
  <2>. QED
    BY <2>3, <2>4 DEF ModelInv
<1>7. ASSUME NEW failure \in Failures, NextProvider(failure) PROVE ModelInv'
  <2>1. /\ Asking /\ at < Len(chain) /\ at' = at + 1 /\ tried' = 0 /\ plain' = FALSE /\ Posted
        /\ UNCHANGED <<chain, turn, round, calls, stream, lastUsage, answers, charged>>
    BY <1>7 DEF NextProvider, TheAnswer
  <2>2. at \in 1..Len(chain) /\ chain \in Seq(Providers)
    BY <1>1, <2>1 DEF ModelTypeOK, Asking
  <2>3. ~Streams
    <3>1. Len(chain) > 1
      BY <2>1, <2>2
    <3>. QED
      BY <1>1, <2>2, <3>1 DEF TurnShape
  <2>4. ModelTypeOK'
    <3>1. at' \in 0..Len(chain')
      BY <2>1, <2>2
    <3>2. posts' \in [1..Len(chain') -> Nat]
      BY <1>4, <2>1
    <3>3. chain' \in Seq(Providers) /\ Len(chain') >= 1
      BY <1>1, <2>1 DEF ModelTypeOK
    <3>. QED
      BY <1>1, <2>1, <3>1, <3>2, <3>3 DEF ModelTypeOK
  <2>5. TurnShape' /\ CountsOfLast'
    BY <1>1, <2>1, <2>3 DEF TurnShape, CountsOfLast, Streams, Asking
  <2>6. PostsCounted'
    <3>1. \A api : Budget(api)' = Budget(api)
      BY <2>1 DEF Budget, Streams
    <3>2. \A i \in 1..Len(chain) : i < at' => posts'[i] \in 1..Budget(chain[i])
      BY <1>1, <1>4, <2>1, <2>2 DEF PostsCounted
    <3>3. posts'[at'] = 0 /\ \A i \in 1..Len(chain) : i > at' => posts'[i] = 0
      <4>1. \A i \in 1..Len(chain) : i > at => posts'[i] = 0
        BY <1>1, <1>4, <2>1, <2>2 DEF PostsCounted
      <4>2. at' \in 1..Len(chain) /\ at' > at
        BY <2>1, <2>2
      <4>. QED
        BY <2>1, <2>2, <4>1, <4>2
    <3>. QED
      BY <2>1, <2>2, <2>3, <3>1, <3>2, <3>3 DEF PostsCounted
  <2>. QED
    BY <2>4, <2>5, <2>6 DEF ModelInv
<1>8. ASSUME NEW failure \in Failures, CallFails(failure) PROVE ModelInv'
  BY <1>1, <1>4, <1>8 DEF CallFails, TheAnswer, ModelInv, ModelTypeOK, TurnShape, PostsCounted,
     CountsOfLast, Streams, Asking, Turns
<1>9. ASSUME NEW asks \in BOOLEAN, Asking, ~Streams, Answered(asks) PROVE ModelInv'
  <2>1. /\ answers' = answers + 1 /\ lastUsage' \in {answers + 1, 0} /\ calls' = asks
        /\ at' = 0 /\ Posted
        /\ UNCHANGED <<chain, turn, round, tried, plain, stream, charged>>
    BY <1>9 DEF Answered
  <2>2. turn # "none" /\ ~stream.open
    BY <1>1, <1>9 DEF TurnShape, Asking, ModelTypeOK
  <2>3. ModelTypeOK'
    BY <1>1, <1>4, <1>9, <2>1 DEF ModelTypeOK
  <2>4. TurnShape' /\ PostsCounted'
    BY <1>9, <2>1, <2>2 DEF TurnShape, PostsCounted, Streams, Asking
  <2>5. CountsOfLast'
    BY <1>1, <2>1, <2>2 DEF TurnShape, CountsOfLast
  <2>. QED
    BY <2>3, <2>4, <2>5 DEF ModelInv
<1>10. CASE TextAnswered
  BY <1>9, <1>10 DEF TextAnswered, OllamaText, CloudText
<1>11. CASE ToolsAnswered
  BY <1>9, <1>11 DEF ToolsAnswered, WithTools, OllamaTools, AnthropicTools, OpenAITools,
     GeminiTools, Streams
<1>12. CASE OpenStream
  <2>1. /\ Asking /\ Streams /\ stream' = [Closed EXCEPT !.open = TRUE]
        /\ answers' = answers + 1 /\ Posted
        /\ UNCHANGED <<chain, turn, round, at, tried, plain, calls, lastUsage, charged>>
    BY <1>12 DEF OpenStream
  <2>2. stream' = [open |-> TRUE, events |-> 0, counts |-> 0]
    BY <2>1 DEF Closed
  <2>3. turn # "none" /\ lastUsage = 0 /\ answers = 0 /\ at > 0
    BY <1>1, <2>1 DEF TurnShape, Asking, Streams
  <2>4. ModelTypeOK'
    <3>1. posts' \in [1..Len(chain') -> Nat]
      BY <1>4, <2>1
    <3>2. stream' \in [open : BOOLEAN, events : Nat, counts : Nat]
      BY <2>2
    <3>. QED
      BY <1>1, <2>1, <3>1, <3>2 DEF ModelTypeOK
  <2>5. TurnShape' /\ PostsCounted' /\ CountsOfLast'
    BY <1>1, <2>1, <2>2, <2>3 DEF TurnShape, PostsCounted, CountsOfLast, Streams, Asking
  <2>. QED
    BY <2>4, <2>5 DEF ModelInv
<1>13. CASE ReadStream
  <2>1. stream.open /\ turn # "none" /\ charged = {} /\ Streams
    BY <1>1, <1>13 DEF ReadStream, TurnShape, CountsOfLast, Streams
  <2>2. ASSUME NEW counts \in {0, answers}, CloseStream(counts) PROVE ModelInv'
    <3>1. /\ stream' = [open |-> FALSE, events |-> 0, counts |-> 0]
          /\ at' = 0 /\ lastUsage' = counts
          /\ UNCHANGED <<chain, turn, round, tried, plain, calls, posts, answers, charged>>
      BY <2>2 DEF CloseStream, Closed, TheCall
    <3>. QED
      BY <1>1, <2>1, <3>1 DEF ModelInv, ModelTypeOK, TurnShape, PostsCounted, CountsOfLast,
         Streams, Asking
  <2>3. CASE TakeDown
    <3>1. /\ stream' = [stream EXCEPT !.counts = answers]
          /\ UNCHANGED <<at, lastUsage, chain, turn, round, tried, plain, calls, posts, answers, charged>>
      BY <2>3 DEF TakeDown, TheCall
    <3>2. stream' \in [open : BOOLEAN, events : Nat, counts : Nat]
          /\ stream'.open = stream.open /\ stream'.counts = answers
      BY <1>1, <3>1 DEF ModelTypeOK
    <3>. QED
      BY <1>1, <2>1, <3>1, <3>2 DEF ModelInv, ModelTypeOK, TurnShape, PostsCounted, CountsOfLast,
         Streams, Asking
  <2>4. CASE OpenAIEvent
    BY <1>1, <2>1, <2>4 DEF OpenAIEvent, TheCall, ModelInv, ModelTypeOK, TurnShape, PostsCounted,
       CountsOfLast, Streams, Asking
  <2>5. CASE StreamText
    <3>1. /\ stream' = [stream EXCEPT !.events = @ + 1]
          /\ UNCHANGED <<at, lastUsage, chain, turn, round, tried, plain, calls, posts, answers, charged>>
      BY <2>5 DEF StreamText, TheCall
    <3>2. stream' \in [open : BOOLEAN, events : Nat, counts : Nat]
          /\ stream'.open = stream.open /\ stream'.counts = stream.counts
      BY <1>1, <3>1 DEF ModelTypeOK
    <3>. QED
      BY <1>1, <2>1, <3>1, <3>2 DEF ModelInv, ModelTypeOK, TurnShape, PostsCounted, CountsOfLast,
         Streams, Asking
  <2>6. CASE StreamBreaks
    <3>1. /\ stream' = [open |-> FALSE, events |-> 0, counts |-> 0]
          /\ at' = 0 /\ turn' = "none"
          /\ UNCHANGED <<chain, round, tried, plain, calls, lastUsage, posts, answers, charged>>
      BY <2>6 DEF StreamBreaks, Closed
    <3>. QED
      BY <1>1, <2>1, <3>1 DEF ModelInv, ModelTypeOK, TurnShape, PostsCounted, CountsOfLast,
         Streams, Asking, Turns
  <2>7. stream.counts \in {0, answers} /\ lastUsage \in {0, answers}
    BY <1>1 DEF CountsOfLast
  <2>8. CASE OllamaEvent \/ AnthropicEvent \/ GeminiEvent \/ StreamEnds
    BY <2>2, <2>3, <2>7, <2>8 DEF OllamaEvent, AnthropicEvent, GeminiEvent, StreamEnds
  <2>. QED
    BY <1>13, <2>4, <2>5, <2>6, <2>8 DEF ReadStream
<1>14. CASE AskAgain
  <2>1. /\ turn = "tools" /\ at = 0 /\ round' = round + 1
        /\ at' = 1 /\ tried' = 0 /\ plain' = FALSE /\ posts' = NoPosts(chain)
        /\ UNCHANGED <<chain, turn, calls, stream, lastUsage, answers, charged>>
    BY <1>14 DEF AskAgain, TheAnswer
  <2>2. /\ posts' \in [1..Len(chain) -> Nat]
        /\ \A i \in 1..Len(chain) : posts'[i] = 0
        /\ chain \in Seq(Providers) /\ Len(chain) >= 1 /\ 1 \in 1..Len(chain)
    BY <1>1, <2>1, NoPostsYet DEF ModelTypeOK
  <2>3. ModelTypeOK'
    <3>1. posts' \in [1..Len(chain') -> Nat]
      BY <2>1, <2>2
    <3>2. chain \in Seq(Providers) /\ Len(chain) >= 1 /\ at' = 1 /\ chain' = chain
      BY <2>1, <2>2
    <3>3. at' \in 0..Len(chain')
      BY <3>2
    <3>4. round' \in Nat /\ tried' \in Nat
      BY <1>1, <2>1 DEF ModelTypeOK
    <3>5. /\ turn' \in Turns /\ plain' \in BOOLEAN /\ calls' \in BOOLEAN
          /\ stream' \in [open : BOOLEAN, events : Nat, counts : Nat]
          /\ lastUsage' \in Nat /\ answers' \in Nat /\ charged' \in SUBSET Nat
      BY <1>1, <2>1 DEF ModelTypeOK
    <3>. QED
      BY <3>1, <3>2, <3>3, <3>4, <3>5 DEF ModelTypeOK
  <2>4. TurnShape' /\ CountsOfLast'
    BY <1>1, <2>1 DEF TurnShape, CountsOfLast, Streams, Asking
  <2>5. PostsCounted'
    <3>1. posts'[at'] = 0 /\ tried' = 0 /\ ~plain'
      BY <2>1, <2>2
    <3>2. \A i \in 1..Len(chain') : ~(i < at') /\ posts'[i] = 0
      BY <2>1, <2>2
    <3>. QED
      BY <3>1, <3>2 DEF PostsCounted
  <2>. QED
    BY <2>3, <2>4, <2>5 DEF ModelInv
<1>15. CASE EndTurn
  <2>1. /\ turn # "none" /\ at = 0 /\ turn' = "none"
        /\ charged' \in {{}, {lastUsage} \ {0}}
        /\ UNCHANGED <<chain, round, at, tried, plain, calls, stream, lastUsage, posts, answers>>
    BY <1>15 DEF EndTurn, ModelIdle
  <2>2. charged' \subseteq {answers} /\ answers \in Nat
    BY <1>1, <2>1 DEF CountsOfLast, ModelTypeOK
  <2>. QED
    BY <1>1, <2>1, <2>2 DEF ModelInv, ModelTypeOK, TurnShape, PostsCounted, CountsOfLast,
       Streams, Asking, Turns
<1>. QED
  BY <1>2, <1>3, <1>5, <1>6, <1>7, <1>8, <1>10, <1>11, <1>12, <1>13, <1>14, <1>15
     DEF ModelNext, ModelStep

(* _retry_with_backoff, _call_with_retry and FallbackLLMClient: the        *)
(* retries of a call are bounded for each provider, one is not asked       *)
(* before those in front of it have failed, and a turn is charged for its  *)
(* last answer or for none: for any chains of providers, rounds and        *)
(* failures.                                                               *)
THEOREM TurnsStayWithinBudget == ModelSpec => []WithinBudget
<1>1. ModelInit => ModelInv
  <2> SUFFICES ASSUME ModelInit PROVE ModelInv
    OBVIOUS
  <2>1. chain = <<"ollama">> /\ chain \in Seq(Providers) /\ Len(chain) <= 1 /\ Len(chain) >= 1
    BY DEF ModelInit, Providers
  <2>2. posts \in [1..Len(chain) -> Nat]
    BY <2>1, NoPostsYet DEF ModelInit
  <2>3. stream = [open |-> FALSE, events |-> 0, counts |-> 0]
    BY DEF ModelInit, Closed
  <2>4. ModelTypeOK
    <3>1. at \in 0..Len(chain)
      BY <2>1 DEF ModelInit
    <3>2. stream \in [open : BOOLEAN, events : Nat, counts : Nat]
      BY <2>3
    <3>. QED
      BY <2>1, <2>2, <3>1, <3>2 DEF ModelInit, ModelTypeOK, Turns
  <2>. QED
    BY <2>3, <2>4 DEF ModelInit, ModelInv, TurnShape, PostsCounted, CountsOfLast, Streams, Asking
<1>. QED
  BY <1>1, ModelKept, BudgetHolds, PTL DEF ModelSpec

-----------------------------------------------------------------------------
(* McpStdio: answers lag by the notifications.                             *)

\* The lines that a server writes.
Lines ==
  {l \in [line : {"answer", "note", "noise"}, id : Nat] : l.line = "answer" \/ l.id = 0}

\* The answers in the pipe p and the requests a that are still to be answered
\* are those of the numbers from first to last, in this order.
InTurn(p, a, first, last) ==
  /\ \A j, k \in 1..Len(p) :
       j < k /\ p[j].line = "answer" /\ p[k].line = "answer" => p[j].id < p[k].id
  /\ \A j, k \in 1..Len(a) : j < k => a[j] < a[k]
  /\ \A j \in 1..Len(p), k \in 1..Len(a) : p[j].line = "answer" => p[j].id < a[k]
  /\ \A j \in 1..Len(p) : p[j].line = "answer" => p[j].id \in first..last
  /\ \A k \in 1..Len(a) : a[k] \in first..last
  /\ \A n \in first..last : \/ \E j \in 1..Len(p) : p[j].line = "answer" /\ p[j].id = n
                            \/ \E k \in 1..Len(a) : a[k] = n

(* What stays of a queue when its first element is taken.                  *)
LEMMA TailOf ==
  ASSUME NEW S, NEW q \in Seq(S), q # <<>>
  PROVE  /\ Len(q) \in Nat /\ Len(q) >= 1 /\ 1 \in 1..Len(q)
         /\ Head(q) = q[1] /\ Head(q) \in S
         /\ Tail(q) \in Seq(S) /\ Len(Tail(q)) = Len(q) - 1
         /\ \A i \in 1..Len(Tail(q)) : i + 1 \in 1..Len(q) /\ Tail(q)[i] = q[i + 1]
         /\ \A i \in 1..Len(q) : i = 1 \/ (i - 1 \in 1..Len(Tail(q)) /\ Tail(q)[i - 1] = q[i])
<1>1. Len(q) \in Nat /\ Len(q) >= 1
  OBVIOUS
<1>2. /\ Head(q) = q[1] /\ Head(q) \in S
      /\ Tail(q) \in Seq(S) /\ Len(Tail(q)) = Len(q) - 1
      /\ \A i \in 1..Len(Tail(q)) : Tail(q)[i] = q[i + 1]
  BY <1>1, HeadTailProperties
<1>. QED
  BY <1>1, <1>2

(* What a queue is when an element is appended.                            *)
LEMMA AppendTo ==
  ASSUME NEW S, NEW q \in Seq(S), NEW x \in S
  PROVE  /\ Append(q, x) \in Seq(S) /\ Len(q) \in Nat /\ Len(Append(q, x)) = Len(q) + 1
         /\ \A i \in 1..Len(q) : i \in 1..Len(Append(q, x)) /\ Append(q, x)[i] = q[i]
         /\ Append(q, x)[Len(q) + 1] = x /\ Len(q) + 1 \in 1..Len(Append(q, x))
         /\ \A i \in 1..Len(Append(q, x)) : i \in 1..Len(q) \/ i = Len(q) + 1
<1>1. /\ Append(q, x) \in Seq(S) /\ Len(Append(q, x)) = Len(q) + 1
      /\ \A i \in 1..Len(q) : Append(q, x)[i] = q[i]
      /\ Append(q, x)[Len(q) + 1] = x
  BY AppendProperties
<1>. QED
  BY <1>1

(* A request is answered.                                                  *)
LEMMA AnswerWritten ==
  ASSUME NEW p \in Seq(Lines), NEW a \in Seq(Nat), NEW first \in Int, NEW last \in Int,
         InTurn(p, a, first, last), a # <<>>
  PROVE  /\ Append(p, Answer(Head(a))) \in Seq(Lines) /\ Tail(a) \in Seq(Nat)
         /\ InTurn(Append(p, Answer(Head(a))), Tail(a), first, last)
<1> DEFINE x == Answer(Head(a))
           q == Append(p, x)
           b == Tail(a)
<1>1. /\ Len(a) \in Nat /\ Len(a) >= 1 /\ 1 \in 1..Len(a)
      /\ Head(a) = a[1] /\ Head(a) \in Nat /\ b \in Seq(Nat) /\ Len(b) = Len(a) - 1
      /\ \A i \in 1..Len(b) : i + 1 \in 1..Len(a) /\ b[i] = a[i + 1]
      /\ \A i \in 1..Len(a) : i = 1 \/ (i - 1 \in 1..Len(b) /\ b[i - 1] = a[i])
  BY TailOf
<1>2. x \in Lines /\ x.line = "answer" /\ x.id = a[1]
  BY <1>1 DEF Answer, Lines
<1>3. /\ q \in Seq(Lines) /\ Len(p) \in Nat /\ Len(q) = Len(p) + 1
      /\ \A i \in 1..Len(p) : i \in 1..Len(q) /\ q[i] = p[i]
      /\ q[Len(p) + 1] = x /\ Len(p) + 1 \in 1..Len(q)
      /\ \A i \in 1..Len(q) : i \in 1..Len(p) \/ i = Len(p) + 1
  BY <1>2, AppendTo
<1> HIDE DEF x, q, b
<1>4. ASSUME NEW j \in 1..Len(q), NEW k \in 1..Len(q), j < k, q[j].line = "answer",
             q[k].line = "answer"
      PROVE  q[j].id < q[k].id
  <2>1. j \in 1..Len(p) /\ q[j] = p[j]
    BY <1>3, <1>4
  <2>2. CASE k \in 1..Len(p)
    <3>1. q[k] = p[k]
      BY <1>3, <2>2
    <3>. QED
      BY <1>4, <2>1, <2>2, <3>1 DEF InTurn
  <2>3. CASE k = Len(p) + 1
    <3>1. q[k].id = a[1]
      BY <1>2, <1>3, <2>3
    <3>. QED
      BY <1>1, <1>4, <2>1, <3>1 DEF InTurn
  <2>. QED
    BY <1>3, <2>2, <2>3
<1>5. ASSUME NEW j \in 1..Len(b), NEW k \in 1..Len(b), j < k PROVE b[j] < b[k]
  <2>1. /\ j + 1 \in 1..Len(a) /\ b[j] = a[j + 1]
        /\ k + 1 \in 1..Len(a) /\ b[k] = a[k + 1]
        /\ j + 1 < k + 1
    BY SMTT(30), <1>1, <1>5
  <2>. QED
    BY <2>1 DEF InTurn
<1>6. ASSUME NEW j \in 1..Len(q), NEW k \in 1..Len(b), q[j].line = "answer"
      PROVE  q[j].id < b[k]
  <2>1. k + 1 \in 1..Len(a) /\ b[k] = a[k + 1] /\ 1 < k + 1
    BY <1>1
  <2>2. CASE j \in 1..Len(p)
    BY ZenonT(60), <1>3, <1>6, <2>1, <2>2 DEF InTurn
  <2>3. CASE j = Len(p) + 1
    BY <1>1, <1>2, <1>3, <2>1, <2>3 DEF InTurn
  <2>. QED
    BY <1>3, <2>2, <2>3
<1>7. ASSUME NEW j \in 1..Len(q), q[j].line = "answer" PROVE q[j].id \in first..last
  BY <1>1, <1>2, <1>3, <1>7 DEF InTurn
<1>8. \A k \in 1..Len(b) : b[k] \in first..last
  BY <1>1 DEF InTurn
<1>9. ASSUME NEW n \in first..last
      PROVE  \/ \E j \in 1..Len(q) : q[j].line = "answer" /\ q[j].id = n
             \/ \E k \in 1..Len(b) : b[k] = n
  <2>1. CASE \E j \in 1..Len(p) : p[j].line = "answer" /\ p[j].id = n
    BY <1>3, <2>1
  <2>2. CASE \E k \in 1..Len(a) : a[k] = n
    <3>1. PICK k \in 1..Len(a) : a[k] = n
      BY <2>2
    <3>2. CASE k = 1
      BY <1>2, <1>3, <3>1, <3>2
    <3>3. CASE k # 1
      BY <1>1, <3>1, <3>3
    <3>. QED
      BY <3>2, <3>3
  <2>. QED
    BY <2>1, <2>2 DEF InTurn
<1>10. InTurn(q, b, first, last)
  BY <1>4, <1>5, <1>6, <1>7, <1>8, <1>9 DEF InTurn
<1>. QED
  BY <1>1, <1>3, <1>10 DEF q, b, x

(* The server says something else.                                         *)
LEMMA OtherLineWritten ==
  ASSUME NEW p \in Seq(Lines), NEW a \in Seq(Nat), NEW first \in Int, NEW last \in Int,
         InTurn(p, a, first, last), NEW line \in Lines, line.line # "answer"
  PROVE  InTurn(Append(p, line), a, first, last)
<1> DEFINE q == Append(p, line)
<1>1. /\ q \in Seq(Lines) /\ Len(p) \in Nat /\ Len(q) = Len(p) + 1
      /\ \A i \in 1..Len(p) : i \in 1..Len(q) /\ q[i] = p[i]
      /\ q[Len(p) + 1] = line /\ Len(p) + 1 \in 1..Len(q)
      /\ \A i \in 1..Len(q) : i \in 1..Len(p) \/ i = Len(p) + 1
  BY AppendTo
<1> HIDE DEF q
<1>2. \A i \in 1..Len(q) : q[i].line = "answer" => i \in 1..Len(p) /\ q[i] = p[i]
  BY <1>1
<1>3. InTurn(q, a, first, last)
  BY <1>1, <1>2 DEF InTurn
<1>. QED
  BY <1>3 DEF q

(* The client reads a line that is no answer.                              *)
LEMMA OtherLineRead ==
  ASSUME NEW p \in Seq(Lines), NEW a \in Seq(Nat), NEW first \in Int, NEW last \in Int,
         InTurn(p, a, first, last), p # <<>>, Head(p).line # "answer"
  PROVE  InTurn(Tail(p), a, first, last)
<1> DEFINE q == Tail(p)
<1>1. /\ Len(p) \in Nat /\ Head(p) = p[1] /\ Len(q) = Len(p) - 1 /\ Len(q) \in Nat
      /\ \A i \in 1..Len(q) : i + 1 \in 1..Len(p) /\ q[i] = p[i + 1]
      /\ \A i \in 1..Len(p) : i = 1 \/ (i - 1 \in 1..Len(q) /\ q[i - 1] = p[i])
  BY TailOf
<1> HIDE DEF q
<1>2. ASSUME NEW j \in 1..Len(q), NEW k \in 1..Len(q), j < k, q[j].line = "answer",
             q[k].line = "answer"
      PROVE  q[j].id < q[k].id
  <2>1. /\ j + 1 \in 1..Len(p) /\ q[j] = p[j + 1]
        /\ k + 1 \in 1..Len(p) /\ q[k] = p[k + 1]
    BY <1>1
  <2>2. j + 1 < k + 1
    BY <1>1, <1>2
  <2>. QED
    BY <2>1, <2>2, <1>2 DEF InTurn
<1>3. \A j \in 1..Len(q), k \in 1..Len(a) : q[j].line = "answer" => q[j].id < a[k]
  BY SMTT(30), <1>1 DEF InTurn
<1>4. \A j \in 1..Len(q) : q[j].line = "answer" => q[j].id \in first..last
  BY <1>1 DEF InTurn
<1>5. ASSUME NEW n \in first..last, NEW j \in 1..Len(p), p[j].line = "answer", p[j].id = n
      PROVE  \E i \in 1..Len(q) : q[i].line = "answer" /\ q[i].id = n
  <2>1. j # 1
    BY <1>1, <1>5
  <2>. QED
    BY <1>1, <1>5, <2>1
<1>6. InTurn(q, a, first, last)
  BY <1>2, <1>3, <1>4, <1>5 DEF InTurn
<1>. QED
  BY <1>6 DEF q

(* The client reads an answer: it is the first one that is outstanding.    *)
LEMMA AnswerRead ==
  ASSUME NEW p \in Seq(Lines), NEW a \in Seq(Nat), NEW first \in Int, NEW last \in Int,
         InTurn(p, a, first, last), p # <<>>, Head(p).line = "answer"
  PROVE  Head(p).id = first /\ InTurn(Tail(p), a, first + 1, last)
<1> DEFINE q == Tail(p)
<1>1. /\ Len(p) \in Nat /\ 1 \in 1..Len(p) /\ Head(p) = p[1] /\ Len(q) = Len(p) - 1 /\ Len(q) \in Nat
      /\ \A i \in 1..Len(q) : i + 1 \in 1..Len(p) /\ q[i] = p[i + 1]
      /\ \A i \in 1..Len(p) : i = 1 \/ (i - 1 \in 1..Len(q) /\ q[i - 1] = p[i])
  BY TailOf
<1>2. /\ \A i \in 1..Len(p) : p[i] \in Lines /\ p[i].id \in Nat
      /\ Len(a) \in Nat /\ \A k \in 1..Len(a) : a[k] \in Nat
  <2>1. \A i \in 1..Len(p) : p[i] \in Lines
    BY <1>1
  <2>2. Len(a) \in Nat /\ \A k \in 1..Len(a) : a[k] \in Nat
    OBVIOUS
  <2>. QED
    BY <2>1, <2>2 DEF Lines
<1> HIDE DEF q
<1>3. p[1].line = "answer" /\ p[1].id \in first..last
  BY <1>1 DEF InTurn
<1>4. /\ \A j \in 1..Len(p) : j # 1 /\ p[j].line = "answer" => p[1].id < p[j].id
      /\ \A k \in 1..Len(a) : p[1].id < a[k]
  BY <1>1, <1>3 DEF InTurn
<1>5. p[1].id = first
  <2>1. first \in first..last
    BY <1>3
  <2>2. CASE \E j \in 1..Len(p) : p[j].line = "answer" /\ p[j].id = first
    <3>1. PICK j \in 1..Len(p) : p[j].line = "answer" /\ p[j].id = first
      BY <2>2
    <3>2. j = 1
      BY <1>2, <1>3, <1>4, <3>1
    <3>. QED
      BY <3>1, <3>2
  <2>3. CASE \E k \in 1..Len(a) : a[k] = first
    BY <1>2, <1>3, <1>4, <2>3
  <2>. QED
    BY <2>1, <2>2, <2>3 DEF InTurn
<1>6. ASSUME NEW j \in 1..Len(q), NEW k \in 1..Len(q), j < k, q[j].line = "answer",
             q[k].line = "answer"
      PROVE  q[j].id < q[k].id
  <2>1. /\ j + 1 \in 1..Len(p) /\ q[j] = p[j + 1]
        /\ k + 1 \in 1..Len(p) /\ q[k] = p[k + 1]
    BY <1>1
  <2>2. j + 1 < k + 1
    BY <1>1, <1>6
  <2>. QED
    BY <2>1, <2>2, <1>6 DEF InTurn
<1>7. \A j \in 1..Len(q), k \in 1..Len(a) : q[j].line = "answer" => q[j].id < a[k]
  BY SMTT(30), <1>1 DEF InTurn
<1>8. ASSUME NEW j \in 1..Len(q), q[j].line = "answer" PROVE q[j].id \in (first + 1)..last
  <2>1. j + 1 \in 1..Len(p) /\ q[j] = p[j + 1] /\ j + 1 # 1
    BY <1>1
  <2>2. p[j + 1].id \in first..last /\ first < p[j + 1].id
    BY <1>4, <1>5, <1>8, <2>1 DEF InTurn
  <2>. QED
    BY <2>1, <2>2
<1>9. ASSUME NEW k \in 1..Len(a) PROVE a[k] \in (first + 1)..last
  <2>1. a[k] \in first..last /\ first < a[k]
    BY <1>4, <1>5 DEF InTurn
  <2>. QED
    BY <2>1
<1>10. ASSUME NEW n \in (first + 1)..last
       PROVE  \/ \E j \in 1..Len(q) : q[j].line = "answer" /\ q[j].id = n
              \/ \E k \in 1..Len(a) : a[k] = n
  <2>1. n \in first..last /\ n # first
    OBVIOUS
  <2>2. CASE \E j \in 1..Len(p) : p[j].line = "answer" /\ p[j].id = n
    <3>1. PICK j \in 1..Len(p) : p[j].line = "answer" /\ p[j].id = n
      BY <2>2
    <3>2. j # 1
      BY <1>5, <2>1, <3>1
    <3>. QED
      BY SMTT(30), <1>1, <3>1, <3>2
  <2>. QED
    BY <2>1, <2>2 DEF InTurn
<1>11. InTurn(q, a, first + 1, last)
  BY <1>6, <1>7, <1>8, <1>9, <1>10 DEF InTurn
<1>. QED
  BY <1>1, <1>5, <1>11 DEF q

(* Another request is written.                                             *)
LEMMA AnotherRequest ==
  ASSUME NEW p \in Seq(Lines), NEW a \in Seq(Nat), NEW first \in Int, NEW last \in Nat,
         InTurn(p, a, first, last), first <= last + 1
  PROVE  InTurn(p, Append(a, last + 1), first, last + 1)
<1> DEFINE b == Append(a, last + 1)
<1>1. /\ Len(a) \in Nat /\ Len(b) = Len(a) + 1
      /\ \A i \in 1..Len(a) : i \in 1..Len(b) /\ b[i] = a[i]
      /\ b[Len(a) + 1] = last + 1 /\ Len(a) + 1 \in 1..Len(b)
      /\ \A i \in 1..Len(b) : i \in 1..Len(a) \/ i = Len(a) + 1
  BY AppendTo
<1>2. /\ \A i \in 1..Len(p) : p[i].line = "answer" => p[i].id \in first..last
      /\ \A k \in 1..Len(a) : a[k] \in first..last
  BY DEF InTurn
<1> HIDE DEF b
<1>3. ASSUME NEW j \in 1..Len(b), NEW k \in 1..Len(b), j < k PROVE b[j] < b[k]
  <2>1. j \in 1..Len(a)
    BY <1>1, <1>3
  <2>2. CASE k \in 1..Len(a)
    BY <1>1, <1>3, <2>1, <2>2 DEF InTurn
  <2>3. CASE k = Len(a) + 1
    BY <1>1, <1>2, <2>1, <2>3
  <2>. QED
    BY <1>1, <2>2, <2>3
<1>4. ASSUME NEW j \in 1..Len(p), NEW k \in 1..Len(b), p[j].line = "answer"
      PROVE  p[j].id < b[k]
  <2>1. CASE k \in 1..Len(a)
    BY <1>1, <1>4, <2>1 DEF InTurn
  <2>2. CASE k = Len(a) + 1
    <3>1. p[j].id \in first..last /\ b[k] = last + 1
      BY <1>1, <1>2, <1>4, <2>2
    <3>. QED
      BY <3>1
  <2>. QED
    BY <1>1, <2>1, <2>2
<1>5. \A j \in 1..Len(p) : p[j].line = "answer" => p[j].id \in first..(last + 1)
  BY <1>2
<1>6. \A k \in 1..Len(b) : b[k] \in first..(last + 1)
  BY SMTT(30), <1>1, <1>2
<1>7. ASSUME NEW n \in first..(last + 1)
      PROVE  \/ \E j \in 1..Len(p) : p[j].line = "answer" /\ p[j].id = n
             \/ \E k \in 1..Len(b) : b[k] = n
  <2>1. CASE n = last + 1
    BY <1>1, <2>1
  <2>2. CASE n # last + 1
    <3>1. n \in first..last
      BY <2>2
    <3>. QED
      BY <1>1, <3>1 DEF InTurn
  <2>. QED
    BY <2>1, <2>2
<1>8. InTurn(p, b, first, last + 1)
  BY <1>3, <1>4, <1>5, <1>6, <1>7 DEF InTurn
<1>. QED
  BY <1>8 DEF b

-----------------------------------------------------------------------------

\* What is asked for, and nothing.
Methods == {"none", "initialize", "tools/list", "tools/call"}

\* The commands that are under way.
Commands ==
  [for : {"nothing", "connect", "tools", "call"}, about : SUBSET Named,
   stage : {"over", "connect", "reconnect", "ask"}, left : Seq(Named)]

\* Every variable has its type.
McpTypeOK ==
  /\ proc \in [Named -> {"none", "running", "dead"}]
  /\ conn \in [Named -> BOOLEAN]
  /\ lastId \in [Named -> Nat]
  /\ asked \in [Named -> Seq(Nat)]
  /\ pipe \in [Named -> Seq(Lines)]
  /\ command \in Commands
  /\ waiting \in [of : SUBSET Named, id : Nat, method : Methods]
  /\ extra \in Nat
  /\ notes \in [Named -> Nat]
  /\ got \in [request : Nat, behind : Nat, answer : Lines]

\* The request that is waited for is the last one of its connection.
WaitsForLast ==
  \/ waiting.of = {}
  \/ \E s \in Named : waiting.of = {s} /\ waiting.id = lastId[s]

\* A command asks a server once; while it still connects, a connection that is
\* waited for is not filed yet.
CommandShape ==
  /\ McpIdle => waiting.of = {} /\ \A s \in Named : ~conn[s]
  /\ command.for \in {"connect", "call"} => \E s \in Named : command.about = {s}
  /\ command.stage = "ask" =>
       \A j, k \in 1..Len(command.left) : command.left[j] = command.left[k] => j = k
  /\ \A s \in waiting.of : IF command.stage = "ask"
                           THEN \A k \in 1..Len(command.left) : command.left[k] # s
                           ELSE ~conn[s]

\* The first request of s that is not answered yet, were there no notifications.
First(s) == lastId[s] - notes[s] + (IF s \in waiting.of THEN 0 ELSE 1)

\* The servers that are waited for, or may be asked still.  (One that has been
\* given up keeps its lines and is not asked again.)
MayAsk(s) ==
  \/ command.stage \in {"connect", "reconnect"}
  \/ command.stage = "ask" /\ \E k \in 1..Len(command.left) : command.left[k] = s

\* Of those, the answers and the open requests are in turn.
ServersInTurn ==
  \A s \in Named :
    s \in waiting.of \/ (conn[s] /\ MayAsk(s)) => InTurn(pipe[s], asked[s], First(s), lastId[s])

\* The pipes of the servers that may be asked still are in turn.
McpInv == McpTypeOK /\ WaitsForLast /\ CommandShape /\ ServersInTurn /\ AnswersLagByNotes

(* A new connection has one request.                                       *)
LEMMA FirstRequest == InTurn(<<>>, <<1>>, 1, 1)
BY DEF InTurn

(* The servers of the configuration, each listed once.                     *)
LEMMA NamedServers ==
  /\ Servers \in Seq(Named)
  /\ \A j, k \in 1..Len(Servers) : Servers[j] = Servers[k] => j = k
<1>1. Servers \in Seq(STRING) /\ IsInjective(Servers)
  BY McpAssumption
<1>2. DOMAIN Servers = 1..Len(Servers) /\ Len(Servers) \in Nat
  BY <1>1
<1>3. \A i \in 1..Len(Servers) : Servers[i] \in Named
  BY <1>2 DEF Named, ToSet
<1>. QED
  BY <1>1, <1>2, <1>3 DEF IsInjective

(* A function on the numbers up to n is a sequence.                        *)
LEMMA Tabulated ==
  ASSUME NEW S, NEW n \in Nat, NEW f \in [1..n -> S]
  PROVE  f \in Seq(S) /\ Len(f) \in Nat /\ Len(f) <= n
OBVIOUS

(* A sequence of one element has no two.                                   *)
LEMMA AtMostOne ==
  ASSUME NEW n \in Nat, n <= 1
  PROVE  \A j, k \in 1..n : j = k
OBVIOUS

(* A command about one server has a list of one.                           *)
LEMMA OneServer ==
  ASSUME NEW s \in Named
  PROVE  /\ SetToSeq({s}) \in Seq(Named)
         /\ \A j, k \in 1..Len(SetToSeq({s})) : j = k
<1>1. Cardinality({s}) = 1
  BY FS_Singleton
<1>2. [i \in 1..1 |-> s] \in [1..1 -> {s}] /\ IsInjective([i \in 1..1 |-> s])
  BY DEF IsInjective
<1>3. SetToSeq({s}) \in [1..1 -> {s}]
  BY <1>1, <1>2 DEF SetToSeq
<1>4. SetToSeq({s}) \in [1..1 -> Named]
  BY <1>3
<1>5. 1 \in Nat
  OBVIOUS
<1>6. /\ SetToSeq({s}) \in Seq(Named)
      /\ Len(SetToSeq({s})) \in Nat
      /\ Len(SetToSeq({s})) <= 1
  BY ONLY <1>4, <1>5, Tabulated, Zenon
<1>. QED
  BY ONLY <1>6, AtMostOne, Zenon

(* A command with another list of servers is a command.                    *)
LEMMA CommandLeft ==
  ASSUME NEW c \in Commands, NEW left \in Seq(Named)
  PROVE  /\ [c EXCEPT !.left = left] \in Commands
         /\ [c EXCEPT !.left = left].left = left
         /\ [c EXCEPT !.left = left].for = c.for
         /\ [c EXCEPT !.left = left].about = c.about
         /\ [c EXCEPT !.left = left].stage = c.stage
BY DEF Commands

(* Every step of a command, and of a server, keeps this: a server answers  *)
(* its requests in turn, and a connection that was given up is not asked   *)
(* again.                                                                  *)
LEMMA McpKept == McpInv /\ [McpNext]_mcpVars => McpInv'
<1> SUFFICES ASSUME McpInv, [McpNext]_mcpVars PROVE McpInv'
  OBVIOUS
<1>1. McpTypeOK /\ WaitsForLast /\ CommandShape /\ ServersInTurn /\ AnswersLagByNotes
  BY DEF McpInv
<1>2. NoRequest \in [of : SUBSET Named, id : Nat, method : Methods] /\ NoRequest.of = {}
  BY DEF NoRequest, Methods
<1>3. \A s \in Named : lastId[s] \in Nat /\ notes[s] \in Nat /\ First(s) \in Int
                       /\ asked[s] \in Seq(Nat) /\ pipe[s] \in Seq(Lines)
  BY <1>1 DEF McpTypeOK, First
<1>4. \A s \in Named : s \in waiting.of => waiting.of = {s} /\ waiting.id = lastId[s]
  BY <1>1 DEF WaitsForLast
<1>5. CASE UNCHANGED mcpVars
  <2>1. /\ proc' = proc /\ conn' = conn /\ lastId' = lastId /\ asked' = asked /\ pipe' = pipe
        /\ command' = command /\ waiting' = waiting /\ extra' = extra /\ notes' = notes /\ got' = got
    BY <1>5 DEF mcpVars
  <2>. QED
    BY <1>1, <2>1 DEF McpInv, McpTypeOK, WaitsForLast, CommandShape, McpIdle, ServersInTurn, MayAsk,
       First, AnswersLagByNotes
<1>6. CASE SkipNoise
  <2>1. PICK s \in waiting.of :
          /\ pipe[s] # <<>> /\ Head(pipe[s]) = Noise
          /\ pipe' = [pipe EXCEPT ![s] = Tail(pipe[s])]
          /\ UNCHANGED <<proc, conn, lastId, asked, command, waiting, extra, notes, got>>
    BY <1>6 DEF SkipNoise
  <2>2. s \in Named
    BY <1>1, <2>1 DEF McpTypeOK
  <2>3. Head(pipe[s]).line # "answer" /\ Tail(pipe[s]) \in Seq(Lines)
    BY <1>3, <2>1, <2>2, TailOf DEF Noise
  <2>4. /\ pipe' \in [Named -> Seq(Lines)]
        /\ \A u \in Named : pipe'[u] = IF u = s THEN Tail(pipe[s]) ELSE pipe[u]
    BY <1>1, <2>1, <2>2, <2>3 DEF McpTypeOK
  <2>5. ServersInTurn'
    <3> SUFFICES ASSUME NEW u \in Named, u \in waiting.of \/ (conn[u] /\ MayAsk(u))
                 PROVE  InTurn(pipe'[u], asked[u], First(u), lastId[u])
      BY <2>1 DEF ServersInTurn, MayAsk, First
    <3>1. InTurn(pipe[u], asked[u], First(u), lastId[u])
      BY <1>1 DEF ServersInTurn
    <3>2. CASE u = s
      BY <1>3, <2>1, <2>3, <2>4, <3>1, <3>2, OtherLineRead
    <3>3. CASE u # s
      BY <2>4, <3>1, <3>3
    <3>. QED
      BY <3>2, <3>3
  <2>. QED
    BY <1>1, <2>1, <2>4, <2>5 DEF McpInv, McpTypeOK, WaitsForLast, CommandShape, McpIdle,
       AnswersLagByNotes
<1>7. CASE Receive
  <2>1. PICK s \in waiting.of :
          /\ pipe[s] # <<>> /\ Head(pipe[s]) # Noise
          /\ pipe' = [pipe EXCEPT ![s] = Tail(pipe[s])]
          /\ got' = [request |-> waiting.id, behind |-> notes[s], answer |-> Head(pipe[s])]
          /\ notes' = [notes EXCEPT ![s] = notes[s] + IF Head(pipe[s]) = Note THEN 1 ELSE 0]
          /\ conn' = [conn EXCEPT ![s] = conn[s] \/ proc[s] = "running"]
          /\ waiting' = NoRequest
          /\ UNCHANGED <<proc, lastId, asked, command, extra>>
    BY <1>7 DEF Receive
  <2>2. s \in Named /\ waiting.of = {s} /\ waiting.id = lastId[s]
    BY <1>1, <1>4, <2>1 DEF McpTypeOK
  <2>3. Head(pipe[s]) \in Lines /\ Tail(pipe[s]) \in Seq(Lines)
    BY <1>3, <2>1, <2>2, TailOf
  <2>4. InTurn(pipe[s], asked[s], lastId[s] - notes[s], lastId[s])
    BY <1>1, <1>3, <2>1, <2>2 DEF ServersInTurn, First
  <2>5. /\ \A u \in Named : pipe'[u] = IF u = s THEN Tail(pipe[s]) ELSE pipe[u]
        /\ \A u \in Named : notes'[u] = IF u = s THEN notes[s] + (IF Head(pipe[s]) = Note THEN 1 ELSE 0)
                                        ELSE notes[u]
        /\ \A u \in Named : u # s => conn'[u] = conn[u]
    BY <1>1, <2>1, <2>2 DEF McpTypeOK
  <2>6. McpTypeOK'
    <3>1. pipe' \in [Named -> Seq(Lines)] /\ conn' \in [Named -> BOOLEAN]
      BY <1>1, <2>1, <2>2, <2>3 DEF McpTypeOK
    <3>2. notes' \in [Named -> Nat]
      BY <1>1, <1>3, <2>1, <2>2 DEF McpTypeOK
    <3>3. got' \in [request : Nat, behind : Nat, answer : Lines]
      BY <1>3, <2>1, <2>2, <2>3
    <3>. QED
      BY <1>1, <1>2, <2>1, <3>1, <3>2, <3>3 DEF McpTypeOK
  <2>7. waiting'.of = {} /\ ~McpIdle
    BY <1>1, <1>2, <2>1, <2>2 DEF CommandShape
  <2>8. WaitsForLast' /\ CommandShape'
    BY <1>1, <2>1, <2>7 DEF WaitsForLast, CommandShape, McpIdle
  <2>9. CASE Head(pipe[s]).line = "answer"
    <3>1. /\ Head(pipe[s]).id = lastId[s] - notes[s]
          /\ InTurn(Tail(pipe[s]), asked[s], lastId[s] - notes[s] + 1, lastId[s])
      <4>1. lastId[s] - notes[s] \in Int /\ lastId[s] \in Int
        BY <1>3, <2>2
      <4>2. pipe[s] \in Seq(Lines) /\ asked[s] \in Seq(Nat)
        BY <1>3, <2>2
      <4>. QED
        BY <2>1, <2>4, <2>9, <4>1, <4>2, AnswerRead
    <3>2. AnswersLagByNotes'
      BY <1>3, <2>1, <2>2, <3>1 DEF AnswersLagByNotes
    <3>3. Head(pipe[s]) # Note
      BY <2>9 DEF Note
    <3>4. ServersInTurn'
      <4> SUFFICES ASSUME NEW u \in Named, conn'[u] /\ MayAsk(u)
                   PROVE  InTurn(pipe'[u], asked[u], lastId[u] - notes'[u] + 1, lastId[u])
        BY <2>1, <2>7 DEF ServersInTurn, MayAsk, First
      <4>1. CASE u = s
        BY <1>3, <2>2, <2>5, <3>1, <3>3, <4>1
      <4>2. CASE u # s
        BY <1>1, <1>3, <2>2, <2>5, <4>2 DEF ServersInTurn, First
      <4>. QED
        BY <4>1, <4>2
    <3>. QED
      BY <2>6, <2>8, <3>2, <3>4 DEF McpInv
  <2>10. CASE Head(pipe[s]).line # "answer"
    <3>1. InTurn(Tail(pipe[s]), asked[s], lastId[s] - notes[s], lastId[s])
      BY <1>3, <2>1, <2>2, <2>4, <2>10, OtherLineRead
    <3>2. AnswersLagByNotes'
      BY <2>1, <2>10 DEF AnswersLagByNotes
    <3>3. Head(pipe[s]) = Note
      BY <2>1, <2>3, <2>10 DEF Note, Noise, Lines
    <3>4. ServersInTurn'
      <4> SUFFICES ASSUME NEW u \in Named, conn'[u] /\ MayAsk(u)
                   PROVE  InTurn(pipe'[u], asked[u], lastId[u] - notes'[u] + 1, lastId[u])
        BY <2>1, <2>7 DEF ServersInTurn, MayAsk, First
      <4>1. CASE u = s
        <5>1. lastId[s] - notes'[s] + 1 = lastId[s] - notes[s]
          BY <1>3, <2>2, <2>5, <3>3
        <5>. QED
          BY <2>2, <2>5, <3>1, <4>1, <5>1
      <4>2. CASE u # s
        BY <1>1, <1>3, <2>2, <2>5, <4>2 DEF ServersInTurn, First
      <4>. QED
        BY <4>1, <4>2
    <3>. QED
      BY <2>6, <2>8, <3>2, <3>4 DEF McpInv
  <2>. QED
    BY <2>9, <2>10
<1>8. CASE ServerGone
  <2>1. /\ waiting' = NoRequest
        /\ UNCHANGED <<proc, conn, lastId, asked, pipe, command, extra, notes, got>>
    BY <1>8 DEF ServerGone
  <2>2. PICK s \in waiting.of : TRUE
    BY <1>8 DEF ServerGone
  <2>3. s \in Named /\ waiting.of = {s} /\ ~McpIdle
    BY <1>1, <1>4, <2>2 DEF McpTypeOK, CommandShape
  <2>4. conn[s] => ~MayAsk(s)
    BY <1>1, <2>3 DEF CommandShape, MayAsk
  <2>5. McpTypeOK' /\ WaitsForLast' /\ CommandShape' /\ AnswersLagByNotes'
    BY <1>1, <1>2, <2>1, <2>3 DEF McpTypeOK, WaitsForLast, CommandShape, McpIdle, AnswersLagByNotes
  <2>6. ServersInTurn'
    <3> SUFFICES ASSUME NEW u \in Named, conn[u] /\ MayAsk(u)
                 PROVE  InTurn(pipe[u], asked[u], lastId[u] - notes[u] + 1, lastId[u])
      BY <1>2, <2>1 DEF ServersInTurn, MayAsk, First
    <3>1. u # s
      BY <2>4
    <3>. QED
      BY <1>1, <2>3, <3>1 DEF ServersInTurn, First
  <2>. QED
    BY <2>5, <2>6 DEF McpInv
<1>9. ASSUME NEW for \in {"connect", "tools", "call"}, NEW s \in Named, McpCommand(for, s)
      PROVE  McpInv'
  <2>1. /\ McpIdle
        /\ command' = [for |-> for, about |-> IF for = "tools" THEN {} ELSE {s}, stage |-> "connect",
                       left |-> IF for = "connect" THEN <<s>> ELSE Servers]
        /\ UNCHANGED <<proc, conn, lastId, asked, pipe, waiting, notes, extra, got>>
    BY <1>9 DEF McpCommand, TheManager
  <2>2. <<s>> \in Seq(Named) /\ Servers \in Seq(Named)
    BY NamedServers
  <2>3. /\ command' \in Commands /\ command'.for = for /\ command'.stage = "connect"
        /\ command'.about = IF for = "tools" THEN {} ELSE {s}
    BY <2>1, <2>2 DEF Commands
  <2>4. waiting.of = {} /\ \A u \in Named : ~conn[u]
    BY <1>1, <2>1 DEF CommandShape
  <2>. QED
    BY <1>1, <2>1, <2>3, <2>4 DEF McpInv, McpTypeOK, WaitsForLast, CommandShape, McpIdle,
       ServersInTurn, AnswersLagByNotes
<1>10. CASE Connect
  <2>1. /\ Free /\ command.stage \in {"connect", "reconnect"} /\ command.left # <<>>
        /\ command' = [command EXCEPT !.left = Tail(command.left)]
        /\ UNCHANGED <<extra, got>>
    BY <1>10 DEF Connect
  <2>2. command \in Commands /\ command.left \in Seq(Named)
    BY <1>1 DEF McpTypeOK, Commands
  <2>3. Tail(command.left) \in Seq(Named) /\ Head(command.left) \in Named
    BY <2>1, <2>2, TailOf
  <2>4. PICK s \in Named : UNCHANGED TheManager \/ Launch(s) \/ NotInstalled(s)
    BY <1>10, <2>3 DEF Connect
  <2>5. /\ command' \in Commands /\ command'.for = command.for /\ command'.stage = command.stage
        /\ command'.about = command.about
    BY <2>1, <2>2, <2>3, CommandLeft
  <2>6. ~McpIdle /\ waiting = NoRequest /\ waiting.of = {} /\ ~McpIdle'
        /\ \A u \in Named : MayAsk(u) /\ MayAsk(u)'
    BY <1>2, <2>1, <2>5 DEF Free, McpIdle, MayAsk
  <2>7. CASE UNCHANGED TheManager
    <3>1. UNCHANGED <<proc, conn, lastId, asked, pipe, waiting, notes>>
      BY <2>7 DEF TheManager
    <3>. QED
      BY <1>1, <2>1, <2>5, <2>6, <3>1 DEF McpInv, McpTypeOK, WaitsForLast, CommandShape,
         ServersInTurn, First, AnswersLagByNotes
  <2>8. CASE Launch(s)
    <3>1. /\ proc' = [proc EXCEPT ![s] = "running"]
          /\ conn' = [conn EXCEPT ![s] = FALSE]
          /\ lastId' = [lastId EXCEPT ![s] = 1]
          /\ asked' = [asked EXCEPT ![s] = <<1>>]
          /\ pipe' = [pipe EXCEPT ![s] = <<>>]
          /\ notes' = [notes EXCEPT ![s] = 0]
          /\ waiting' = [of |-> {s}, id |-> 1, method |-> "initialize"]
      BY <2>8 DEF Launch
    <3>2. /\ \A u \in Named : conn'[u] = IF u = s THEN FALSE ELSE conn[u]
          /\ \A u \in Named : lastId'[u] = IF u = s THEN 1 ELSE lastId[u]
          /\ \A u \in Named : asked'[u] = IF u = s THEN <<1>> ELSE asked[u]
          /\ \A u \in Named : pipe'[u] = IF u = s THEN <<>> ELSE pipe[u]
          /\ \A u \in Named : notes'[u] = IF u = s THEN 0 ELSE notes[u]
      BY <1>1, <3>1 DEF McpTypeOK
    <3>3. waiting'.of = {s} /\ waiting'.id = 1
          /\ waiting' \in [of : SUBSET Named, id : Nat, method : Methods]
      BY <3>1 DEF Methods
    <3>4. McpTypeOK'
      <4>1. /\ proc' \in [Named -> {"none", "running", "dead"}] /\ conn' \in [Named -> BOOLEAN]
            /\ lastId' \in [Named -> Nat] /\ notes' \in [Named -> Nat]
        BY <1>1, <3>1 DEF McpTypeOK
      <4>2. <<1>> \in Seq(Nat) /\ <<>> \in Seq(Lines)
        OBVIOUS
      <4>3. asked' \in [Named -> Seq(Nat)] /\ pipe' \in [Named -> Seq(Lines)]
        BY <1>1, <3>1, <4>2 DEF McpTypeOK
      <4>. QED
        BY <1>1, <2>1, <2>5, <3>3, <4>1, <4>3 DEF McpTypeOK
    <3>5. WaitsForLast' /\ CommandShape' /\ AnswersLagByNotes'
      BY ZenonT(60), <1>1, <2>1, <2>5, <2>6, <3>2, <3>3 DEF WaitsForLast, CommandShape, AnswersLagByNotes
    <3>6. ServersInTurn'
      <4> SUFFICES ASSUME NEW u \in Named, u = s \/ conn'[u]
                   PROVE  InTurn(pipe'[u], asked'[u], First(u)', lastId'[u])
        BY <3>3 DEF ServersInTurn
      <4>1. CASE u = s
        <5>1. First(u)' = 1
          BY <3>2, <3>3, <4>1 DEF First
        <5>. QED
          BY <3>2, <4>1, <5>1, FirstRequest
      <4>2. CASE u # s
        <5>1. First(u)' = First(u)
          BY <2>6, <3>2, <3>3, <4>2 DEF First
        <5>2. InTurn(pipe[u], asked[u], First(u), lastId[u])
          BY <1>1, <2>6, <3>2, <4>2 DEF ServersInTurn
        <5>. QED
          BY <3>2, <4>2, <5>1, <5>2
      <4>. QED
        BY <4>1, <4>2
    <3>. QED
      BY <3>4, <3>5, <3>6 DEF McpInv
  <2>9. CASE NotInstalled(s)
    <3>1. /\ conn' = [conn EXCEPT ![s] = FALSE]
          /\ UNCHANGED <<proc, lastId, asked, pipe, notes, waiting>>
      BY <2>9 DEF NotInstalled
    <3>2. conn' \in [Named -> BOOLEAN] /\ \A u \in Named : conn'[u] => conn[u]
      BY <1>1, <3>1 DEF McpTypeOK
    <3>. QED
      BY <1>1, <2>1, <2>5, <2>6, <3>1, <3>2 DEF McpInv, McpTypeOK, WaitsForLast, CommandShape,
         ServersInTurn, First, AnswersLagByNotes
  <2>. QED
    BY <2>4, <2>7, <2>8, <2>9
<1>11. CASE Connected
  <2>1. /\ Free /\ command.stage \in {"connect", "reconnect"}
        /\ UNCHANGED <<proc, conn, lastId, asked, pipe, waiting, notes, extra, got>>
    BY <1>11 DEF Connected, TheManager
  <2>2. command \in Commands /\ ~McpIdle /\ waiting = NoRequest /\ waiting.of = {}
    BY <1>1, <1>2, <2>1 DEF McpTypeOK, Free
  <2> DEFINE left == IF command.for = "tools" THEN Servers ELSE SetToSeq(command.about)
  <2>3. PICK stage \in {"reconnect", "ask"} :
          command' = [command EXCEPT !.stage = stage, !.left = left]
    BY <1>11 DEF Connected
  <2>4. left \in Seq(Named) /\ \A j, k \in 1..Len(left) : left[j] = left[k] => j = k
    <3>1. CASE command.for = "tools"
      BY <2>3, <3>1, NamedServers
    <3>2. CASE command.for # "tools"
      <4>1. PICK s \in Named : command.about = {s}
        BY <1>1, <2>2, <3>2 DEF CommandShape, Commands, McpIdle
      <4>. QED
        BY <2>3, <3>2, <4>1, OneServer
    <3>. QED
      BY <3>1, <3>2
  <2> HIDE DEF left
  <2>5. /\ command' \in Commands /\ command'.for = command.for /\ command'.stage = stage
        /\ command'.about = command.about /\ command'.left = left
    <3>1. command \in Commands /\ left \in Seq(Named)
      BY <2>2, <2>4
    <3>2. stage \in {"reconnect", "ask"}
      OBVIOUS
    <3> DEFINE c == [command EXCEPT !.stage = stage, !.left = left]
    <3>3. /\ c \in Commands /\ c.for = command.for /\ c.stage = stage
          /\ c.about = command.about /\ c.left = left
      BY <3>1, <3>2 DEF Commands
    <3>4. command' = c
      BY <2>3
    <3> HIDE DEF c
    <3>. QED
      BY ONLY <3>3, <3>4
  <2>6. ~McpIdle' /\ \A u \in Named : MayAsk(u)
    BY <2>1, <2>2, <2>5 DEF McpIdle, MayAsk
  <2>. QED
    BY <1>1, <2>1, <2>2, <2>4, <2>5, <2>6 DEF McpInv, McpTypeOK, WaitsForLast, CommandShape,
       ServersInTurn, First, AnswersLagByNotes
<1>12. CASE AskServer
  <2> DEFINE s == Head(command.left)
             left == Tail(command.left)
  <2>1. /\ Free /\ command.stage = "ask" /\ command.left # <<>>
        /\ command' = [command EXCEPT !.left = left]
        /\ UNCHANGED <<proc, conn, pipe, extra, notes, got>>
    BY <1>12 DEF AskServer
  <2>2. command \in Commands /\ ~McpIdle /\ waiting = NoRequest /\ waiting.of = {}
        /\ command.left \in Seq(Named)
    BY <1>1, <1>2, <2>1 DEF McpTypeOK, Free, Commands
  <2>3. /\ s \in Named /\ left \in Seq(Named) /\ Len(left) = Len(command.left) - 1
        /\ command.left[1] = s /\ 1 \in 1..Len(command.left) /\ Len(command.left) \in Nat
        /\ \A i \in 1..Len(left) : i + 1 \in 1..Len(command.left) /\ left[i] = command.left[i + 1]
    BY <2>1, <2>2, TailOf
  <2>4. \/ UNCHANGED <<lastId, asked, waiting>>
        \/ conn[s] /\ \E method \in Methods : Request(s, method)
    BY <1>12 DEF AskServer, Alive, Methods
  <2> HIDE DEF s, left
  <2>5. /\ command' \in Commands /\ command'.for = command.for /\ command'.stage = "ask"
        /\ command'.about = command.about /\ command'.left = left
    BY <2>1, <2>2, <2>3, CommandLeft
  <2>6. ASSUME NEW j \in 1..Len(left), NEW k \in 1..Len(left), left[j] = left[k] PROVE j = k
    <3>1. /\ j + 1 \in 1..Len(command.left) /\ left[j] = command.left[j + 1]
          /\ k + 1 \in 1..Len(command.left) /\ left[k] = command.left[k + 1]
      BY <2>3
    <3>2. j + 1 = k + 1
      BY <1>1, <2>1, <2>6, <3>1 DEF CommandShape
    <3>. QED
      BY <2>3, <3>2
  <2>7. ASSUME NEW k \in 1..Len(left) PROVE left[k] # s
    <3>1. k + 1 \in 1..Len(command.left) /\ left[k] = command.left[k + 1] /\ k + 1 # 1
      BY <2>3
    <3>. QED
      BY <1>1, <2>1, <2>3, <3>1 DEF CommandShape
  <2>8. ~McpIdle' /\ MayAsk(s) /\ \A u \in Named : MayAsk(u)' => MayAsk(u)
    BY <2>1, <2>2, <2>3, <2>5 DEF McpIdle, MayAsk
  <2>9. CASE UNCHANGED <<lastId, asked, waiting>>
    <3>1. McpTypeOK' /\ WaitsForLast' /\ AnswersLagByNotes'
      BY <1>1, <2>1, <2>5, <2>9 DEF McpTypeOK, WaitsForLast, AnswersLagByNotes
    <3>2. CommandShape'
      BY <1>1, <2>1, <2>2, <2>5, <2>6, <2>8, <2>9 DEF CommandShape
    <3>3. ServersInTurn'
      BY <1>1, <2>1, <2>8, <2>9 DEF ServersInTurn, First
    <3>. QED
      BY <3>1, <3>2, <3>3 DEF McpInv
  <2>10. ASSUME conn[s], NEW method \in Methods, Request(s, method) PROVE McpInv'
    <3>1. /\ lastId' = [lastId EXCEPT ![s] = lastId[s] + 1]
          /\ asked' = [asked EXCEPT ![s] = Append(asked[s], lastId[s] + 1)]
          /\ waiting' = [of |-> {s}, id |-> lastId[s] + 1, method |-> method]
      BY <2>10 DEF Request
    <3>2. Append(asked[s], lastId[s] + 1) \in Seq(Nat)
      BY <1>3, <2>3
    <3>3. /\ \A u \in Named : lastId'[u] = IF u = s THEN lastId[s] + 1 ELSE lastId[u]
          /\ \A u \in Named : asked'[u] = IF u = s THEN Append(asked[s], lastId[s] + 1) ELSE asked[u]
      BY <1>1, <2>3, <3>1 DEF McpTypeOK
    <3>4. waiting'.of = {s} /\ waiting'.id = lastId[s] + 1
          /\ waiting' \in [of : SUBSET Named, id : Nat, method : Methods]
      BY <1>3, <2>3, <3>1
    <3>5. lastId' \in [Named -> Nat] /\ asked' \in [Named -> Seq(Nat)]
      BY <1>1, <1>3, <2>3, <3>1, <3>2 DEF McpTypeOK
    <3>6. McpTypeOK'
      BY <1>1, <2>1, <2>5, <3>4, <3>5 DEF McpTypeOK
    <3>7. WaitsForLast' /\ AnswersLagByNotes'
      BY <1>1, <2>1, <2>3, <3>3, <3>4 DEF WaitsForLast, AnswersLagByNotes
    <3>8. CommandShape'
      BY <1>1, <2>5, <2>6, <2>7, <2>8, <3>4 DEF CommandShape
    <3>9. ServersInTurn'
      <4> SUFFICES ASSUME NEW u \in Named, u = s \/ (conn[u] /\ MayAsk(u))
                   PROVE  InTurn(pipe[u], asked'[u], First(u)', lastId'[u])
        BY <2>1, <2>8, <3>4 DEF ServersInTurn
      <4>1. CASE u = s
        <5>1. /\ First(u)' = First(s) /\ First(s) <= lastId[s] + 1
          BY SMTT(30), <1>3, <2>1, <2>2, <2>3, <3>3, <3>4, <4>1 DEF First
        <5>2. InTurn(pipe[s], asked[s], First(s), lastId[s])
          BY <1>1, <2>3, <2>8, <2>10 DEF ServersInTurn
        <5>3. InTurn(pipe[s], Append(asked[s], lastId[s] + 1), First(s), lastId[s] + 1)
          BY <1>3, <2>3, <5>1, <5>2, AnotherRequest
        <5>. QED
          BY <2>3, <3>3, <4>1, <5>1, <5>3
      <4>2. CASE u # s
        <5>1. First(u)' = First(u)
          BY <2>1, <2>2, <3>3, <3>4, <4>2 DEF First
        <5>. QED
          BY <1>1, <3>3, <4>2, <5>1 DEF ServersInTurn
      <4>. QED
        BY <4>1, <4>2
    <3>. QED
      BY <3>6, <3>7, <3>8, <3>9 DEF McpInv
  <2>. QED
    BY <2>4, <2>9, <2>10
<1>13. CASE McpDone
  <2>1. /\ waiting = NoRequest /\ waiting' = waiting
        /\ command' = NoCommand
        /\ proc' = [u \in Named |-> "none"]
        /\ conn' = [u \in Named |-> FALSE]
        /\ lastId' = [u \in Named |-> 0]
        /\ asked' = [u \in Named |-> <<>>]
        /\ pipe' = [u \in Named |-> <<>>]
        /\ notes' = [u \in Named |-> 0]
        /\ got' = Unasked
        /\ extra' = 0
    BY <1>13 DEF McpDone, Free
  <2>2. waiting'.of = {} /\ waiting' \in [of : SUBSET Named, id : Nat, method : Methods]
        /\ \A u \in Named : ~conn'[u]
    BY <1>2, <2>1
  <2>3. /\ command' \in Commands /\ command'.for = "nothing" /\ command'.stage = "over"
    BY <2>1 DEF NoCommand, Commands
  <2>4. /\ got' \in [request : Nat, behind : Nat, answer : Lines] /\ got'.answer.line # "answer"
    BY <2>1 DEF Unasked, Note, Lines
  <2>5. McpTypeOK'
    <3>1. <<>> \in Seq(Nat) /\ <<>> \in Seq(Lines)
      OBVIOUS
    <3>2. asked' \in [Named -> Seq(Nat)] /\ pipe' \in [Named -> Seq(Lines)]
      BY <2>1, <3>1
    <3>. QED
      BY <2>1, <2>2, <2>3, <2>4, <3>2 DEF McpTypeOK
  <2>. QED
    BY <2>2, <2>3, <2>4, <2>5 DEF McpInv, WaitsForLast, CommandShape, ServersInTurn, AnswersLagByNotes
<1>14. ASSUME NEW s \in Named, ServerAnswers(s) PROVE McpInv'
  <2>1. /\ asked[s] # <<>>
        /\ asked' = [asked EXCEPT ![s] = Tail(asked[s])]
        /\ pipe' = [pipe EXCEPT ![s] = Append(pipe[s], Answer(Head(asked[s])))]
        /\ UNCHANGED <<proc, conn, lastId, command, waiting, extra, notes, got>>
    BY <1>14 DEF ServerAnswers
  <2>2. Append(pipe[s], Answer(Head(asked[s]))) \in Seq(Lines) /\ Tail(asked[s]) \in Seq(Nat)
    <3>1. Head(asked[s]) \in Nat /\ Tail(asked[s]) \in Seq(Nat)
      BY <1>3, <2>1, TailOf
    <3>2. Answer(Head(asked[s])) \in Lines
      BY <3>1 DEF Answer, Lines
    <3>. QED
      BY <1>3, <3>1, <3>2, AppendTo
  <2>3. /\ asked' \in [Named -> Seq(Nat)] /\ pipe' \in [Named -> Seq(Lines)]
        /\ \A u \in Named : asked'[u] = IF u = s THEN Tail(asked[s]) ELSE asked[u]
        /\ \A u \in Named : pipe'[u] = IF u = s THEN Append(pipe[s], Answer(Head(asked[s]))) ELSE pipe[u]
    BY <1>1, <2>1, <2>2 DEF McpTypeOK
  <2>4. ServersInTurn'
    <3> SUFFICES ASSUME NEW u \in Named, u \in waiting.of \/ (conn[u] /\ MayAsk(u))
                 PROVE  InTurn(pipe'[u], asked'[u], First(u), lastId[u])
      BY <2>1 DEF ServersInTurn, MayAsk, First
    <3>1. InTurn(pipe[u], asked[u], First(u), lastId[u])
      BY <1>1 DEF ServersInTurn
    <3>2. CASE u = s
      <4>1. InTurn(Append(pipe[s], Answer(Head(asked[s]))), Tail(asked[s]), First(s), lastId[s])
        BY <1>3, <2>1, <3>1, <3>2, AnswerWritten
      <4>. QED
        BY <2>3, <3>2, <4>1
    <3>3. CASE u # s
      BY <2>3, <3>1, <3>3
    <3>. QED
      BY <3>2, <3>3
  <2>. QED
    BY <1>1, <2>1, <2>3, <2>4 DEF McpInv, McpTypeOK, WaitsForLast, CommandShape, McpIdle,
       AnswersLagByNotes
<1>15. ASSUME NEW s \in Named, NEW line \in {Note, Noise}, ServerSays(s, line) PROVE McpInv'
  <2>1. /\ pipe' = [pipe EXCEPT ![s] = Append(pipe[s], line)]
        /\ extra' = extra + 1
        /\ UNCHANGED <<proc, conn, lastId, asked, command, waiting, notes, got>>
    BY <1>15 DEF ServerSays
  <2>2. line \in Lines /\ line.line # "answer" /\ Append(pipe[s], line) \in Seq(Lines)
    <3>1. line \in Lines /\ line.line # "answer"
      BY DEF Note, Noise, Lines
    <3>. QED
      BY <1>3, <3>1, AppendTo
  <2>3. /\ pipe' \in [Named -> Seq(Lines)] /\ extra' \in Nat
        /\ \A u \in Named : pipe'[u] = IF u = s THEN Append(pipe[s], line) ELSE pipe[u]
    BY <1>1, <2>1, <2>2 DEF McpTypeOK
  <2>4. ServersInTurn'
    <3> SUFFICES ASSUME NEW u \in Named, u \in waiting.of \/ (conn[u] /\ MayAsk(u))
                 PROVE  InTurn(pipe'[u], asked[u], First(u), lastId[u])
      BY <2>1 DEF ServersInTurn, MayAsk, First
    <3>1. InTurn(pipe[u], asked[u], First(u), lastId[u])
      BY <1>1 DEF ServersInTurn
    <3>2. CASE u = s
      <4>1. InTurn(Append(pipe[s], line), asked[s], First(s), lastId[s])
        BY <1>3, <2>2, <3>1, <3>2, OtherLineWritten
      <4>. QED
        BY <2>3, <3>2, <4>1
    <3>3. CASE u # s
      BY <2>3, <3>1, <3>3
    <3>. QED
      BY <3>2, <3>3
  <2>. QED
    BY <1>1, <2>1, <2>3, <2>4 DEF McpInv, McpTypeOK, WaitsForLast, CommandShape, McpIdle,
       AnswersLagByNotes
<1>16. ASSUME NEW s \in Named, ServerDies(s) PROVE McpInv'
  <2>1. /\ proc' = [proc EXCEPT ![s] = "dead"]
        /\ UNCHANGED <<conn, lastId, asked, pipe, command, waiting, extra, notes, got>>
    BY <1>16 DEF ServerDies
  <2>. QED
    BY <1>1, <2>1 DEF McpInv, McpTypeOK, WaitsForLast, CommandShape, McpIdle, ServersInTurn, MayAsk,
       First, AnswersLagByNotes
<1>. QED
  BY <1>5, <1>6, <1>7, <1>8, <1>9, <1>10, <1>11, <1>12, <1>13, <1>14, <1>15, <1>16
     DEF McpNext, McpClient, McpServer

(* StdioMCPConnection._rpc_raw: a request is handed the answer to one that *)
(* was asked as many requests before as its server has sent notifications, *)
(* and its own as long as there was none: for any servers, and any number  *)
(* of requests, notifications and deaths.                                  *)
THEOREM AnswersInOrder == McpSpec => []AnswersLagByNotes
<1>1. McpInit => McpInv
  <2> SUFFICES ASSUME McpInit PROVE McpInv
    OBVIOUS
  <2>1. waiting.of = {} /\ waiting \in [of : SUBSET Named, id : Nat, method : Methods]
    BY DEF McpInit, NoRequest, Methods
  <2>2. /\ command \in Commands /\ command.for = "nothing" /\ command.stage = "over"
    BY DEF McpInit, NoCommand, Commands
  <2>3. /\ got \in [request : Nat, behind : Nat, answer : Lines] /\ got.answer.line # "answer"
    BY DEF McpInit, Unasked, Note, Lines
  <2>4. McpTypeOK
    <3>1. <<>> \in Seq(Nat) /\ <<>> \in Seq(Lines)
      OBVIOUS
    <3>2. asked \in [Named -> Seq(Nat)] /\ pipe \in [Named -> Seq(Lines)]
      BY <3>1 DEF McpInit
    <3>. QED
      BY <2>1, <2>2, <2>3, <3>2 DEF McpInit, McpTypeOK
  <2>5. \A u \in Named : ~conn[u]
    BY DEF McpInit
  <2>. QED
    BY <2>1, <2>2, <2>3, <2>4, <2>5 DEF McpInv, WaitsForLast, CommandShape, ServersInTurn, AnswersLagByNotes
<1>2. McpInv => AnswersLagByNotes
  BY DEF McpInv
<1>. QED
  BY <1>1, <1>2, McpKept, PTL DEF McpSpec
=============================================================================

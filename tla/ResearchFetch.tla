---------------------------- MODULE ResearchFetch ----------------------------
(***************************************************************************)
(* app/core/research_fetcher.py: fetch_research with its table of fetches  *)
(* in flight, and ResearchCache.  Pages do not interact, so the model      *)
(* follows one of them, asked for by several threads, over ends of the     *)
(* program and the 24 hours after which a cached file is stale.            *)
(***************************************************************************)
EXTENDS Naturals

CONSTANTS
  Fetchers,        \* the threads that call fetch_research
  NoFetcher,
  MaxFetchStops    \* bound: ends of the program

ASSUME FetchAssumption ==
  /\ NoFetcher \notin Fetchers
  /\ MaxFetchStops \in Nat

VARIABLES
  fetchPc,      \* where each thread is
  inFlight,     \* the thread whose claim is in _in_flight, or NoFetcher
  waitsFor,     \* waitsFor[t]: the thread whose event t waits on
  eventSet,     \* the threads whose event is set
  cached,       \* the page is in ResearchCache._mem
  cacheFile,    \* its file: "none", "fresh", "stale", "cut"
  fetched,      \* fetched[t]: what t brought back: "nothing" yet, "text" or "failure"
  found,        \* found[t]: whether t returns the page
  fetchStops    \* ghost: ends of the program

fetchVars ==
  <<fetchPc, inFlight, waitsFor, eventSet, cached, cacheFile, fetched, found, fetchStops>>

Everyone(x) == [t \in Fetchers |-> x]

FetchInit ==
  /\ fetchPc = Everyone("idle")
  /\ inFlight = NoFetcher
  /\ waitsFor = Everyone(NoFetcher)
  /\ eventSet = {}
  /\ cached = FALSE
  /\ cacheFile = "none"
  /\ fetched = Everyone("nothing")
  /\ found = Everyone(FALSE)
  /\ fetchStops = 0

FetchIdle == fetchPc = Everyone("idle")
FetchAt(t, here, there) == fetchPc[t] = here /\ fetchPc' = [fetchPc EXCEPT ![t] = there]
TheCache == <<cached, cacheFile>>
TheTable == <<inFlight, waitsFor, eventSet>>

BeginFetch(t) ==
  /\ FetchAt(t, "idle", "look")
  /\ fetched' = [fetched EXCEPT ![t] = "nothing"]
  /\ found' = [found EXCEPT ![t] = FALSE]
  /\ eventSet' = eventSet \ {t}
  /\ waitsFor' = [waitsFor EXCEPT ![t] = NoFetcher]
  /\ UNCHANGED <<inFlight, TheCache, fetchStops>>

\* ResearchCache.get: what is in memory never grows old; a file that is read
\* is kept in memory.  A file that a stop has cut short looks like any other.
InCache == cached \/ cacheFile \in {"fresh", "cut"}

LookUp(t) ==
  /\ IF InCache THEN FetchAt(t, "look", "idle") ELSE FetchAt(t, "look", "claim")
  /\ cached' = InCache
  /\ found' = [found EXCEPT ![t] = InCache]
  /\ UNCHANGED <<TheTable, cacheFile, fetched, fetchStops>>

\* One critical section: the page is claimed, or somebody's event is taken.
Claim(t) ==
  /\ IF inFlight = NoFetcher
     THEN /\ FetchAt(t, "claim", "fetch")
          /\ inFlight' = t
          /\ UNCHANGED waitsFor
     ELSE /\ FetchAt(t, "claim", "wait")
          /\ waitsFor' = [waitsFor EXCEPT ![t] = inFlight]
          /\ UNCHANGED inFlight
  /\ UNCHANGED <<eventSet, TheCache, fetched, found, fetchStops>>

\* The event is set, or 60 seconds are over.  The thread it was may have begun
\* another call meanwhile, with an event of its own.
Awake(t) ==
  /\ FetchAt(t, "wait", "recheck")
  /\ UNCHANGED <<TheTable, TheCache, fetched, found, fetchStops>>

Recheck(t) ==
  /\ FetchAt(t, "recheck", "idle")
  /\ cached' = InCache
  /\ found' = [found EXCEPT ![t] = InCache]
  /\ UNCHANGED <<TheTable, cacheFile, fetched, fetchStops>>

\* Mutant of the next: the page is handed back and never cached.
FetchUrlUncached(t) ==
  /\ \E outcome \in {"text", "failure"} :
       fetched' = [fetched EXCEPT ![t] = outcome]
  /\ FetchAt(t, "fetch", "release")
  /\ UNCHANGED <<TheTable, TheCache, found, fetchStops>>

\* fetch_url: a page with text, or an error or a page without.
FetchUrl(t) ==
  /\ \E outcome \in {"text", "failure"} :
       /\ fetched' = [fetched EXCEPT ![t] = outcome]
       /\ FetchAt(t, "fetch", IF outcome = "text" THEN "store" ELSE "release")
  /\ UNCHANGED <<TheTable, TheCache, found, fetchStops>>

\* ResearchCache.set: the memory first; the file is written in place, and an
\* error of that is passed over.
Store(t) ==
  /\ FetchAt(t, "store", "release")
  /\ cached' = TRUE
  /\ cacheFile' \in {"fresh", "cut", cacheFile}
  /\ UNCHANGED <<TheTable, fetched, found, fetchStops>>

\* The claim is dropped in a critical section, then the event is set.
Release(t) ==
  /\ FetchAt(t, "release", "signal")
  /\ inFlight' = NoFetcher
  /\ UNCHANGED <<waitsFor, eventSet, TheCache, fetched, found, fetchStops>>

Signal(t) ==
  /\ FetchAt(t, "signal", "idle")
  /\ eventSet' = eventSet \cup {t}
  /\ found' = [found EXCEPT ![t] = fetched[t] = "text"]
  /\ UNCHANGED <<inFlight, waitsFor, TheCache, fetched, fetchStops>>

\* /research clear: nothing happens without the directory; a file that cannot
\* be removed stays.
ClearCache ==
  /\ FetchIdle
  /\ cached' = FALSE
  /\ cacheFile' \in {"none", cacheFile}
  /\ UNCHANGED <<fetchPc, TheTable, fetched, found, fetchStops>>

CacheAges ==
  /\ cacheFile \in {"fresh", "cut"}
  /\ cacheFile' = "stale"
  /\ UNCHANGED <<fetchPc, TheTable, cached, fetched, found, fetchStops>>

\* The end of the program, in the middle of a write of the file perhaps.
FetchStop ==
  /\ fetchStops < MaxFetchStops
  /\ fetchStops' = fetchStops + 1
  /\ cacheFile' \in {cacheFile} \cup
       IF \E t \in Fetchers : fetchPc[t] = "store" THEN {"cut"} ELSE {}
  /\ cached' = FALSE
  /\ fetchPc' = Everyone("idle")
  /\ inFlight' = NoFetcher
  /\ waitsFor' = Everyone(NoFetcher)
  /\ eventSet' = {}
  /\ fetched' = Everyone("nothing")
  /\ found' = Everyone(FALSE)

FetchStep(t) ==
  \/ LookUp(t) \/ Claim(t) \/ Recheck(t) \/ FetchUrl(t)
  \/ Store(t) \/ Release(t) \/ Signal(t) \/ Awake(t)

FetchNext ==
  \/ \E t \in Fetchers : BeginFetch(t) \/ FetchStep(t)
  \/ ClearCache \/ CacheAges \/ FetchStop

\* A fetch has a timeout, and so has a wait.
FetchSpec ==
  FetchInit /\ [][FetchNext]_fetchVars /\ \A t \in Fetchers : WF_fetchVars(FetchStep(t))

-----------------------------------------------------------------------------
(* What the module promises.                                               *)

Fetching == {t \in Fetchers : fetchPc[t] \in {"fetch", "store", "release"}}

\* "Live fetch - deduplicated across concurrent callers for the same URL": at
\* any time one thread at most is fetching the page, and the claim is its own.
OneFetchAtATime == \A t \in Fetching : Fetching = {t} /\ inFlight = t

\* A thread that waited for another's fetch, and saw it end, has the page if
\* the other one had it: the text is in the cache before anybody is told.
WaiterFindsText ==
  \A t \in Fetchers : \A u \in Fetchers :
    fetchPc[t] = "recheck" /\ waitsFor[t] = u /\ u \in eventSet /\ fetched[u] = "text"
      => InCache
=============================================================================

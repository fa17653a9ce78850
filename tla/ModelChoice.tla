----------------------------- MODULE ModelChoice -----------------------------
(***************************************************************************)
(* Which models there are and which one is used: the list of the local     *)
(* server with its cache of thirty seconds (cli/commands/settings.py), the *)
(* commands that look at it and choose a server and a provider,            *)
(* and the wizard that pulls models (cli/commands/setup_cmds.py).  That    *)
(* what they choose, and the name of a model, reach the file of the        *)
(* configuration is module Settings.                                       *)
(*                                                                         *)
(* A server offers models of three names: the one that the machine's       *)
(* memory recommends, the same in another size, and the one for            *)
(* embeddings.  Time passes in steps of a part of the thirty seconds.  The *)
(* keychain is the user's: whether it has a key is open at every command.  *)
(***************************************************************************)
EXTENDS Naturals

CONSTANTS
  Hosts,       \* the local servers the user knows
  ModelsTTL,   \* _MODELS_CACHE_TTL, in steps of time
  MaxSwaps     \* bound: the changes at the servers by others

\* A server is known by its address, which is no provider's name.
ASSUME ChoiceAssumption ==
  /\ Hosts # {} /\ Hosts \cap {"nobody", "ollama", "meta", "openai"} = {}
  /\ ModelsTTL \in Nat \ {0}
  /\ MaxSwaps \in Nat

ModelNames == {"coder", "othersize", "embed"}
Local == {"ollama", "meta"}
Keyed == {"openai"}

\* What /api/tags is answered with is a set of models, or nothing in time.
Offline == {"offline"}

VARIABLES
  host, provider,   \* ollama_url and provider of the configuration
  listing,    \* listing[h]: what h would answer now
  entry,      \* entry[h]: _models_cache: an answer and its age, at most ModelsTTL
  choosing,   \* the command that is under way, its stage and what it knows
  look,       \* what the command that has just ended has shown: of whom, and what
  ago,        \* ago[h]: ghost: the answers h would have given less than ModelsTTL
              \* steps ago, each with how long ago
  swaps

choiceVars == <<host, provider, listing, entry, choosing, look, ago, swaps>>

NoLook == [of |-> "nobody", saw |-> {}]
NotChoosing == [stage |-> "none", age |-> 0, pull |-> {}]
NoEntry == [age |-> ModelsTTL, saw |-> Offline]

ChoiceInit ==
  /\ host \in Hosts /\ provider = "ollama"
  /\ listing = [h \in Hosts |-> IF h = host THEN {"othersize"} ELSE Offline]
  /\ entry = [h \in Hosts |-> NoEntry]
  /\ choosing = NotChoosing /\ look = NoLook
  /\ ago = [h \in Hosts |-> {[saw |-> listing[h], steps |-> 0]}]
  /\ swaps = 0

ChoiceIdle == choosing = NotChoosing

TheSettings == <<host, provider>>
TheWorld == <<listing, ago, swaps>>

-----------------------------------------------------------------------------
(* The servers, and time.                                                  *)

Offers(h, saw) ==
  /\ listing' = [listing EXCEPT ![h] = saw]
  /\ ago' = [ago EXCEPT ![h] = {a \in @ : a.saw # saw} \cup {[saw |-> saw, steps |-> 0]}]

\* The server is stopped or started; others pull models or remove them.
Swap(h) ==
  /\ swaps < MaxSwaps
  /\ \E saw \in {Offline, {}, ModelNames} : saw # listing[h] /\ Offers(h, saw)
  /\ swaps' = swaps + 1
  /\ look' = NoLook
  /\ UNCHANGED <<TheSettings, entry, choosing>>

\* The request for a list is given up before a second step has passed.
TimePasses ==
  /\ choosing.age = 0
  /\ entry' = [h \in Hosts |-> IF entry[h].age + 1 < ModelsTTL
                                THEN [entry[h] EXCEPT !.age = @ + 1] ELSE NoEntry]
  /\ choosing' = IF choosing.stage = "fetch" THEN [choosing EXCEPT !.age = 1] ELSE choosing
  /\ ago' = [h \in Hosts |->
       {[a EXCEPT !.steps = IF a.saw = listing[h] THEN 0 ELSE @ + 1] :
          a \in {b \in ago[h] : b.saw = listing[h] \/ b.steps + 1 < ModelsTTL}}]
  /\ look' = NoLook
  /\ UNCHANGED <<TheSettings, listing, swaps>>

-----------------------------------------------------------------------------
(* /models and /model.                                                     *)

Fresh == entry[host].age < ModelsTTL

\* Mutant of the next: what is used stays.
HitRenewed ==
  /\ Fresh
  /\ look' = [of |-> host, saw |-> entry[host].saw]
  /\ entry' = [entry EXCEPT ![host].age = 0]
  /\ UNCHANGED choosing

\* _get_models_cached: a server that could not be reached is remembered, too.
Hit ==
  /\ Fresh
  /\ look' = [of |-> host, saw |-> entry[host].saw]
  /\ UNCHANGED <<entry, choosing>>

\* The age counts from before the request.
Miss ==
  /\ ~Fresh
  /\ choosing' = [NotChoosing EXCEPT !.stage = "fetch"]
  /\ look' = NoLook
  /\ UNCHANGED entry

FetchList ==
  /\ choosing.stage = "fetch"
  /\ entry' = [entry EXCEPT ![host] = [age |-> choosing.age, saw |-> listing[host]]]
  /\ look' = [of |-> host, saw |-> listing[host]]
  /\ choosing' = NotChoosing
  /\ UNCHANGED <<TheSettings, TheWorld>>

ListModels ==
  /\ ChoiceIdle /\ provider \in Local
  /\ Hit \/ Miss
  /\ UNCHANGED <<TheSettings, TheWorld>>

\* A provider's own list, when there is a key and it answers with one; else, and
\* always for Anthropic and Gemini, the list in the program.
ListCloudModels ==
  /\ ChoiceIdle /\ provider \in Keyed
  /\ look' \in [of : {provider}, saw : {ModelNames, {"static"}}]
  /\ UNCHANGED <<TheSettings, TheWorld, entry, choosing>>

\* Any name is taken; whether it is on the list decides on a warning, which is
\* for "ollama" alone.
SetModel ==
  /\ ChoiceIdle
  /\ IF provider = "ollama" THEN Hit \/ Miss
                            ELSE look' = NoLook /\ UNCHANGED <<entry, choosing>>
  /\ UNCHANGED <<TheSettings, TheWorld>>

-----------------------------------------------------------------------------
(* Commands that ask the server without the cache, and leave it alone.     *)

Asked == look' = [of |-> host, saw |-> listing[host]]

\* /server: one that cannot be reached is saved when the user insists.
SetServer(h, insists) ==
  /\ ChoiceIdle
  /\ host' = IF listing[h] # Offline \/ insists THEN h ELSE host
  /\ look' = [of |-> h, saw |-> listing[h]]
  /\ UNCHANGED <<provider, TheWorld, entry, choosing>>

\* /provider: one with a key needs it in the keychain or from the user.
SetProvider(p, hasKey) ==
  /\ ChoiceIdle
  /\ provider' = IF p \in Local \/ hasKey THEN p ELSE provider
  /\ look' = NoLook
  /\ UNCHANGED <<host, TheWorld, entry, choosing>>

\* /status and /health ask a local provider; /health asks any other for an answer.
Status == provider \in Local /\ Asked
Health == IF provider \in Local THEN Asked ELSE look' = [of |-> provider, saw |-> {}]

\* /healthcheck and /setup status ask the local server whatever the provider is.
HealthCheck == Asked

LookOnly ==
  /\ ChoiceIdle
  /\ Status \/ Health \/ HealthCheck
  /\ UNCHANGED <<TheSettings, TheWorld, entry, choosing>>

-----------------------------------------------------------------------------
(* /setup local.                                                           *)

\* A model of the same family, in whatever size, passes for the recommended one.
Missing(saw) ==
  (IF saw \cap {"coder", "othersize"} = {} THEN {"coder"} ELSE {})
  \cup (IF "embed" \in saw THEN {} ELSE {"embed"})

BeginSetup ==
  /\ ChoiceIdle
  /\ listing[host] # Offline
  /\ choosing' = LET missing == Missing(listing[host]) IN
       [NotChoosing EXCEPT !.stage = IF missing = {} THEN "adopt" ELSE "confirm",
                           !.pull = missing]
  /\ Asked
  /\ UNCHANGED <<TheSettings, TheWorld, entry>>

SetupAnswered ==
  /\ choosing.stage = "confirm"
  /\ choosing' \in {[choosing EXCEPT !.stage = "pull"], NotChoosing}
  /\ look' = NoLook
  /\ UNCHANGED <<TheSettings, TheWorld, entry>>

\* A pull that fails is only warned of.
PullModel(m) ==
  /\ choosing.stage = "pull" /\ m \in choosing.pull
  /\ m = "embed" => "coder" \notin choosing.pull
  /\ choosing' = [choosing EXCEPT !.pull = @ \ {m},
                                  !.stage = IF choosing.pull = {m} THEN "adopt" ELSE "pull"]
  /\ \/ listing[host] # Offline /\ Offers(host, listing[host] \cup {m})
     \/ UNCHANGED <<listing, ago>>
  /\ look' = NoLook
  /\ UNCHANGED <<TheSettings, entry, swaps>>

\* The recommended model becomes the one that is used, installed or not.
Adopt ==
  /\ choosing.stage = "adopt"
  /\ provider' = "ollama"
  /\ choosing' = NotChoosing /\ look' = NoLook
  /\ UNCHANGED <<host, TheWorld, entry>>

ChoiceNext ==
  \/ \E h \in Hosts : Swap(h)
  \/ TimePasses
  \/ FetchList \/ ListModels \/ ListCloudModels
  \/ SetModel
  \/ \E name \in {"coder", "embed"} : PullModel(name)
  \/ \E h \in Hosts, insists \in BOOLEAN : SetServer(h, insists)
  \/ \E p \in Local \cup Keyed, hasKey \in BOOLEAN : SetProvider(p, hasKey)
  \/ LookOnly
  \/ BeginSetup \/ SetupAnswered \/ Adopt

ChoiceSpec == ChoiceInit /\ [][ChoiceNext]_choiceVars

-----------------------------------------------------------------------------
\* The list that /models shows and /model compares with is one that the server
\* which is configured now, and not the one before, had within the last thirty
\* seconds: whoever pulls a model or changes the server sees it by then
\* (_get_models_cached).
ListIsRecent ==
  look.of \in Hosts => look.saw \in {a.saw : a \in ago[look.of]}
=============================================================================

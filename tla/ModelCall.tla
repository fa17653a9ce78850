----------------------------- MODULE ModelCall -----------------------------
(***************************************************************************)
(* The clients of codex/app/llm_client*.py under one chat turn or one      *)
(* request of the code agent: POSTs that are tried again or given up as    *)
(* the error classifier says, the local server's way out of a failed tool  *)
(* call, the providers that stand in for one another, and the token counts *)
(* that the turn finally charges (cli/chat_session.py, cost_tracker.py).   *)
(*                                                                         *)
(* What a POST brings back is the network's choice; texts and counts are   *)
(* left out: counts are known by the number of the answer they came with.  *)
(* An answer is read in one step or, when it is streamed, event by event.  *)
(* Groq is OpenAI's interface at another address.                          *)
(***************************************************************************)
EXTENDS Naturals, Sequences

CONSTANTS
  Chains,      \* the lists of providers a configuration may name, first one first
  MaxRounds,   \* the calls of one turn: range(5) of _send_with_tools
  MaxEvents    \* bound: the events with text of a stream

ASSUME ModelAssumption ==
  /\ \A c \in Chains : c \in Seq({"ollama", "anthropic", "openai", "gemini"}) /\ c # <<>>
  /\ MaxRounds \in Nat \ {0} /\ MaxEvents \in Nat

VARIABLES
  chain,      \* the providers of the client of this turn
  turn,       \* what it does: a chat, "stream" or "tools"; a request of the code
              \* agent, "request" or "generate"; a question, "ask"; or "none"
  round,      \* the calls made in this turn
  at,         \* the place in the chain of the provider that is asked, 0 when none is
  tried,      \* the POSTs of the retry loop that runs
  plain,      \* the local server is asked without tools, after a tool call failed
  calls,      \* the last answer asks for tools
  stream,     \* the response that is read: whether it is open, the events with
              \* text it has brought, and the counts that were taken down
  lastUsage,  \* last_usage of the turn's client: the answer it counts, 0 for none
  posts,      \* posts[i]: ghost: the POSTs of this call to provider i
  answers,    \* ghost: the answers that the turn has been given
  charged     \* ghost: the answers of the last turn the cost tracker was told of

modelVars == <<chain, turn, round, at, tried, plain, calls, stream, lastUsage, posts,
               answers, charged>>

Closed == [open |-> FALSE, events |-> 0, counts |-> 0]
NoPosts(c) == [i \in 1..Len(c) |-> 0]

ModelInit ==
  /\ chain = <<"ollama">>
  /\ turn = "none" /\ round = 0 /\ at = 0 /\ tried = 0 /\ plain = FALSE
  /\ calls = FALSE /\ stream = Closed
  /\ lastUsage = 0 /\ posts = NoPosts(chain) /\ answers = 0 /\ charged = {}

ModelIdle == turn = "none"
Asking == at > 0 /\ ~stream.open
Streams == turn \in {"stream", "request"}

\* What a POST may come back with: no connection or a timeout, a connection cut
\* on the way, 429, 5xx, another status or error, a body that is not as it
\* should be, an answer.
Failures == {"unreachable", "cut", "limit", "server", "refused", "odd"}

Cloud == chain[at] \in {"anthropic", "openai"}

\* Mutant of the next: the local server is asked once more.
TriedOnceMore(failure) ==
  /\ ~Streams
  /\ \/ chain[at] = "ollama" /\ failure \in {"unreachable", "cut"} /\ tried < 3
     \/ Cloud /\ failure \in {"cut", "server"} /\ tried < 3

\* The local server's responses are looked at after its retry loop, so that no
\* status is tried again; a cloud provider is, unless it cannot be reached or
\* says 429, which is waited out once and reported; Gemini and streams never.
TriedAgain(failure) ==
  /\ ~Streams
  /\ \/ chain[at] = "ollama" /\ failure \in {"unreachable", "cut"} /\ tried < 2
     \/ Cloud /\ failure \in {"cut", "server"} /\ tried < 3

Posted == posts' = [posts EXCEPT ![at] = @ + 1]

-----------------------------------------------------------------------------
(* A turn and its calls.                                                   *)

\* A turn has a client of its own.  FallbackLLMClient has no chat_stream, and
\* the code agent asks for a whole answer then.
BeginTurn(c, how) ==
  /\ ModelIdle
  /\ how \in {"stream", "request"} => Len(c) = 1
  /\ chain' = c /\ turn' = how
  /\ round' = 1 /\ at' = 1 /\ tried' = 0 /\ plain' = FALSE
  /\ calls' = FALSE /\ stream' = Closed
  /\ lastUsage' = 0 /\ posts' = NoPosts(c) /\ answers' = 0 /\ charged' = {}

TheAnswer == <<calls, stream, lastUsage, answers, charged>>

\* A wait, and another attempt.
PostAgain(failure) ==
  /\ Asking /\ TriedAgain(failure)
  /\ tried' = tried + 1
  /\ Posted
  /\ UNCHANGED <<chain, turn, round, at, plain, TheAnswer>>

\* Whatever fails a tool call at the local server, a message of a shape it
\* should not have included, makes it a plain chat, with attempts of its own.
WithoutTools == chain[at] = "ollama" /\ turn = "tools" /\ ~plain

PostWithoutTools(failure) ==
  /\ Asking /\ ~TriedAgain(failure) /\ WithoutTools
  /\ plain' = TRUE /\ tried' = 0
  /\ Posted
  /\ UNCHANGED <<chain, turn, round, at, TheAnswer>>

\* The provider has failed: the next one of the chain.
NextProvider(failure) ==
  /\ Asking /\ ~TriedAgain(failure) /\ ~WithoutTools
  /\ at < Len(chain)
  /\ at' = at + 1 /\ tried' = 0 /\ plain' = FALSE
  /\ Posted
  /\ UNCHANGED <<chain, turn, round, TheAnswer>>

\* All have failed, and with them the turn, which charges nothing.
CallFails(failure) ==
  /\ Asking /\ ~TriedAgain(failure) /\ ~WithoutTools
  /\ at = Len(chain)
  /\ turn' = "none" /\ at' = 0
  /\ Posted
  /\ UNCHANGED <<chain, round, tried, plain, TheAnswer>>

(* Answers that are read at once.                                          *)

\* Mutant of the next: counts that do not come leave those of the last answer.
AnswerKeeping(asks) ==
  /\ answers' = answers + 1
  /\ lastUsage' \in {answers + 1, lastUsage}
  /\ calls' = asks
  /\ at' = 0
  /\ Posted
  /\ UNCHANGED <<chain, turn, round, tried, plain, stream, charged>>

\* The counts replace the last ones, and are zero when the answer has none.
Answered(asks) ==
  /\ answers' = answers + 1
  /\ lastUsage' \in {answers + 1, 0}
  /\ calls' = asks
  /\ at' = 0
  /\ Posted
  /\ UNCHANGED <<chain, turn, round, tried, plain, stream, charged>>

WithTools == turn = "tools" /\ ~plain

\* chat and generate: the text of the answer.
OllamaText == chain[at] = "ollama" /\ Answered(FALSE)
CloudText == chain[at] # "ollama" /\ Answered(FALSE)
TextAnswered == Asking /\ ~Streams /\ ~WithTools /\ (OllamaText \/ CloudText)

\* chat_with_tools: calls, or else the text.  Anthropic's answer may be without
\* either and is then the empty text; the others' must have their shape.
OllamaTools == chain[at] = "ollama" /\ \E asks \in BOOLEAN : Answered(asks)
AnthropicTools == chain[at] = "anthropic" /\ \E asks \in BOOLEAN : Answered(asks)
OpenAITools == chain[at] = "openai" /\ \E asks \in BOOLEAN : Answered(asks)
GeminiTools == chain[at] = "gemini" /\ \E asks \in BOOLEAN : Answered(asks)
ToolsAnswered ==
  Asking /\ WithTools /\ (OllamaTools \/ AnthropicTools \/ OpenAITools \/ GeminiTools)

-----------------------------------------------------------------------------
(* Answers that are read as they come.                                     *)

\* The POST is accepted.
OpenStream ==
  /\ Asking /\ Streams
  /\ stream' = [Closed EXCEPT !.open = TRUE]
  /\ answers' = answers + 1
  /\ Posted
  /\ UNCHANGED <<chain, turn, round, at, tried, plain, calls, lastUsage, charged>>

TheCall == <<chain, turn, round, tried, plain, calls, posts, answers, charged>>

\* An event with text, which the chat prints and the agent hands on.
StreamText ==
  /\ stream.open /\ stream.events < MaxEvents
  /\ stream' = [stream EXCEPT !.events = @ + 1]
  /\ UNCHANGED <<at, lastUsage, TheCall>>

\* The end of what there is to read: the client holds these counts.
CloseStream(counts) ==
  /\ stream' = Closed /\ at' = 0
  /\ lastUsage' = counts
  /\ UNCHANGED TheCall

\* Events with counts are taken down, for the end: Anthropic's at the start and
\* before the end, Gemini's at any time.
TakeDown ==
  /\ stream' = [stream EXCEPT !.counts = answers]
  /\ UNCHANGED <<at, lastUsage, TheCall>>

\* The local server's counts come with the event that is the last one; a stream
\* that is over without it has none, and passes for an answer like any other.
OllamaEvent == chain[at] = "ollama" /\ CloseStream(answers)

AnthropicEvent == chain[at] = "anthropic" /\ (TakeDown \/ CloseStream(stream.counts))

\* OpenAI's are the client's as soon as they come.
OpenAIEvent ==
  /\ chain[at] = "openai"
  /\ lastUsage' = answers
  /\ UNCHANGED <<at, stream, TheCall>>

GeminiEvent == chain[at] = "gemini" /\ TakeDown

\* The connection is closed, in order, wherever the answer is.
StreamEnds ==
  CloseStream(IF chain[at] \in {"anthropic", "gemini"} THEN stream.counts ELSE lastUsage)

\* It breaks, or nothing comes in time: the turn has failed, whatever was shown.
StreamBreaks ==
  /\ turn' = "none" /\ at' = 0 /\ stream' = Closed
  /\ UNCHANGED <<chain, round, tried, plain, calls, lastUsage, posts, answers, charged>>

ReadStream ==
  /\ stream.open
  /\ \/ OllamaEvent \/ AnthropicEvent \/ OpenAIEvent \/ GeminiEvent
     \/ StreamText \/ StreamEnds \/ StreamBreaks

-----------------------------------------------------------------------------
(* The turn goes on or ends.                                               *)

\* The answer asks for tools, whose results are sent in another call.
AskAgain ==
  /\ turn = "tools" /\ at = 0 /\ calls /\ round < MaxRounds
  /\ round' = round + 1
  /\ at' = 1 /\ tried' = 0 /\ plain' = FALSE
  /\ posts' = NoPosts(chain)
  /\ UNCHANGED <<chain, turn, TheAnswer>>

\* Mutant of the next: a turn waits for the counts of its answer.
EndTurnWithCounts ==
  /\ ~ModelIdle /\ at = 0 /\ lastUsage > 0 /\ (calls => round = MaxRounds)
  /\ turn' = "none"
  /\ charged' = IF turn \notin {"stream", "tools"} \/ Len(chain) > 1 THEN {} ELSE {lastUsage}
  /\ UNCHANGED <<chain, round, at, tried, plain, calls, stream, lastUsage, posts, answers>>

\* A chat is charged for the counts that its client holds at the end.  The name
\* of the model is asked of the client for that: a chain has none, and the
\* exception ends the program.  Questions and the code agent's requests are not
\* charged.
EndTurn ==
  /\ ~ModelIdle /\ at = 0 /\ (calls => round = MaxRounds)
  /\ turn' = "none"
  /\ charged' = IF turn \notin {"stream", "tools"} \/ Len(chain) > 1 THEN {} ELSE {lastUsage} \ {0}
  /\ UNCHANGED <<chain, round, at, tried, plain, calls, stream, lastUsage, posts, answers>>

ModelStep ==
  \/ \E failure \in Failures :
       PostAgain(failure) \/ PostWithoutTools(failure) \/ NextProvider(failure)
       \/ CallFails(failure)
  \/ TextAnswered \/ ToolsAnswered \/ OpenStream \/ ReadStream
  \/ AskAgain \/ EndTurn

ModelNext ==
  \/ \E c \in Chains, how \in {"stream", "tools", "request", "generate", "ask"} : BeginTurn(c, how)
  \/ ModelStep

\* A request has a timeout of its own, as the next event of a stream has, and
\* nothing else is waited for.
ModelSpec == ModelInit /\ [][ModelNext]_modelVars /\ WF_modelVars(ModelStep)

-----------------------------------------------------------------------------
(* What the module promises.                                               *)

\* What one call may cost: three POSTs to the local server, and as many again
\* without tools; four to a cloud provider; one to Gemini, and one for a stream.
Budget(api) ==
  IF Streams \/ api = "gemini" THEN 1
  ELSE IF api \in {"anthropic", "openai"} THEN 4
  ELSE IF turn = "tools" THEN 6 ELSE 3

\* What a turn may cost.  The retries of a call are bounded for each provider,
\* through the loop in a loop of a tool call, the providers that stand in, and
\* every mix of failures, and a provider is not asked before the ones in front
\* of it have failed; the turn is charged for its last answer or for none, never
\* for an earlier one or one that broke off, whenever and in whatever event the
\* counts came.
WithinBudget ==
  /\ Asking => \A i \in 1..Len(chain) :
       /\ i < at => posts[i] \in 1..Budget(chain[i])
       /\ i = at => posts[i] < Budget(chain[i])
       /\ i > at => posts[i] = 0
  /\ charged \subseteq {answers}

\* A turn comes to its end, whatever the providers bring back
\* (_retry_with_backoff, _call_with_retry, FallbackLLMClient, _send_with_tools).
TurnReturns == ~ModelIdle ~> ModelIdle
=============================================================================

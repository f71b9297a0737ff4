------------------------------ MODULE LlmCalls ------------------------------
(***************************************************************************)
(* build_llm and the providers it wires: what one attempt makes of a       *)
(* provider's reply, seen by the retry loop and the circuit breaker of     *)
(* LlmResilience, or by the caller when resilience is off.                 *)
(***************************************************************************)
EXTENDS LlmResilience, FiniteSets

CONSTANTS
  Remotes,  \* the remote providers in play: "openai", "ollama", ...
  Nothing   \* no settled attempt

ASSUME RemotesAssumption ==
  Remotes \subseteq {"openai", "openai_responses", "anthropic", "bedrock", "ollama"}

VARIABLES
  llm,   \* what build_llm returned; its kind is "none" before, or "refused"
  last   \* the attempt the latest step settled, or Nothing

callVars == <<vars, llm, last>>

-----------------------------------------------------------------------------
(* Construction.                                                           *)

\* The settings a deployment can have: the provider's name, its API key, its SDK
\* and the resilience switch.
Settings ==
  [name : Remotes \cup {"local", "mistyped"}, key : BOOLEAN, sdk : BOOLEAN,
   enabled : BOOLEAN]

NeedsKey == {"openai", "openai_responses", "anthropic"}
NeedsSdk == {"anthropic", "bedrock"}

\* build_llm: the local provider is never wrapped; an unknown name, a missing key
\* and a missing SDK are refused at once.
Built(settings) ==
  IF settings.name = "local"
    THEN [kind |-> "local", resilient |-> FALSE]
    ELSE IF \/ settings.name \notin Remotes
            \/ settings.name \in NeedsKey /\ ~settings.key
            \/ settings.name \in NeedsSdk /\ ~settings.sdk
           THEN [kind |-> "refused", resilient |-> FALSE]
           ELSE [kind |-> settings.name, resilient |-> settings.enabled]

Usable == llm.kind \notin {"none", "refused"}

-----------------------------------------------------------------------------
(* One attempt.  A reply is how the transport failed, or a body: whether   *)
(* its fields lead to the content, and which parts the content has.        *)

Failures == {"unreachable", "status", "undecodable", "late"}
Bodies ==
  {[path |-> FALSE, parts |-> {}]} \cup [path : {TRUE}, parts : SUBSET {"text", "refusal"}]
Replies ==
  [failure : Failures, body : {[path |-> FALSE, parts |-> {}]}]
    \cup [failure : {"none"}, body : Bodies]

\* The reply came but has not the shape the provider's API promises.
Misshapen(reply) ==
  IF reply.failure = "none" THEN ~reply.body.path ELSE reply.failure = "undecodable"

\* What a working provider sends.
GoodReply == [failure |-> "none", body |-> [path |-> TRUE, parts |-> {"text"}]]

\* How an attempt ends: with a text, with LLMProviderError, which the except clauses
\* of a provider raise for the failures they name, or with an exception that nobody
\* expects.
Attempted(reply, named, content) ==
  IF reply.failure = "none" THEN content
  ELSE IF reply.failure \in named THEN "error" ELSE "escapes"

\* The classes httpx and the SDKs have for them; a body that is no JSON is a
\* ValueError except in botocore, and "late" is also the wrapper's own timeout.
NetworkFailures == Failures \ {"undecodable"}

\* data["choices"][0]["message"]["content"]: a wrong shape is a KeyError, IndexError
\* or TypeError, a null content the text "None".
ContentAsText(body) ==
  IF ~body.path THEN "escapes" ELSE IF "text" \in body.parts THEN "text" ELSE "the word None"

\* _extract_openai_response_text: text, else a refusal, else an error.
ResponsesText(body) == IF body.path /\ body.parts # {} THEN "text" ELSE "error"

\* The text blocks are joined, of which there may be none.
TextBlocks(body) ==
  IF ~body.path THEN "escapes" ELSE IF "text" \in body.parts THEN "text" ELSE "blank"

\* BedrockConverseLLM._extract_text checks every level.
BedrockText(body) == IF body.path /\ "text" \in body.parts THEN "text" ELSE "error"

OpenAIChatLLM(reply) == Attempted(reply, NetworkFailures, ContentAsText(reply.body))
OpenAIResponsesLLM(reply) == Attempted(reply, NetworkFailures, ResponsesText(reply.body))
AnthropicLLM(reply) == Attempted(reply, NetworkFailures, TextBlocks(reply.body))
BedrockConverseLLM(reply) == Attempted(reply, Failures, BedrockText(reply.body))

\* Mutant: only the HTTP status is caught.
OllamaStatusOnly(reply) == Attempted(reply, {"status", "late"}, ContentAsText(reply.body))

OllamaLLM(reply) == Attempted(reply, NetworkFailures, ContentAsText(reply.body))

End(kind, reply) ==
  CASE kind = "local" -> "text"
    [] kind = "openai" -> OpenAIChatLLM(reply)
    [] kind = "openai_responses" -> OpenAIResponsesLLM(reply)
    [] kind = "anthropic" -> AnthropicLLM(reply)
    [] kind = "bedrock" -> BedrockConverseLLM(reply)
    [] kind = "ollama" -> OllamaLLM(reply)

Texts == {"text", "blank", "the word None"}

\* No settled attempt is Nothing.
ASSUME NothingAssumption ==
  Nothing \notin [end : Texts \cup {"error", "escapes"}, misshapen : BOOLEAN]

\* A remote that is up sends text; one that is down fails, or sends anything.
Sent == IF healthy THEN {GoodReply} ELSE Replies

Settled(reply) == last' = [end |-> End(llm.kind, reply), misshapen |-> Misshapen(reply)]

-----------------------------------------------------------------------------
CallInit == Init /\ llm = [kind |-> "none", resilient |-> FALSE] /\ last = Nothing

\* The process starts with one settings object; a refused one is corrected and
\* the process started again.
Build ==
  /\ ~Usable
  /\ \E settings \in Settings : llm' = Built(settings)
  /\ last' = Nothing
  /\ UNCHANGED vars

StartCall(t) ==
  /\ Usable
  /\ llm.resilient
  /\ StartGenerate(t)
  /\ last' = Nothing
  /\ UNCHANGED llm

\* _call_with_timeout around the provider's generate: only LLMProviderError is
\* counted and retried.
Attempt(t) ==
  /\ pc[t] = "call"
  /\ \E reply \in Sent :
       /\ Settled(reply)
       /\ CASE End(llm.kind, reply) \in Texts -> Answer(t)
            [] End(llm.kind, reply) = "error" -> AttemptFails(t)
            [] End(llm.kind, reply) = "escapes" -> AttemptRaises(t)
  /\ UNCHANGED llm

\* Without resilience, and with the local provider, generate is one attempt.
Direct ==
  /\ Usable
  /\ ~llm.resilient
  /\ \E reply \in Sent : Settled(reply)
  /\ UNCHANGED <<vars, llm>>

\* The steps of the breaker and the loop.
BreakerStep(t) ==
  /\ Admit(t) \/ Reject(t) \/ RecordSuccess(t) \/ RecordFailure(t) \/ Retry(t)
  /\ last' = Nothing
  /\ UNCHANGED llm

Passing ==
  /\ Tick \/ BreakDown \/ Repair
  /\ last' = Nothing
  /\ UNCHANGED llm

CallNext ==
  \/ Build
  \/ Direct
  \/ \E t \in Threads : StartCall(t) \/ Attempt(t) \/ BreakerStep(t)
  \/ Passing

CallSpec ==
  /\ CallInit
  /\ [][CallNext]_callVars
  /\ WF_callVars(Tick /\ Passing)
  /\ \A t \in Threads : WF_callVars(Attempt(t) \/ BreakerStep(t))
  /\ \E t \in Threads : WF_callVars(StartCall(t))

-----------------------------------------------------------------------------
(* Properties.                                                             *)

\* LLMProviderError wraps transport failures, HTTP errors and SDK exceptions of
\* every provider, so that they are retried: a call gives up before its last
\* attempt only over a reply of a wrong shape, and without resilience the caller
\* gets an exception of another class only then.
RetryStep ==
  /\ \A t \in Threads :
       pc[t] \in {"call", "failure"} /\ pc'[t] = "idle" =>
         attempt[t] = MaxAttempts \/ (last' # Nothing /\ last'.misshapen)
  /\ last' # Nothing /\ last'.end = "escapes" => last'.misshapen

FailuresAreRetried == [][RetryStep]_callVars

\* The inductive invariant: calls are under way only of a provider that was built.
CallInv ==
  /\ ResilienceInv
  /\ llm \in [kind : Remotes \cup {"local", "none", "refused"}, resilient : BOOLEAN]
  /\ ~Usable => \A t \in Threads : pc[t] = "idle"
=============================================================================

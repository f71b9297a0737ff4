----------------------------- MODULE AgentCalls -----------------------------
(***************************************************************************)
(* FeedbackInsightAgent.answer around the language model: the input gate,  *)
(* the calls that may fail, the parsing of whatever text came back, the    *)
(* judge that may ask the same provider again, and the telemetry spans     *)
(* that must tell how each call went.  Evidence, ranking and citations are *)
(* modelled in AnswerPipeline.                                             *)
(*                                                                         *)
(* The events of a call share a fresh correlation id, so each thread has a *)
(* trace of its own.  The sink itself does not fail.                       *)
(***************************************************************************)
EXTENDS LlmCalls, SequencesExt

CONSTANTS
  ToolRuns,  \* how the tool of a question may end: "none", "refused", "ok", "error"
  Judging    \* the providers with which hallucination_judge_enabled may be set

ASSUME ToolRunsAssumption == ToolRuns \subseteq {"none", "refused", "ok", "error"}
ASSUME JudgingAssumption == Judging \subseteq Remotes \cup {"local"}

VARIABLES
  judged,  \* settings.hallucination_judge_enabled
  stage,   \* stage[t]: "idle", "retrieve", or who asks the provider: "model", "judge"
  trace,   \* trace[t]: the telemetry events of the call so far
  text,    \* text[t]: what the model has returned, until the answer is made of it
  ended    \* the trace and the reply of the call the latest step ended, or Nothing

calling == <<stage, trace, text>>
agentVars == <<callVars, judged, calling, ended>>

-----------------------------------------------------------------------------
(* Telemetry.                                                              *)

Event(name, kind) == [name |-> name, kind |-> kind]

Opened(events, name) == Append(events, Event(name, "started"))

\* Mutant: only the project's own error closes a span.
ClosedUnlessUnknown(events, name, how) ==
  IF how = "escapes" THEN events ELSE Append(events, Event(name, how))

\* Telemetry.span: the finished event says "ok", or "error" when an exception of any
\* class leaves the block.
Closed(events, name, how) == Append(events, Event(name, IF how = "ok" THEN "ok" ELSE "error"))

\* A block in which nothing else is traced.
Span(events, name, how) == Closed(Opened(events, name), name, how)

\* OpenTelemetryTraceSink.emit: the spans that have been started and not ended. A
\* started event replaces the span under its key; a finished one that finds none
\* starts and ends one at once.
ActiveSpans(events) ==
  {events[i].name : i \in {i \in DOMAIN events :
     /\ events[i].kind = "started"
     /\ \A j \in DOMAIN events : j > i => events[j].name # events[i].name}}

-----------------------------------------------------------------------------
(* The gate and the parser.                                                *)

InputRules == <<"prompt_injection", "system_prompt_disclosure", "context_override", "data_access">>

Questions == [empty : BOOLEAN, matches : SUBSET ToSet(InputRules)]

\* check_input: the suggested response of the first rule that matches.
CheckInput(question) ==
  IF question.empty THEN "ask for a question"
  ELSE LET matched == SelectSeq(InputRules, LAMBDA rule : rule \in question.matches)
       IN  IF matched = <<>> THEN "allowed" ELSE Head(matched)

Allowed == {question \in Questions : CheckInput(question) = "allowed"}

\* What the parser finds in a text: for each place where JSON is looked for, nothing,
\* JSON that is no valid payload, or a payload; and whether it has the sections.
Found == {"nothing", "invalid", "payload"}
Shapes == [whole : Found, fenced : Found, embedded : Found, sections : BOOLEAN]
Bare == [whole |-> "nothing", fenced |-> "nothing", embedded |-> "nothing", sections |-> FALSE]
Sectioned == [Bare EXCEPT !.sections = TRUE]

\* The last resort of parse_llm_output: the text itself, unless nothing is left of it.
Fallback(response) ==
  IF response = "blank" THEN "I could not parse the model response." ELSE response

\* parse_llm_output: strict JSON, JSON in a fence, the first object in the text, the
\* headings of the old format, the text.
ParseLlmOutput(response, shape) ==
  CASE "payload" \in {shape.whole, shape.fenced, shape.embedded} -> "the payload"
    [] shape.sections -> "the section"
    [] OTHER -> Fallback(response)

\* What may be parsed out of a text of the provider; DeterministicLLM writes sections.
AnyParsed == {ParseLlmOutput("text", shape) : shape \in Shapes}

Parsed(response) ==
  CASE response # "text" -> {ParseLlmOutput(response, Bare)}
    [] response = "text" /\ llm.kind = "local" -> {ParseLlmOutput(response, Sectioned)}
    [] response = "text" /\ llm.kind # "local" -> AnyParsed

-----------------------------------------------------------------------------
AgentInit ==
  /\ CallInit
  /\ judged = FALSE
  /\ stage = [t \in Threads |-> "idle"]
  /\ trace = [t \in Threads |-> <<>>]
  /\ text = [t \in Threads |-> ""]
  /\ ended = Nothing

GoOn(t, next, events) ==
  /\ stage' = [stage EXCEPT ![t] = next]
  /\ trace' = [trace EXCEPT ![t] = events]
  /\ UNCHANGED text
  /\ ended' = Nothing

\* answer returns or raises: the events and the reply are final.
Leave(t, events, reply) ==
  /\ stage' = [stage EXCEPT ![t] = "idle"]
  /\ trace' = [trace EXCEPT ![t] = <<>>]
  /\ text' = [text EXCEPT ![t] = ""]
  /\ ended' = [trace |-> events, reply |-> reply]

\* An exception leaves answer: the span of the run ends with it.
Raise(t, events, how) == Leave(t, Closed(events, "agent_run", how), "raised")

\* The settings the process starts with say, too, whether a judge is wired to the provider.
BuildAgent ==
  /\ Build
  /\ judged' \in BOOLEAN
  /\ judged' => llm'.kind \in Judging
  /\ ended' = Nothing
  /\ UNCHANGED calling

\* Nothing the model calls see changes.
Local == last' = Nothing /\ UNCHANGED <<vars, llm>>

\* The question passes the gate and the run begins.
Ask(t) ==
  /\ Usable
  /\ stage[t] = "idle"
  /\ Allowed # {}
  /\ GoOn(t, "retrieve", Opened(<<>>, "agent_run"))
  /\ Local /\ UNCHANGED judged

\* _refused_answer: a run that asks neither the store nor the model.
Refuse(t) ==
  /\ Usable
  /\ stage[t] = "idle"
  /\ Questions \ Allowed # {}
  /\ Leave(t, Span(<<>>, "agent_run", "ok"), "the suggested response")
  /\ Local /\ UNCHANGED judged

\* _retrieve fails: the vector store is away.
RetrievalFails(t) ==
  /\ stage[t] = "retrieve"
  /\ Raise(t, Span(trace[t], "retrieval", "escapes"), "escapes")
  /\ Local /\ UNCHANGED judged

\* _maybe_run_tool: a ToolError ends the span of the tool and not the call.
MaybeRunTool(events, tool) ==
  CASE tool = "none" -> events
    [] tool = "refused" -> Append(events, Event("tool_run_refused", "instant"))
    [] OTHER -> Span(events, "tool_run", tool)

\* _retrieve succeeds, the tool runs and llm.generate begins.
Retrieve(t) ==
  /\ stage[t] = "retrieve"
  /\ \E tool \in ToolRuns :
       GoOn(t, "model",
            Opened(MaybeRunTool(Span(trace[t], "retrieval", "ok"), tool), "llm_call"))
  /\ IF llm.resilient THEN StartCall(t) ELSE Local
  /\ UNCHANGED judged

\* The provider raised for the model or the judge: their spans end, and the run's.
Asking == [model |-> "llm_call", judge |-> "hallucination_check"]

Fails(t, how) == Raise(t, Closed(trace[t], Asking[stage[t]], how), how)

\* The check of the answer is through, and the answer is made of the parsed text.
Checked(t, events, response) ==
  \E reply \in Parsed(response) :
    Leave(t, Closed(Closed(events, "hallucination_check", "ok"), "agent_run", "ok"), reply)

\* Mutant: the check is over before the judge was asked.
ReturnsUnjudged(t, response) ==
  LET parsed == Span(Closed(trace[t], "llm_call", "ok"), "response_parsing", "ok")
  IN  IF ~judged THEN Checked(t, Opened(parsed, "hallucination_check"), response)
      ELSE /\ stage' = [stage EXCEPT ![t] = "judge"]
           /\ trace' = [trace EXCEPT ![t] = Span(parsed, "hallucination_check", "ok")]
           /\ text' = [text EXCEPT ![t] = response]
           /\ ended' = Nothing

\* The model returned: response_parsing, then hallucination_check, in which the overlap
\* with the evidence is computed and a judge is asked.
Returns(t, response) ==
  LET parsed == Span(Closed(trace[t], "llm_call", "ok"), "response_parsing", "ok")
      checking == Opened(parsed, "hallucination_check")
  IN  IF ~judged THEN Checked(t, checking, response)
      ELSE /\ stage' = [stage EXCEPT ![t] = "judge"]
           /\ trace' = [trace EXCEPT ![t] = checking]
           /\ text' = [text EXCEPT ![t] = response]
           /\ ended' = Nothing

\* llm.generate returned a text: to the model's caller, or to the judge, who makes a
\* verdict of any text (_parse_judge_response).
Generated(t, response) ==
  IF stage[t] = "model" THEN Returns(t, response) ELSE Checked(t, trace[t], text[t])

\* LLMHallucinationJudge.judge asks the resilient provider of the model once more, with a
\* retry loop of its own and through the same circuit.
StartJudge(t) ==
  /\ stage[t] = "judge"
  /\ StartCall(t)
  /\ ended' = Nothing
  /\ UNCHANGED <<calling, judged>>

\* One attempt of the resilient provider; an unexpected exception ends the call.
ModelAttempt(t) ==
  /\ stage[t] \in {"model", "judge"}
  /\ Attempt(t)
  /\ UNCHANGED judged
  /\ IF last'.end = "escapes" THEN Fails(t, "escapes")
     ELSE /\ text' = IF stage[t] = "model" /\ last'.end \in Texts
                     THEN [text EXCEPT ![t] = last'.end] ELSE text
          /\ ended' = Nothing
          /\ UNCHANGED <<stage, trace>>

\* The breaker and the retry loop go on; when they are done the agent goes on.
ModelGoesOn(t) ==
  /\ stage[t] \in {"model", "judge"}
  /\ BreakerStep(t)
  /\ UNCHANGED judged
  /\ CASE pc'[t] # "idle" -> ended' = Nothing /\ UNCHANGED calling
       [] pc'[t] = "idle" /\ pc[t] = "success" -> Generated(t, text[t])
       [] pc'[t] = "idle" /\ pc[t] # "success" -> Fails(t, "error")

\* A provider without resilience, asked by the model or the judge.
ModelDirectly(t) ==
  /\ stage[t] \in {"model", "judge"}
  /\ Direct
  /\ UNCHANGED judged
  /\ IF last'.end \in Texts THEN Generated(t, last'.end) ELSE Fails(t, last'.end)

AgentStep(t) ==
  \/ RetrievalFails(t) \/ Retrieve(t)
  \/ StartJudge(t) \/ ModelAttempt(t) \/ ModelGoesOn(t) \/ ModelDirectly(t)

Apart == ended' = Nothing /\ UNCHANGED <<calling, judged>>

AgentNext ==
  \/ BuildAgent
  \/ Passing /\ Apart
  \/ \E t \in Threads : Ask(t) \/ Refuse(t) \/ AgentStep(t)

\* Threads run, every attempt ends within its timeout, time passes, and some thread is
\* asked allowed questions for which the store answers, again and again.
AgentSpec ==
  /\ AgentInit
  /\ [][AgentNext]_agentVars
  /\ WF_agentVars(Tick /\ Passing /\ Apart)
  /\ \A t \in Threads : WF_agentVars(AgentStep(t))
  /\ \E t \in Threads : WF_agentVars(Ask(t)) /\ SF_agentVars(Retrieve(t))

-----------------------------------------------------------------------------
(* Properties.                                                             *)

\* The code's own claim: "On error the finished event carries status: error ... and
\* the exception is re-raised".  Whichever way a call went out, each span it started
\* has ended once, inner ones before outer ones, and none stays active in the sink; the
\* run failed exactly if an inner span other than a tool's did, be it the check of a good
\* answer; a refused question reached no model, an answered one was checked after a call
\* of the model that went well, and its answer is not blank.
Starts(events, name) == {i \in DOMAIN events : events[i] = Event(name, "started")}
Ends(events, name) ==
  {i \in DOMAIN events : events[i] \in {Event(name, "ok"), Event(name, "error")}}

WellNested(events) ==
  \A i \in DOMAIN events : events[i].kind = "started" =>
    /\ Cardinality(Starts(events, events[i].name)) = 1
    /\ Cardinality(Ends(events, events[i].name)) = 1
    /\ \E j \in Ends(events, events[i].name) :
         /\ i < j
         /\ \A k \in (i + 1)..(j - 1) :
              events[k].kind = "started" =>
                \A l \in Ends(events, events[k].name) : k < l /\ l < j

Failed(events) == {e.name : e \in {e \in ToSet(events) : e.kind = "error"}}

SpansTellTheTruth ==
  ended # Nothing =>
    LET raised == ended.reply = "raised"
    IN  /\ ActiveSpans(ended.trace) = {}
        /\ WellNested(ended.trace)
        /\ raised <=> "agent_run" \in Failed(ended.trace)
        /\ raised <=> Failed(ended.trace) \ {"agent_run", "tool_run"} # {}
        /\ ended.reply = "the suggested response" => Starts(ended.trace, "llm_call") = {}
        /\ ended.reply \notin {"raised", "the suggested response"} =>
             /\ \A name \in {"llm_call", "response_parsing", "hallucination_check"} :
                  Event(name, "ok") \in ToSet(ended.trace)
             /\ ended.reply # "blank"

\* The inductive invariant: while the model is asked, the run and the call of the
\* model are the open spans, in this order, around what came before; while the judge is,
\* the run and the check.
AskedTrace(tool) ==
  Opened(MaybeRunTool(Span(Opened(<<>>, "agent_run"), "retrieval", "ok"), tool), "llm_call")

CheckingTrace(tool) ==
  Opened(Span(Closed(AskedTrace(tool), "llm_call", "ok"), "response_parsing", "ok"),
         "hallucination_check")

AgentInv ==
  /\ CallInv
  /\ stage \in [Threads -> {"idle", "retrieve", "model", "judge"}]
  /\ trace = [t \in Threads |-> trace[t]]
  /\ text \in [Threads -> Texts \cup {""}]
  /\ \A t \in Threads :
       /\ stage[t] = "retrieve" => trace[t] = Opened(<<>>, "agent_run")
       /\ stage[t] = "model" => \E tool \in ToolRuns : trace[t] = AskedTrace(tool)
       /\ stage[t] = "judge" => \E tool \in ToolRuns : trace[t] = CheckingTrace(tool)
  /\ SpansTellTheTruth

\* A question is answered, refused or raises, whatever the provider does.
AnswersEnd == \A t \in Threads : stage[t] # "idle" ~> stage[t] = "idle"
=============================================================================

-------------------------- MODULE AgentCallsProofs --------------------------
(***************************************************************************)
(* The circuit breaker is consistent for every number of threads, attempts *)
(* and failures; failures of providers are retried; and the telemetry of   *)
(* every call of the agent tells how it went.                              *)
(***************************************************************************)
EXTENDS AgentCalls, FiniteSetTheorems, TLAPS

\* The initial state satisfies the invariant: the threshold is positive.
LEMMA InitResilienceInv == Init => ResilienceInv
  <1>1. SUFFICES ASSUME Init PROVE ResilienceInv
    OBVIOUS
  <1>2. TypeOK
    BY <1>1, PolicyAssumption, BoundAssumption DEF Init, TypeOK, None
  <1>3. BreakerConsistent /\ AttemptsLeft
    BY <1>1, PolicyAssumption DEF Init, BreakerConsistent, AttemptsLeft
  <1> QED BY <1>2, <1>3 DEF ResilienceInv

\* The failure count goes up, or stays at a bound that is past the threshold.
LEMMA CountedBound ==
  ASSUME TypeOK
  PROVE  /\ Counted \in 0..MaxFailures
         /\ failures >= Threshold => Counted >= Threshold
  BY BoundAssumption, PolicyAssumption DEF TypeOK, Counted

\* Every step preserves the invariant.
LEMMA NextResilienceInv == ResilienceInv /\ [Next]_vars => ResilienceInv'
  <1> SUFFICES ASSUME ResilienceInv, [Next]_vars PROVE ResilienceInv'
    OBVIOUS
  <1> USE PolicyAssumption, BoundAssumption DEF ResilienceInv
  <1>1. ASSUME NEW t \in Threads, StartGenerate(t) PROVE ResilienceInv'
    BY <1>1 DEF StartGenerate, GoTo, breaker, provider, TypeOK, BreakerConsistent,
                AttemptsLeft
  <1>2. ASSUME NEW t \in Threads, Admit(t) PROVE ResilienceInv'
    <2>1. TypeOK'
      BY <1>2 DEF Admit, GoTo, provider, TypeOK
    <2>2. BreakerConsistent'
      BY <1>2 DEF Admit, TypeOK, BreakerConsistent
    <2>3. AttemptsLeft'
      BY <1>2 DEF Admit, GoTo, TypeOK, AttemptsLeft
    <2> QED BY <2>1, <2>2, <2>3
  <1>3. ASSUME NEW t \in Threads, Reject(t) \/ Answer(t) \/ AttemptRaises(t)
        PROVE ResilienceInv'
    BY <1>3 DEF Reject, Answer, AttemptRaises, GoTo, breaker, provider, TypeOK,
                BreakerConsistent, AttemptsLeft
  <1>4. ASSUME NEW t \in Threads, AttemptFails(t) PROVE ResilienceInv'
    BY <1>4 DEF AttemptFails, GoTo, breaker, provider, TypeOK, BreakerConsistent,
                AttemptsLeft
  <1>5. ASSUME NEW t \in Threads, RecordSuccess(t) PROVE ResilienceInv'
    BY <1>5 DEF RecordSuccess, GoTo, provider, TypeOK, BreakerConsistent, AttemptsLeft,
                None
  <1>6. ASSUME NEW t \in Threads, RecordFailure(t) PROVE ResilienceInv'
    <2>1. /\ age[t] \in 0..MaxDelay
          /\ age[t] \in 0..MaxAge
      BY DEF TypeOK, MaxAge
    <2>2. TypeOK'
      BY <1>6, <2>1, CountedBound DEF RecordFailure, GoTo, provider, TypeOK
    <2>3. BreakerConsistent'
      BY <1>6, <2>1, CountedBound DEF RecordFailure, TypeOK, BreakerConsistent, None
    <2>4. AttemptsLeft'
      BY <1>6 DEF RecordFailure, GoTo, TypeOK, AttemptsLeft
    <2> QED BY <2>2, <2>3, <2>4
  <1>7. ASSUME NEW t \in Threads, Retry(t) PROVE ResilienceInv'
    BY <1>7 DEF Retry, GoTo, breaker, provider, TypeOK, BreakerConsistent, AttemptsLeft
  <1>8. CASE Tick
    <2>1. opened' \in 0..MaxAge \cup {None}
      BY <1>8 DEF Tick, TypeOK, MaxAge, None
    <2>2. age' \in [Threads -> 0..MaxDelay]
      BY <1>8 DEF Tick, TypeOK, Holding
    <2>3. opened' = None <=> opened = None
      BY <1>8 DEF Tick, TypeOK, None
    <2> QED
      BY <1>8, <2>1, <2>2, <2>3 DEF Tick, provider, TypeOK, BreakerConsistent, AttemptsLeft
  <1>9. CASE BreakDown \/ Repair
    <2>1. healthy' \in BOOLEAN
      BY <1>9 DEF BreakDown, Repair
    <2>2. outages' \in 0..MaxOutages
      BY <1>9 DEF BreakDown, Repair, TypeOK
    <2>3. UNCHANGED <<breaker, calls>>
      BY <1>9 DEF BreakDown, Repair
    <2> QED
      BY <2>1, <2>2, <2>3 DEF breaker, calls, TypeOK, BreakerConsistent, AttemptsLeft
  <1>10. CASE UNCHANGED vars
    BY <1>10 DEF vars, breaker, calls, provider, TypeOK, BreakerConsistent, AttemptsLeft
  <1> QED
    BY <1>1, <1>2, <1>3, <1>4, <1>5, <1>6, <1>7, <1>8, <1>9, <1>10 DEF Next, Steps

\* The invariant holds in every reachable state.
THEOREM ResilienceInvariant == Spec => []ResilienceInv
  BY InitResilienceInv, NextResilienceInv, PTL DEF Spec

\* Type correctness; with it, no call makes more than MaxAttempts attempts.
THEOREM TypeCorrect == Spec => []TypeOK
  <1>1. ResilienceInv => TypeOK
    BY DEF ResilienceInv
  <1> QED BY ResilienceInvariant, <1>1, PTL

\* The circuit is closed exactly while fewer than threshold failures were
\* recorded since the last success, whatever calls run concurrently.
THEOREM BreakerIsConsistent == Spec => []BreakerConsistent
  <1>1. ResilienceInv => BreakerConsistent
    BY DEF ResilienceInv
  <1> QED BY ResilienceInvariant, <1>1, PTL

-----------------------------------------------------------------------------
(* The calls of a provider.                                                *)

Kinds == {"local", "openai", "openai_responses", "anthropic", "bedrock", "ollama"}

\* A provider that was built is one of those build_llm knows.
LEMMA UsableKinds == CallInv /\ Usable => llm.kind \in Kinds
  BY RemotesAssumption DEF CallInv, Usable, Kinds

\* How an attempt ends: with a text, with the error that is retried, or, over a
\* reply of a wrong shape only, with another exception.
LEMMA EndKinds ==
  ASSUME NEW kind \in Kinds, NEW reply \in Replies
  PROVE  /\ End(kind, reply) \in Texts \cup {"error", "escapes"}
         /\ End(kind, reply) = "escapes" => Misshapen(reply)
         /\ Misshapen(reply) \in BOOLEAN
  <1> DEFINE MayEnd(end) == /\ end \in Texts \cup {"error", "escapes"}
                            /\ end = "escapes" => Misshapen(reply)
  <1>1. /\ reply.failure \in Failures \cup {"none"}
        /\ reply.body.path \in BOOLEAN
    <2>1. ASSUME NEW body \in Bodies PROVE body.path \in BOOLEAN
      <3>1. CASE body = [path |-> FALSE, parts |-> {}]
        BY <3>1
      <3>2. CASE body \in [path : {TRUE}, parts : SUBSET {"text", "refusal"}]
        <4>1. body.path \in {TRUE}
          BY <3>2
        <4> QED BY <4>1
      <3> QED BY <3>1, <3>2 DEF Bodies
    <2>2. CASE reply \in [failure : Failures, body : {[path |-> FALSE, parts |-> {}]}]
      <3>1. reply.failure \in Failures /\ reply.body = [path |-> FALSE, parts |-> {}]
        BY <2>2
      <3> QED BY <3>1
    <2>3. CASE reply \in [failure : {"none"}, body : Bodies]
      <3>1. reply.failure = "none" /\ reply.body \in Bodies
        BY <2>3
      <3> QED BY <2>1, <3>1
    <2> QED BY <2>2, <2>3 DEF Replies
  <1>2. Misshapen(reply) \in BOOLEAN
    BY <1>1 DEF Misshapen
  <1>3. MayEnd(OpenAIChatLLM(reply)) /\ MayEnd(OllamaLLM(reply))
    BY <1>1 DEF OpenAIChatLLM, OllamaLLM, Attempted, ContentAsText, NetworkFailures,
                Misshapen, Failures, Texts
  <1>4. MayEnd(OpenAIResponsesLLM(reply))
    BY <1>1 DEF OpenAIResponsesLLM, Attempted, ResponsesText, NetworkFailures,
                Misshapen, Failures, Texts
  <1>5. MayEnd(AnthropicLLM(reply))
    BY <1>1 DEF AnthropicLLM, Attempted, TextBlocks, NetworkFailures, Misshapen,
                Failures, Texts
  <1>6. MayEnd(BedrockConverseLLM(reply))
    BY <1>1 DEF BedrockConverseLLM, Attempted, BedrockText, Misshapen, Failures, Texts
  <1>7. MayEnd("text")
    BY DEF Texts
  <1> HIDE DEF MayEnd
  <1>8. MayEnd(End(kind, reply))
    BY <1>3, <1>4, <1>5, <1>6, <1>7 DEF End, Kinds
  <1> QED BY <1>2, <1>8 DEF MayEnd

\* What a remote sends is a reply.
LEMMA SentReplies == Sent \subseteq Replies
  <1>1. [path |-> TRUE, parts |-> {"text"}] \in Bodies
    <2>1. [path |-> TRUE, parts |-> {"text"}]
            \in [path : {TRUE}, parts : SUBSET {"text", "refusal"}]
      OBVIOUS
    <2> QED BY <2>1 DEF Bodies
  <1>2. GoodReply \in [failure : {"none"}, body : Bodies]
    BY <1>1 DEF GoodReply
  <1>3. GoodReply \in Replies
    BY <1>2 DEF Replies
  <1> QED BY <1>3 DEF Sent

\* An attempt that is settled is something.
LEMMA SettledAttempt ==
  ASSUME CallInv, Usable, NEW reply \in Sent, Settled(reply)
  PROVE  /\ last' # Nothing
         /\ last'.end = End(llm.kind, reply)
         /\ last'.misshapen = Misshapen(reply)
         /\ last'.end \in Texts \cup {"error", "escapes"}
         /\ last'.end = "escapes" => last'.misshapen
  <1>1. /\ End(llm.kind, reply) \in Texts \cup {"error", "escapes"}
        /\ End(llm.kind, reply) = "escapes" => Misshapen(reply)
        /\ Misshapen(reply) \in BOOLEAN
    BY UsableKinds, SentReplies, EndKinds
  <1>2. last' = [end |-> End(llm.kind, reply), misshapen |-> Misshapen(reply)]
    BY DEF Settled
  <1>3. last' \in [end : Texts \cup {"error", "escapes"}, misshapen : BOOLEAN]
    BY <1>1, <1>2
  <1> QED BY <1>1, <1>2, <1>3, NothingAssumption

\* An attempt is one of the three the retry loop tells apart.
LEMMA AttemptOutcomes ==
  ASSUME CallInv, NEW t \in Threads, Attempt(t)
  PROVE  /\ Usable /\ last' # Nothing
         /\ last'.end = "escapes" => last'.misshapen
         /\ \/ Answer(t) /\ last'.end \in Texts
            \/ AttemptFails(t) /\ last'.end = "error"
            \/ AttemptRaises(t) /\ last'.end = "escapes"
  <1>1. Usable
    BY DEF Attempt, CallInv
  <1>2. PICK reply \in Sent :
          /\ Settled(reply)
          /\ CASE End(llm.kind, reply) \in Texts -> Answer(t)
               [] End(llm.kind, reply) = "error" -> AttemptFails(t)
               [] End(llm.kind, reply) = "escapes" -> AttemptRaises(t)
    BY DEF Attempt
  <1>3. /\ last' # Nothing
        /\ last'.end = End(llm.kind, reply)
        /\ last'.end \in Texts \cup {"error", "escapes"}
        /\ last'.end = "escapes" => last'.misshapen
    BY <1>1, <1>2, SettledAttempt
  <1> QED BY <1>1, <1>2, <1>3 DEF Texts

\* Every step of the calls is a step of the breaker and the loop, or none of them.
LEMMA CallStepsResilience == CallInv /\ CallNext => [Next]_vars
  <1> SUFFICES ASSUME CallInv, CallNext PROVE [Next]_vars
    OBVIOUS
  <1>1. ASSUME NEW t \in Threads, Attempt(t) PROVE [Next]_vars
    BY <1>1, AttemptOutcomes DEF Next, Steps
  <1>2. ASSUME NEW t \in Threads, StartCall(t) \/ BreakerStep(t) PROVE [Next]_vars
    BY <1>2 DEF StartCall, BreakerStep, Next, Steps
  <1>3. CASE Build \/ Direct \/ Passing
    BY <1>3 DEF Build, Direct, Passing, Next
  <1> QED BY <1>1, <1>2, <1>3 DEF CallNext

\* What Built returns.
LEMMA BuiltProviders ==
  ASSUME NEW choice \in Settings
  PROVE  Built(choice) \in [kind : Remotes \cup {"local", "none", "refused"}, resilient : BOOLEAN]
  BY DEF Settings, Built

\* Every step of the calls, and of what works without them, keeps the invariant.
LEMMA NextCallInv ==
  ASSUME CallInv, CallNext \/ Local \/ UNCHANGED callVars
  PROVE  CallInv'
  <1>1. ResilienceInv'
    BY CallStepsResilience, NextResilienceInv DEF CallInv, Local, callVars
  <1>2. CASE UNCHANGED <<pc, llm>>
    BY <1>1, <1>2 DEF CallInv, Usable
  <1>3. CASE Build
    <2>1. UNCHANGED pc
      BY <1>3 DEF Build, vars, calls
    <2>2. llm' \in [kind : Remotes \cup {"local", "none", "refused"}, resilient : BOOLEAN]
      BY <1>3, BuiltProviders DEF Build
    <2> QED BY <1>1, <1>3, <2>1, <2>2 DEF CallInv, Build
  <1>4. ASSUME NEW t \in Threads, StartCall(t) \/ Attempt(t) \/ BreakerStep(t)
        PROVE  CallInv'
    <2>1. Usable /\ UNCHANGED llm
      <3>1. CASE StartCall(t)
        BY <3>1 DEF StartCall
      <3>2. CASE Attempt(t)
        BY <3>2, AttemptOutcomes DEF Attempt
      <3>3. CASE BreakerStep(t)
        <4>1. pc[t] # "idle"
          BY <3>3 DEF BreakerStep, Admit, Reject, RecordSuccess, RecordFailure, Retry
        <4> QED BY <3>3, <4>1 DEF BreakerStep, CallInv
      <3> QED BY <1>4, <3>1, <3>2, <3>3
    <2> QED BY <1>1, <2>1 DEF CallInv, Usable
  <1>5. CASE Direct \/ Passing \/ Local \/ UNCHANGED callVars
    <2>1. UNCHANGED <<pc, llm>>
      BY <1>5 DEF Direct, Passing, Local, callVars, vars, calls, Tick, BreakDown, Repair
    <2> QED BY <1>2, <2>1
  <1> QED BY <1>3, <1>4, <1>5 DEF CallNext

\* No step gives up early, or lets an unexpected exception out for a reply that has
\* the right shape.
LEMMA NextRetryStep == CallInv /\ (CallNext \/ Local) => RetryStep
  <1> SUFFICES ASSUME CallInv, CallNext \/ Local PROVE RetryStep
    OBVIOUS
  <1> DEFINE Early == \E t \in Threads :
               pc[t] \in {"call", "failure"} /\ pc'[t] = "idle" /\ attempt[t] # MaxAttempts
  <1>1. pc \in [Threads -> {"idle", "before", "call", "success", "failure", "sleep"}]
    BY DEF CallInv, ResilienceInv, TypeOK
  <1>2. ASSUME ~Early, last' = Nothing PROVE RetryStep
    BY <1>2 DEF RetryStep
  <1>3. CASE Build \/ Passing \/ Local
    <2>1. UNCHANGED pc /\ last' = Nothing
      BY <1>3 DEF Build, Passing, Local, vars, calls, Tick, BreakDown, Repair
    <2> QED BY <1>2, <2>1
  <1>4. CASE Direct
    <2>1. PICK reply \in Sent : Settled(reply)
      BY <1>4 DEF Direct
    <2>2. Usable /\ UNCHANGED pc
      BY <1>4 DEF Direct, vars, calls
    <2>3. last'.end = "escapes" => last'.misshapen
      BY <2>1, <2>2, SettledAttempt
    <2> QED BY <2>2, <2>3 DEF RetryStep
  <1>5. ASSUME NEW t \in Threads, StartCall(t) PROVE RetryStep
    <2>1. pc[t] = "idle" /\ pc' = [pc EXCEPT ![t] = "before"] /\ last' = Nothing
      BY <1>5 DEF StartCall, StartGenerate, GoTo
    <2> QED BY <1>1, <1>2, <2>1
  <1>6. ASSUME NEW t \in Threads, Attempt(t) PROVE RetryStep
    <2>1. /\ last' # Nothing
          /\ last'.end = "escapes" => last'.misshapen
          /\ \/ Answer(t) \/ AttemptFails(t)
             \/ AttemptRaises(t) /\ last'.end = "escapes"
      BY <1>6, AttemptOutcomes
    <2>2. CASE Answer(t) \/ AttemptFails(t)
      BY <1>1, <2>1, <2>2 DEF Answer, AttemptFails, GoTo, RetryStep
    <2>3. CASE last'.misshapen
      BY <2>1, <2>3 DEF RetryStep
    <2> QED BY <2>1, <2>2, <2>3
  <1>7. ASSUME NEW t \in Threads, BreakerStep(t) PROVE RetryStep
    <2>1. last' = Nothing
      BY <1>7 DEF BreakerStep
    <2>2. CASE Admit(t) \/ Reject(t) \/ RecordSuccess(t) \/ Retry(t)
      <3>1. pc[t] \notin {"call", "failure"} /\ \A u \in Threads \ {t} : pc'[u] = pc[u]
        BY <1>1, <2>2 DEF Admit, Reject, RecordSuccess, Retry, GoTo
      <3> QED BY <1>2, <2>1, <3>1
    <2>3. CASE RecordFailure(t)
      <3>1. \A u \in Threads \ {t} : pc'[u] = pc[u]
        BY <1>1, <2>3 DEF RecordFailure, GoTo
      <3>2. pc'[t] = "idle" => attempt[t] >= MaxAttempts
        BY <1>1, <2>3 DEF RecordFailure, GoTo
      <3>3. attempt[t] \in 0..MaxAttempts
        BY DEF CallInv, ResilienceInv, TypeOK
      <3> QED BY <1>2, <2>1, <3>1, <3>2, <3>3, PolicyAssumption
    <2> QED BY <1>7, <2>2, <2>3 DEF BreakerStep
  <1> QED BY <1>3, <1>4, <1>5, <1>6, <1>7 DEF CallNext

-----------------------------------------------------------------------------
(* The spans of a call.                                                    *)

\* A trace of one run whose inner spans follow each other: a span that is started
\* inside ends with the next event, and no span is started or ended twice.
Ended(name) == {Event(name, "ok"), Event(name, "error")}

Flat(events) ==
  LET n == Len(events)
  IN  /\ n \in Nat \ {0} /\ DOMAIN events = 1..n
      /\ events[1] = Event("agent_run", "started")
      /\ events[n] \in Ended("agent_run")
      /\ \A i \in 2..n : events[i].kind = "started" =>
           i + 1 < n /\ events[i + 1] \in Ended(events[i].name)
      /\ \A i \in 1..n : events[i].kind = "started" =>
           events[i] = Event(events[i].name, "started")
      /\ \A i, j \in 1..n :
           events[i].name = events[j].name
           /\ (events[i].kind = "started" <=> events[j].kind = "started") => i = j

\* In such a trace the spans are nested and none stays active in the sink.
LEMMA FlatIsNested ==
  ASSUME NEW events, Flat(events)
  PROVE  WellNested(events) /\ ActiveSpans(events) = {}
  <1> DEFINE n == Len(events)
  <1>1. /\ n \in Nat \ {0} /\ DOMAIN events = 1..n
        /\ events[1] = Event("agent_run", "started")
        /\ events[n] \in Ended("agent_run")
        /\ \A i \in 2..n : events[i].kind = "started" =>
             i + 1 < n /\ events[i + 1] \in Ended(events[i].name)
        /\ \A i \in 1..n : events[i].kind = "started" =>
             events[i] = Event(events[i].name, "started")
        /\ \A i, j \in 1..n :
             events[i].name = events[j].name
             /\ (events[i].kind = "started" <=> events[j].kind = "started") => i = j
    BY DEF Flat
  <1> HIDE DEF n
  <1>2. \A name : Event(name, "started") \notin Ended(name)
    BY DEF Event, Ended
  <1>3. \A i, j \in 1..n : events[i] = events[j] => i = j
    BY <1>1
  <1>4. ASSUME NEW name, NEW event \in Ended(name)
        PROVE  event.name = name /\ event.kind \in {"ok", "error"}
    BY <1>4 DEF Ended, Event
  <1>5. ASSUME NEW i \in 1..n, events[i].kind = "started"
        PROVE  /\ Cardinality(Starts(events, events[i].name)) = 1
               /\ \E j \in Ends(events, events[i].name) :
                    /\ i < j
                    /\ \A k \in (i + 1)..(j - 1) :
                         events[k].kind = "started" =>
                           \A l \in Ends(events, events[k].name) : k < l /\ l < j
    <2>1. Starts(events, events[i].name) = {i}
      BY <1>1, <1>3, <1>5 DEF Starts
    <2>2. Cardinality({i}) = 1
      BY FS_Singleton
    <2>3. CASE i = 1
      <3>1. n # 1
        BY <1>1, <1>2
      <3>2. n \in Ends(events, events[i].name) /\ i < n
        BY <1>1, <2>3, <3>1 DEF Ends, Ended, Event
      <3>3. ASSUME NEW k \in (i + 1)..(n - 1), events[k].kind = "started",
                   NEW l \in Ends(events, events[k].name)
            PROVE  k < l /\ l < n
        <4>1. k \in 2..n /\ k + 1 \in 1..n /\ k + 1 < n
              /\ events[k + 1] \in Ended(events[k].name)
          BY <1>1, <2>3, <3>3
        <4>2. l \in 1..n /\ events[l] \in Ended(events[k].name)
          BY <1>1 DEF Ends, Ended
        <4>3. /\ events[l].name = events[k + 1].name
              /\ events[l].kind # "started" /\ events[k + 1].kind # "started"
          BY <1>4, <4>1, <4>2
        <4>4. l = k + 1
          BY <1>1, <4>1, <4>2, <4>3
        <4> QED BY <1>1, <4>1, <4>4
      <3> QED BY <2>1, <2>2, <3>2, <3>3
    <2>4. CASE i # 1
      <3>1. i + 1 \in Ends(events, events[i].name) /\ i < i + 1
        BY <1>1, <1>5, <2>4 DEF Ends, Ended
      <3>2. (i + 1)..((i + 1) - 1) = {}
        BY <1>1
      <3> QED BY <2>1, <2>2, <3>1, <3>2
    <2> QED BY <2>3, <2>4
  <1>6. ASSUME NEW i \in 1..n, events[i].kind = "started"
        PROVE  Cardinality(Ends(events, events[i].name)) = 1
    <2>1. PICK m \in Ends(events, events[i].name) : i < m
      BY <1>5, <1>6
    <2>2. \A l \in Ends(events, events[i].name) :
            l \in 1..n /\ events[l] \in Ended(events[i].name)
      BY <1>1 DEF Ends, Ended
    <2>3. \A l \in Ends(events, events[i].name) :
            events[l].name = events[i].name /\ events[l].kind # "started"
      BY <1>4, <2>2
    <2>4. \A l \in Ends(events, events[i].name) : l = m
      BY <1>1, <2>1, <2>2, <2>3
    <2>5. Ends(events, events[i].name) = {m}
      BY <2>1, <2>4
    <2> QED BY <2>5, FS_Singleton
  <1>7. WellNested(events)
    BY <1>1, <1>5, <1>6 DEF WellNested
  <1>8. ASSUME NEW i \in 1..n, events[i].kind = "started"
        PROVE  \E j \in 1..n : j > i /\ events[j].name = events[i].name
    <2>1. PICK j \in Ends(events, events[i].name) : i < j
      BY <1>5, <1>8
    <2> QED BY <1>1, <2>1 DEF Ends, Event
  <1>9. ActiveSpans(events) = {}
    BY <1>1, <1>8 DEF ActiveSpans
  <1> QED BY <1>7, <1>9

\* The events of a run that goes on: the spans called names have been started and
\* ended in it, and the ones called failures have failed.
SpanNames ==
  {"agent_run", "retrieval", "tool_run", "tool_run_refused", "llm_call", "response_parsing",
   "hallucination_check"}
Events == [name : SpanNames, kind : {"started", "ok", "error", "instant"}]

Running(events, names, faults) ==
  LET n == Len(events)
  IN  /\ events \in Seq(Events) /\ n \in Nat \ {0}
      /\ events[1] = Event("agent_run", "started")
      /\ \A i \in 2..n : events[i].name \in names
      /\ \A i \in 2..n : events[i].kind = "started" =>
           i + 1 \in 2..n /\ events[i + 1] \in Ended(events[i].name)
      /\ \A i, j \in 1..n :
           events[i].name = events[j].name
           /\ (events[i].kind = "started" <=> events[j].kind = "started") => i = j
      /\ \A name : name \in faults <=> \E i \in 1..n : events[i] = Event(name, "error")
      /\ "agent_run" \notin names

\* What Append does, position by position.
LEMMA Appended ==
  ASSUME NEW events \in Seq(Events), NEW event \in Events
  PROVE  /\ Append(events, event) \in Seq(Events)
         /\ Len(events) \in Nat
         /\ Len(Append(events, event)) = Len(events) + 1
         /\ DOMAIN Append(events, event) = 1..(Len(events) + 1)
         /\ Append(events, event)[Len(events) + 1] = event
         /\ \A i \in 1..Len(events) : Append(events, event)[i] = events[i]
  OBVIOUS

\* The fields of an event.
LEMMA EventFields ==
  ASSUME NEW name \in SpanNames, NEW kind \in {"started", "ok", "error", "instant"}
  PROVE  /\ Event(name, kind) \in Events
         /\ Event(name, kind).name = name /\ Event(name, kind).kind = kind
  BY DEF Event, Events

\* A run begins.
LEMMA RunBegins == Running(Opened(<<>>, "agent_run"), {}, {})
  <1> DEFINE events == Opened(<<>>, "agent_run")
  <1>1. Event("agent_run", "started") \in Events
    BY EventFields DEF SpanNames
  <1>2. /\ events \in Seq(Events) /\ Len(events) = 1
        /\ events[1] = Event("agent_run", "started")
    BY <1>1 DEF Opened
  <1>3. Event("agent_run", "started").kind = "started"
    BY DEF Event
  <1>4. \A name : Event("agent_run", "started") # Event(name, "error")
    BY DEF Event
  <1> HIDE DEF events
  <1>5. Running(events, {}, {})
    BY <1>2, <1>3, <1>4 DEF Running
  <1> QED BY <1>5 DEF events

\* The end of a span says how its block was left.
HowEnded(how) == IF how = "ok" THEN "ok" ELSE "error"

\* A span without inner ones.
LEMMA SpanEvents ==
  ASSUME NEW events \in Seq(Events), NEW name \in SpanNames, NEW how
  PROVE  LET n == Len(events)
             spanned == Span(events, name, how)
         IN  /\ n \in Nat
             /\ spanned \in Seq(Events) /\ Len(spanned) = n + 2
             /\ \A i \in 1..n : spanned[i] = events[i]
             /\ spanned[n + 1] = Event(name, "started")
             /\ spanned[n + 2] = Event(name, HowEnded(how))
  <1> DEFINE n == Len(events)
             first == Event(name, "started")
             second == Event(name, HowEnded(how))
             opened1 == Append(events, first)
  <1>1. first \in Events /\ second \in Events
    <2>1. HowEnded(how) \in {"started", "ok", "error", "instant"}
      BY DEF HowEnded
    <2> QED BY <2>1, EventFields
  <1>2. Span(events, name, how) = Append(opened1, second)
    BY DEF Span, Closed, Opened, HowEnded
  <1> HIDE DEF first, second
  <1>3. /\ opened1 \in Seq(Events) /\ n \in Nat /\ Len(opened1) = n + 1
        /\ opened1[n + 1] = first /\ \A i \in 1..n : opened1[i] = events[i]
    BY <1>1, Appended
  <1> HIDE DEF opened1
  <1>4. /\ Append(opened1, second) \in Seq(Events)
        /\ Len(Append(opened1, second)) = n + 2
        /\ Append(opened1, second)[n + 2] = second
        /\ \A i \in 1..(n + 1) : Append(opened1, second)[i] = opened1[i]
    <2>1. /\ Append(opened1, second) \in Seq(Events)
          /\ Len(Append(opened1, second)) = Len(opened1) + 1
          /\ Append(opened1, second)[Len(opened1) + 1] = second
          /\ \A i \in 1..Len(opened1) : Append(opened1, second)[i] = opened1[i]
      BY <1>1, <1>3, Appended
    <2>2. Len(opened1) + 1 = n + 2
      BY <1>3
    <2> QED BY <1>3, <2>1, <2>2
  <1>5. n + 1 \in 1..(n + 1) /\ \A i \in 1..n : i \in 1..(n + 1)
    BY <1>3
  <1> QED BY <1>2, <1>3, <1>4, <1>5 DEF first, second

\* A block that is traced while the run goes on, under a name of its own.
LEMMA RunTraces ==
  ASSUME NEW names, NEW faults, NEW events, Running(events, names, faults),
         NEW name \in SpanNames, name \notin names \cup {"agent_run"}, NEW how
  PROVE  Running(Span(events, name, how), names \cup {name},
                 IF how = "ok" THEN faults ELSE faults \cup {name})
  <1> DEFINE n == Len(events)
             spanned == Span(events, name, how)
             after == IF how = "ok" THEN faults ELSE faults \cup {name}
  <1>1. /\ events \in Seq(Events) /\ n \in Nat \ {0}
        /\ events[1] = Event("agent_run", "started")
        /\ \A i \in 2..n : events[i].name \in names
        /\ \A i \in 2..n : events[i].kind = "started" =>
             i + 1 \in 2..n /\ events[i + 1] \in Ended(events[i].name)
        /\ \A i, j \in 1..n :
             events[i].name = events[j].name
             /\ (events[i].kind = "started" <=> events[j].kind = "started") => i = j
        /\ \A fault : fault \in faults <=> \E i \in 1..n : events[i] = Event(fault, "error")
        /\ "agent_run" \notin names
    BY DEF Running
  <1>2. /\ spanned \in Seq(Events) /\ Len(spanned) = n + 2
        /\ \A i \in 1..n : spanned[i] = events[i]
        /\ spanned[n + 1] = Event(name, "started")
        /\ spanned[n + 2] = Event(name, HowEnded(how))
    BY <1>1, SpanEvents
  <1>3. /\ Event(name, "started").name = name /\ Event(name, "started").kind = "started"
        /\ Event(name, HowEnded(how)).name = name
        /\ Event(name, HowEnded(how)).kind = HowEnded(how)
        /\ HowEnded(how) \in {"ok", "error"}
        /\ events[1].name = "agent_run"
    BY <1>1 DEF Event, HowEnded
  <1> HIDE DEF spanned, n
  <1>4. \A i \in 1..(n + 2) : i = n + 1 \/ i = n + 2 \/ i \in 1..n
    BY <1>1
  <1>5. \A i \in 1..n : events[i].name # name
    BY <1>1, <1>3
  <1>6. \A i \in 2..(n + 2) : spanned[i].name \in names \cup {name}
    BY <1>1, <1>2, <1>3, <1>4
  <1>7. ASSUME NEW i \in 2..(n + 2), spanned[i].kind = "started"
        PROVE  i + 1 \in 2..(n + 2) /\ spanned[i + 1] \in Ended(spanned[i].name)
    <2>1. CASE i \in 1..n
      BY <1>1, <1>2, <1>7, <2>1
    <2>2. CASE i = n + 1
      BY <1>1, <1>2, <1>3, <2>2 DEF Ended
    <2>3. CASE i = n + 2
      BY <1>2, <1>3, <1>7, <2>3
    <2> QED BY <1>1, <1>4, <2>1, <2>2, <2>3
  <1>8. ASSUME NEW i \in 1..(n + 2), NEW j \in 1..(n + 2), spanned[i].name = spanned[j].name,
               spanned[i].kind = "started" <=> spanned[j].kind = "started"
        PROVE  i = j
    <2>1. CASE i \in 1..n /\ j \in 1..n
      BY <1>1, <1>2, <1>8, <2>1
    <2>2. CASE i \notin 1..n /\ j \notin 1..n
      BY <1>2, <1>3, <1>4, <1>8, <2>2
    <2>3. CASE ~(i \in 1..n <=> j \in 1..n)
      BY <1>2, <1>3, <1>4, <1>5, <1>8, <2>3
    <2> QED BY <2>1, <2>2, <2>3
  <1>9. ASSUME NEW fault
        PROVE  fault \in after <=> \E i \in 1..(n + 2) : spanned[i] = Event(fault, "error")
    <2>1. Event(fault, "error") # Event(name, "started")
      BY DEF Event
    <2>2. Event(fault, "error") = Event(name, HowEnded(how)) <=> fault = name /\ how # "ok"
      BY DEF Event, HowEnded
    <2>3. (\E i \in 1..(n + 2) : spanned[i] = Event(fault, "error"))
            <=> \/ \E i \in 1..n : events[i] = Event(fault, "error")
                \/ fault = name /\ how # "ok"
      BY <1>1, <1>2, <1>4, <2>1, <2>2
    <2> QED BY <1>1, <2>3
  <1>10. spanned[1] = Event("agent_run", "started") /\ n + 2 \in Nat \ {0}
    BY <1>1, <1>2
  <1>11. Running(spanned, names \cup {name}, after)
    BY <1>1, <1>2, <1>6, <1>7, <1>8, <1>9, <1>10 DEF Running
  <1> QED BY <1>11 DEF spanned

\* A refused tool is one event of the run.
LEMMA RunNotes ==
  ASSUME NEW names, NEW faults, NEW events, Running(events, names, faults),
         "tool_run_refused" \notin names
  PROVE  Running(Append(events, Event("tool_run_refused", "instant")),
                 names \cup {"tool_run_refused"}, faults)
  <1> DEFINE n == Len(events)
             note == Event("tool_run_refused", "instant")
             noted == Append(events, note)
  <1>1. /\ events \in Seq(Events) /\ n \in Nat \ {0}
        /\ events[1] = Event("agent_run", "started")
        /\ \A i \in 2..n : events[i].name \in names
        /\ \A i \in 2..n : events[i].kind = "started" =>
             i + 1 \in 2..n /\ events[i + 1] \in Ended(events[i].name)
        /\ \A i, j \in 1..n :
             events[i].name = events[j].name
             /\ (events[i].kind = "started" <=> events[j].kind = "started") => i = j
        /\ \A fault : fault \in faults <=> \E i \in 1..n : events[i] = Event(fault, "error")
        /\ "agent_run" \notin names
    BY DEF Running
  <1>2. note \in Events /\ note.name = "tool_run_refused" /\ note.kind = "instant"
    BY EventFields DEF SpanNames
  <1>3. events[1].name = "agent_run"
    BY <1>1 DEF Event
  <1>4. \A fault : Event(fault, "error") # note
    BY DEF Event
  <1> HIDE DEF note, n
  <1>5. /\ noted \in Seq(Events) /\ Len(noted) = n + 1
        /\ \A i \in 1..n : noted[i] = events[i]
        /\ noted[n + 1] = note
    BY <1>1, <1>2, Appended DEF n
  <1> HIDE DEF noted
  <1>6. \A i \in 1..(n + 1) : i = n + 1 \/ i \in 1..n
    BY <1>1
  <1>7. \A i \in 1..n : events[i].name # "tool_run_refused"
    BY <1>1, <1>3
  <1>8. \A i \in 2..(n + 1) : noted[i].name \in names \cup {"tool_run_refused"}
    BY <1>1, <1>2, <1>5, <1>6
  <1>9. \A i \in 2..(n + 1) : noted[i].kind = "started" =>
          i + 1 \in 2..(n + 1) /\ noted[i + 1] \in Ended(noted[i].name)
    BY <1>1, <1>2, <1>5, <1>6
  <1>10. \A i, j \in 1..(n + 1) : noted[i].name = noted[j].name
           /\ (noted[i].kind = "started" <=> noted[j].kind = "started") => i = j
    BY <1>1, <1>2, <1>5, <1>6, <1>7
  <1>11. ASSUME NEW fault
         PROVE  fault \in faults <=> \E i \in 1..(n + 1) : noted[i] = Event(fault, "error")
    <2>1. (\E i \in 1..(n + 1) : noted[i] = Event(fault, "error"))
            <=> \E i \in 1..n : events[i] = Event(fault, "error")
      BY <1>1, <1>4, <1>5, <1>6
    <2> QED BY <1>1, <2>1
  <1>12. noted[1] = Event("agent_run", "started") /\ n + 1 \in Nat \ {0}
    BY <1>1, <1>5
  <1>13. Running(noted, names \cup {"tool_run_refused"}, faults)
    BY <1>1, <1>5, <1>8, <1>9, <1>10, <1>11, <1>12 DEF Running
  <1> QED BY <1>13 DEF noted, note

\* Spans of a run that goes on cannot be its own.
LEMMA FaultsAreNames ==
  ASSUME NEW names, NEW faults, NEW events, Running(events, names, faults)
  PROVE  faults \subseteq names
  <1> SUFFICES ASSUME NEW fault \in faults PROVE fault \in names
    OBVIOUS
  <1>1. PICK i \in 1..Len(events) : events[i] = Event(fault, "error")
    BY DEF Running
  <1>2. i # 1
    BY <1>1 DEF Running, Event
  <1>3. events[i].name \in names
    BY <1>2 DEF Running
  <1> QED BY <1>1, <1>3 DEF Event

\* The end of a run: its trace is nested, closed, and shows what failed.
LEMMA RunEnds ==
  ASSUME NEW names, NEW faults, NEW events, Running(events, names, faults), NEW how
  PROVE  LET done == Closed(events, "agent_run", how)
         IN  /\ WellNested(done) /\ ActiveSpans(done) = {}
             /\ Failed(done) = faults \cup (IF how = "ok" THEN {} ELSE {"agent_run"})
             /\ "llm_call" \notin names => Starts(done, "llm_call") = {}
             /\ ToSet(events) \subseteq ToSet(done)
  <1> DEFINE n == Len(events)
             end == Event("agent_run", HowEnded(how))
             done == Append(events, end)
  <1>1. /\ events \in Seq(Events) /\ n \in Nat \ {0}
        /\ events[1] = Event("agent_run", "started")
        /\ \A i \in 2..n : events[i].name \in names
        /\ \A i \in 2..n : events[i].kind = "started" =>
             i + 1 \in 2..n /\ events[i + 1] \in Ended(events[i].name)
        /\ \A i, j \in 1..n :
             events[i].name = events[j].name
             /\ (events[i].kind = "started" <=> events[j].kind = "started") => i = j
        /\ \A fault : fault \in faults <=> \E i \in 1..n : events[i] = Event(fault, "error")
        /\ "agent_run" \notin names
    BY DEF Running
  <1>2. /\ end \in Events /\ end.name = "agent_run" /\ end.kind = HowEnded(how)
        /\ HowEnded(how) \in {"ok", "error"}
        /\ end \in Ended("agent_run")
    <2>1. HowEnded(how) \in {"ok", "error"}
      BY DEF HowEnded
    <2> QED BY <2>1, EventFields DEF SpanNames, Ended
  <1>3. Closed(events, "agent_run", how) = done
    BY DEF Closed, HowEnded
  <1>4. /\ events[1].name = "agent_run" /\ events[1].kind = "started"
        /\ \A i \in 1..n : events[i] \in Events
    BY <1>1 DEF Event
  <1>5. \A i \in 1..n : events[i] = Event(events[i].name, events[i].kind)
    BY <1>4 DEF Event, Events
  <1>6. end = Event(end.name, end.kind)
    BY <1>2
  <1> HIDE DEF end, n
  <1>7. /\ Len(done) = n + 1 /\ DOMAIN done = 1..(n + 1)
        /\ \A i \in 1..n : done[i] = events[i]
        /\ done[n + 1] = end
    BY <1>1, <1>2, Appended DEF n
  <1> HIDE DEF done
  <1>8. \A i \in 1..(n + 1) : i = n + 1 \/ i \in 1..n
    BY <1>1
  <1>9. Flat(done)
    <2>1. \A i \in 2..(n + 1) : done[i].kind = "started" =>
            i + 1 < n + 1 /\ done[i + 1] \in Ended(done[i].name)
      BY <1>1, <1>2, <1>7, <1>8
    <2>2. \A i \in 1..(n + 1) : done[i].kind = "started" =>
            done[i] = Event(done[i].name, "started")
      BY <1>5, <1>6, <1>7, <1>8
    <2>3. ASSUME NEW i \in 1..n, done[i].name = "agent_run" PROVE done[i].kind = "started"
      BY <1>1, <1>4, <1>7, <2>3
    <2>4. \A i, j \in 1..(n + 1) : done[i].name = done[j].name
            /\ (done[i].kind = "started" <=> done[j].kind = "started") => i = j
      BY <1>1, <1>2, <1>7, <1>8, <2>3
    <2>5. done[1] = Event("agent_run", "started") /\ n + 1 \in Nat \ {0}
      BY <1>1, <1>7
    <2> QED BY <1>2, <1>7, <2>1, <2>2, <2>4, <2>5 DEF Flat
  <1>10. \A fault : fault \in Failed(done) <=> \E i \in 1..(n + 1) : done[i] = Event(fault, "error")
    <2>1. \A i \in 1..(n + 1) : done[i] = Event(done[i].name, done[i].kind)
      BY <1>5, <1>6, <1>7, <1>8
    <2>2. \A fault : Event(fault, "error").name = fault /\ Event(fault, "error").kind = "error"
      BY DEF Event
    <2> QED BY <1>7, <2>1, <2>2 DEF Failed, ToSet
  <1>11. \A fault : end = Event(fault, "error") <=> fault = "agent_run" /\ how # "ok"
    BY DEF end, Event, HowEnded
  <1>12. \A fault :
           fault \in Failed(done) <=> fault \in faults \/ (fault = "agent_run" /\ how # "ok")
    BY <1>1, <1>7, <1>8, <1>10, <1>11
  <1>13. ASSUME "llm_call" \notin names PROVE Starts(done, "llm_call") = {}
    <2>1. \A i \in 1..(n + 1) : done[i].name # "llm_call"
      BY <1>1, <1>2, <1>4, <1>7, <1>8, <1>13
    <2> QED BY <1>7, <2>1 DEF Starts, Event
  <1>14. ToSet(events) \subseteq ToSet(done)
    BY <1>1, <1>7 DEF ToSet, n
  <1> QED BY <1>3, <1>9, <1>12, <1>13, <1>14, FlatIsNested

-----------------------------------------------------------------------------
(* The calls of the agent.                                                 *)

\* The run as it is when the model is asked.
LEMMA AskedRuns ==
  ASSUME NEW tool \in ToolRuns
  PROVE  \E events, names, faults :
           /\ Running(events, names, faults)
           /\ names \subseteq {"retrieval", "tool_run", "tool_run_refused"}
           /\ faults \subseteq {"tool_run"}
           /\ AskedTrace(tool) = Opened(events, "llm_call")
  <1> DEFINE before == Span(Opened(<<>>, "agent_run"), "retrieval", "ok")
             events == MaybeRunTool(before, tool)
  <1>1. Running(before, {"retrieval"}, {})
    <2>1. Running(before, {} \cup {"retrieval"}, IF "ok" = "ok" THEN {} ELSE {} \cup {"retrieval"})
      BY RunBegins, RunTraces DEF SpanNames
    <2> QED BY <2>1
  <1>2. AskedTrace(tool) = Opened(events, "llm_call")
    BY DEF AskedTrace
  <1> HIDE DEF before
  <1>3. CASE tool = "none"
    BY <1>1, <1>2, <1>3 DEF MaybeRunTool
  <1>4. CASE tool = "refused"
    <2>1. Running(events, {"retrieval"} \cup {"tool_run_refused"}, {})
      BY <1>1, <1>4, RunNotes DEF MaybeRunTool
    <2> HIDE DEF events
    <2> QED BY <1>2, <2>1
  <1>5. CASE tool \in {"ok", "error"}
    <2>1. events = Span(before, "tool_run", tool)
      BY <1>5 DEF MaybeRunTool
    <2> HIDE DEF events
    <2> DEFINE spanned == Span(before, "tool_run", tool)
               after == IF tool = "ok" THEN {} ELSE {} \cup {"tool_run"}
    <2>2. "tool_run" \in SpanNames /\ "tool_run" \notin {"retrieval"} \cup {"agent_run"}
      BY DEF SpanNames
    <2>3. Running(spanned, {"retrieval"} \cup {"tool_run"}, after)
      BY <1>1, <2>2, RunTraces
    <2>4. Running(events, {"retrieval"} \cup {"tool_run"}, after)
      BY <2>1, <2>3
    <2>5. (IF tool = "ok" THEN {} ELSE {} \cup {"tool_run"}) \subseteq {"tool_run"}
      OBVIOUS
    <2> QED BY <1>2, <2>4, <2>5
  <1> QED BY <1>3, <1>4, <1>5, ToolRunsAssumption

\* What a span without inner ones adds to the events.
LEMMA SpanAdds ==
  ASSUME NEW events \in Seq(Events), NEW name \in SpanNames, NEW how
  PROVE  /\ ToSet(events) \subseteq ToSet(Span(events, name, how))
         /\ Event(name, HowEnded(how)) \in ToSet(Span(events, name, how))
  <1> DEFINE n == Len(events)
             spanned == Span(events, name, how)
  <1>1. /\ n \in Nat /\ spanned \in Seq(Events) /\ Len(spanned) = n + 2
        /\ \A i \in 1..n : spanned[i] = events[i]
        /\ spanned[n + 2] = Event(name, HowEnded(how))
    BY SpanEvents
  <1> HIDE DEF spanned
  <1>2. DOMAIN spanned = 1..(n + 2) /\ DOMAIN events = 1..n
    BY <1>1
  <1> HIDE DEF n
  <1>3. n + 2 \in 1..(n + 2) /\ \A i \in 1..n : i \in 1..(n + 2)
    BY <1>1
  <1>4. /\ ToSet(events) \subseteq ToSet(spanned)
        /\ Event(name, HowEnded(how)) \in ToSet(spanned)
    BY <1>1, <1>2, <1>3 DEF ToSet
  <1> QED BY <1>4 DEF spanned

\* The spans a run may have had before the check of its answer, and the ones that went
\* well then.
Before == {"retrieval", "tool_run", "tool_run_refused", "llm_call", "response_parsing"}
Parsing(events) ==
  {Event("llm_call", "ok"), Event("response_parsing", "ok")} \subseteq ToSet(events)

\* The run as it is when the answer is checked.
LEMMA CheckingRuns ==
  ASSUME NEW tool \in ToolRuns
  PROVE  \E events, names, faults :
           /\ Running(events, names, faults)
           /\ names \subseteq Before
           /\ faults \subseteq {"tool_run"}
           /\ Parsing(events)
           /\ CheckingTrace(tool) = Opened(events, "hallucination_check")
  <1>1. PICK events, names, faults :
          /\ Running(events, names, faults)
          /\ names \subseteq {"retrieval", "tool_run", "tool_run_refused"}
          /\ faults \subseteq {"tool_run"}
          /\ AskedTrace(tool) = Opened(events, "llm_call")
    BY AskedRuns
  <1> DEFINE called == Span(events, "llm_call", "ok")
             parsed == Span(called, "response_parsing", "ok")
             all == (names \cup {"llm_call"}) \cup {"response_parsing"}
  <1>2. /\ Running(called, names \cup {"llm_call"}, faults)
        /\ Event("llm_call", "ok") \in ToSet(called)
    <2>1. Running(called, names \cup {"llm_call"}, faults)
      BY <1>1, RunTraces DEF SpanNames
    <2>2. Event("llm_call", HowEnded("ok")) \in ToSet(called)
      BY <1>1, SpanAdds DEF Running, SpanNames
    <2> QED BY <2>1, <2>2 DEF HowEnded
  <1>3. Closed(AskedTrace(tool), "llm_call", "ok") = called
    BY <1>1 DEF Span
  <1> HIDE DEF called
  <1>4. Running(parsed, all, faults)
    BY <1>1, <1>2, RunTraces DEF SpanNames
  <1>5. Parsing(parsed)
    <2>1. /\ ToSet(called) \subseteq ToSet(parsed)
          /\ Event("response_parsing", HowEnded("ok")) \in ToSet(parsed)
      BY <1>2, SpanAdds DEF Running, SpanNames
    <2> QED BY <1>2, <2>1 DEF HowEnded, Parsing
  <1>6. CheckingTrace(tool) = Opened(parsed, "hallucination_check")
    BY <1>3 DEF CheckingTrace
  <1>7. all \subseteq Before
    BY <1>1 DEF Before
  <1> HIDE DEF parsed, all
  <1> QED BY <1>1, <1>4, <1>5, <1>6, <1>7

\* A reply with which a call may leave its run.
Replied(reply, how, names, faults, events) ==
  /\ reply = "raised" <=> how # "ok"
  /\ reply = "raised" <=> faults \ {"tool_run"} # {}
  /\ reply = "the suggested response" => "llm_call" \notin names
  /\ reply \notin {"raised", "the suggested response"} =>
       /\ Parsing(events) /\ Event("hallucination_check", "ok") \in ToSet(events)
       /\ reply # "blank"

\* A call that leaves the end of a run and its reply tells the truth.
LEMMA LeavingTells ==
  ASSUME NEW t \in Threads, NEW events, NEW names, NEW faults, NEW how, NEW reply,
         Running(events, names, faults),
         Leave(t, Closed(events, "agent_run", how), reply),
         Replied(reply, how, names, faults, events)
  PROVE  SpansTellTheTruth'
  <1> DEFINE done == Closed(events, "agent_run", how)
  <1>1. /\ WellNested(done) /\ ActiveSpans(done) = {}
        /\ Failed(done) = faults \cup (IF how = "ok" THEN {} ELSE {"agent_run"})
        /\ "llm_call" \notin names => Starts(done, "llm_call") = {}
        /\ ToSet(events) \subseteq ToSet(done)
    BY RunEnds
  <1>2. "agent_run" \notin faults
    BY FaultsAreNames DEF Running
  <1> HIDE DEF done
  <1>3. ended' = [trace |-> done, reply |-> reply]
    BY DEF Leave, done
  <1>4. /\ reply = "raised" <=> "agent_run" \in Failed(done)
        /\ reply = "raised" <=> Failed(done) \ {"agent_run", "tool_run"} # {}
        /\ reply = "the suggested response" => Starts(done, "llm_call") = {}
    BY <1>1, <1>2 DEF Replied
  <1>5. reply \notin {"raised", "the suggested response"} =>
          /\ \A name \in {"llm_call", "response_parsing", "hallucination_check"} :
               Event(name, "ok") \in ToSet(done)
          /\ reply # "blank"
    BY <1>1 DEF Replied, Parsing
  <1> QED BY <1>1, <1>3, <1>4, <1>5 DEF SpansTellTheTruth

\* The span that failed is told, and the run with it.
LEMMA RaisingTells ==
  ASSUME NEW t \in Threads, NEW events, NEW names, NEW faults, Running(events, names, faults),
         NEW name \in SpanNames \ {"agent_run", "tool_run"}, name \notin names,
         NEW how, how # "ok",
         Raise(t, Closed(Opened(events, name), name, how), how)
  PROVE  SpansTellTheTruth'
  <1> DEFINE called == Span(events, name, how)
             every == names \cup {name}
             after == faults \cup {name}
             reply == "raised"
  <1>1. Running(called, every, after) /\ after \ {"tool_run"} # {}
    BY RunTraces
  <1>2. Leave(t, Closed(called, "agent_run", how), reply)
    BY DEF Raise, Span
  <1>3. Replied(reply, how, every, after, called)
    BY <1>1 DEF Replied
  <1> HIDE DEF called, every, after, reply
  <1> QED BY <1>1, <1>2, <1>3, LeavingTells

\* The model or the judge raised, and the call with it.
LEMMA FailingTells ==
  ASSUME AgentInv, NEW t \in Threads, stage[t] \in {"model", "judge"}, NEW how, how # "ok",
         Fails(t, how)
  PROVE  SpansTellTheTruth'
  <1>1. CASE stage[t] = "model"
    <2>1. PICK tool \in ToolRuns : trace[t] = AskedTrace(tool)
      BY <1>1 DEF AgentInv
    <2>2. PICK events, names, faults :
            /\ Running(events, names, faults)
            /\ names \subseteq {"retrieval", "tool_run", "tool_run_refused"}
            /\ faults \subseteq {"tool_run"}
            /\ AskedTrace(tool) = Opened(events, "llm_call")
      BY AskedRuns
    <2>3. Asking[stage[t]] = "llm_call"
      BY <1>1 DEF Asking
    <2>4. Raise(t, Closed(Opened(events, "llm_call"), "llm_call", how), how)
      BY <2>1, <2>2, <2>3 DEF Fails
    <2>5. "llm_call" \in SpanNames \ {"agent_run", "tool_run"} /\ "llm_call" \notin names
      BY <2>2 DEF SpanNames
    <2> QED BY <2>2, <2>4, <2>5, RaisingTells
  <1>2. CASE stage[t] = "judge"
    <2>1. PICK tool \in ToolRuns : trace[t] = CheckingTrace(tool)
      BY <1>2 DEF AgentInv
    <2>2. PICK events, names, faults :
            /\ Running(events, names, faults)
            /\ names \subseteq Before
            /\ CheckingTrace(tool) = Opened(events, "hallucination_check")
      BY CheckingRuns
    <2>3. Asking[stage[t]] = "hallucination_check"
      BY <1>2 DEF Asking
    <2>4. Raise(t, Closed(Opened(events, "hallucination_check"), "hallucination_check", how), how)
      BY <2>1, <2>2, <2>3 DEF Fails
    <2>5. /\ "hallucination_check" \in SpanNames \ {"agent_run", "tool_run"}
          /\ "hallucination_check" \notin names
      BY <2>2 DEF SpanNames, Before
    <2> QED BY <2>2, <2>4, <2>5, RaisingTells
  <1> QED BY <1>1, <1>2

\* What is parsed out of a text is something.
LEMMA ParsedTexts ==
  ASSUME NEW response, response \notin {"raised", "the suggested response"},
         NEW reply \in Parsed(response)
  PROVE  reply \notin {"raised", "the suggested response", "blank"}
  <1>1. ASSUME NEW shape
        PROVE  ParseLlmOutput(response, shape) \notin
                 {"raised", "the suggested response", "blank"}
    BY DEF ParseLlmOutput, Fallback
  <1> QED BY <1>1 DEF Parsed, AnyParsed

\* The check went well, and the answer is made.
LEMMA CheckedTells ==
  ASSUME NEW t \in Threads, NEW tool \in ToolRuns, NEW response,
         response \notin {"raised", "the suggested response"},
         Checked(t, CheckingTrace(tool), response)
  PROVE  SpansTellTheTruth'
  <1>1. PICK events, names, faults :
          /\ Running(events, names, faults)
          /\ names \subseteq Before
          /\ faults \subseteq {"tool_run"}
          /\ Parsing(events)
          /\ CheckingTrace(tool) = Opened(events, "hallucination_check")
    BY CheckingRuns
  <1> DEFINE checked == Span(events, "hallucination_check", "ok")
             all == names \cup {"hallucination_check"}
             how == "ok"
  <1>2. PICK reply \in Parsed(response) : Leave(t, Closed(checked, "agent_run", how), reply)
    BY <1>1 DEF Checked, Span
  <1>3. reply \notin {"raised", "the suggested response", "blank"}
    BY ParsedTexts
  <1>4. Running(checked, all, faults)
    BY <1>1, RunTraces DEF SpanNames, Before
  <1>5. Parsing(checked) /\ Event("hallucination_check", "ok") \in ToSet(checked)
    <2>1. /\ ToSet(events) \subseteq ToSet(checked)
          /\ Event("hallucination_check", HowEnded("ok")) \in ToSet(checked)
      BY <1>1, SpanAdds DEF Running, SpanNames
    <2> QED BY <1>1, <2>1 DEF Parsing, HowEnded
  <1>6. how = "ok"
    OBVIOUS
  <1> HIDE DEF checked, all, how
  <1>7. Replied(reply, how, all, faults, checked)
    BY <1>1, <1>3, <1>5, <1>6 DEF Replied
  <1> QED BY <1>2, <1>4, <1>7, LeavingTells

\* What a step of a call does to the other calls: nothing.
LEMMA LeavingKeeps ==
  ASSUME AgentInv, CallInv', NEW t \in Threads, NEW events, NEW reply,
         Leave(t, events, reply), SpansTellTheTruth'
  PROVE  AgentInv'
  BY DEF AgentInv, Leave

\* Nor does the one that answers.
LEMMA CheckedLeaves ==
  ASSUME AgentInv, CallInv', NEW t \in Threads, NEW events, NEW response,
         Checked(t, events, response), SpansTellTheTruth'
  PROVE  AgentInv'
  BY LeavingKeeps DEF Checked

\* The provider returned a text to the model or to the judge: the answer is made, or the
\* judge is to be asked.
LEMMA GeneratedKeeps ==
  ASSUME AgentInv, CallInv', NEW t \in Threads, stage[t] \in {"model", "judge"},
         NEW response \in Texts \cup {""},
         response \notin {"raised", "the suggested response"},
         text[t] \notin {"raised", "the suggested response"},
         Generated(t, response)
  PROVE  AgentInv'
  <1>1. CASE stage[t] = "model"
    <2>1. PICK tool \in ToolRuns : trace[t] = AskedTrace(tool)
      BY <1>1 DEF AgentInv
    <2>2. Opened(Span(Closed(trace[t], "llm_call", "ok"), "response_parsing", "ok"),
                 "hallucination_check") = CheckingTrace(tool)
      BY <2>1 DEF CheckingTrace
    <2>3. CASE ~judged
      <3>1. Checked(t, CheckingTrace(tool), response)
        BY <1>1, <2>2, <2>3 DEF Generated, Returns
      <3>2. SpansTellTheTruth'
        BY <3>1, CheckedTells
      <3> QED BY <3>1, <3>2, CheckedLeaves
    <2>4. CASE judged
      <3>1. /\ stage' = [stage EXCEPT ![t] = "judge"]
            /\ trace' = [trace EXCEPT ![t] = CheckingTrace(tool)]
            /\ text' = [text EXCEPT ![t] = response]
            /\ ended' = Nothing
        BY <1>1, <2>2, <2>4 DEF Generated, Returns
      <3> QED BY <3>1 DEF AgentInv, SpansTellTheTruth
    <2> QED BY <2>3, <2>4
  <1>2. CASE stage[t] = "judge"
    <2>1. PICK tool \in ToolRuns : trace[t] = CheckingTrace(tool)
      BY <1>2 DEF AgentInv
    <2>2. Checked(t, CheckingTrace(tool), text[t])
      BY <1>2, <2>1 DEF Generated
    <2>3. SpansTellTheTruth'
      BY <2>2, CheckedTells
    <2> QED BY <2>2, <2>3, CheckedLeaves
  <1> QED BY <1>1, <1>2

\* A step to the next span keeps the invariant, if its events are those of the way so far.
LEMMA GoingOnKeeps ==
  ASSUME AgentInv, CallInv', NEW t \in Threads, NEW next \in {"retrieve", "model"},
         NEW events, GoOn(t, next, events),
         next = "retrieve" => events = Opened(<<>>, "agent_run"),
         next = "model" => \E tool \in ToolRuns : events = AskedTrace(tool)
  PROVE  AgentInv'
  BY DEF AgentInv, GoOn, SpansTellTheTruth

\* The calls go on as they were, and nobody's has just ended.
LEMMA WaitingKeeps ==
  ASSUME AgentInv, CallInv', UNCHANGED <<stage, trace>>, ended' = Nothing,
         text' \in [Threads -> Texts \cup {""}]
  PROVE  AgentInv'
  BY DEF AgentInv, SpansTellTheTruth

\* A question is refused.
LEMMA RefusingTells ==
  ASSUME NEW t \in Threads, Refuse(t)
  PROVE  SpansTellTheTruth'
  <1> DEFINE events == Opened(<<>>, "agent_run")
             how == "ok"
             reply == "the suggested response"
  <1>1. Leave(t, Closed(events, "agent_run", how), reply)
    BY DEF Refuse, Span
  <1>2. Running(events, {}, {})
    BY RunBegins
  <1>3. Replied(reply, how, {}, {}, events)
    BY DEF Replied
  <1> HIDE DEF events, how, reply
  <1> QED BY <1>1, <1>2, <1>3, LeavingTells

\* A retrieval that fails is told by its span and by the agent's.
LEMMA RetrievalFailingTells ==
  ASSUME AgentInv, NEW t \in Threads, RetrievalFails(t)
  PROVE  SpansTellTheTruth'
  <1> DEFINE events == Opened(<<>>, "agent_run")
             how == "escapes"
  <1>1. Raise(t, Closed(Opened(events, "retrieval"), "retrieval", how), how)
    BY DEF RetrievalFails, AgentInv, Span
  <1>2. Running(events, {}, {})
    BY RunBegins
  <1>3. "retrieval" \in SpanNames \ {"agent_run", "tool_run"} /\ how # "ok"
    BY DEF SpanNames
  <1> HIDE DEF events, how
  <1> QED BY <1>1, <1>2, <1>3, RaisingTells

\* A step of the agent is a step of the calls, or none that they see.
LEMMA AgentStepsCalls ==
  ASSUME AgentInv, AgentNext
  PROVE  CallNext \/ Local
  <1>1. ASSUME NEW t \in Threads, Ask(t) \/ Refuse(t) PROVE Local
    BY <1>1 DEF Ask, Refuse
  <1>2. ASSUME NEW t \in Threads, AgentStep(t) PROVE CallNext \/ Local
    BY <1>2 DEF AgentStep, RetrievalFails, Retrieve, StartJudge, ModelAttempt, ModelGoesOn,
                ModelDirectly, CallNext
  <1>3. CASE BuildAgent
    BY <1>3 DEF BuildAgent, CallNext
  <1> QED BY <1>1, <1>2, <1>3 DEF AgentNext, CallNext

\* Every step of the agent keeps the invariant.
LEMMA NextAgentInv ==
  ASSUME AgentInv, [AgentNext]_agentVars
  PROVE  AgentInv'
  <1>1. CallInv'
    BY AgentStepsCalls, NextCallInv DEF AgentInv, agentVars
  <1>2. CASE UNCHANGED agentVars
    BY <1>1, <1>2 DEF agentVars, calling, AgentInv, SpansTellTheTruth
  <1>12. \A t \in Threads : text[t] \notin {"raised", "the suggested response"}
    BY DEF AgentInv, Texts
  <1>3. CASE Apart \/ BuildAgent
    BY <1>1, <1>3, WaitingKeeps DEF Apart, BuildAgent, calling, AgentInv
  <1>4. ASSUME NEW t \in Threads, Ask(t) PROVE AgentInv'
    BY <1>1, <1>4, GoingOnKeeps DEF Ask
  <1>5. ASSUME NEW t \in Threads, Refuse(t) PROVE AgentInv'
    BY <1>1, <1>5, RefusingTells, LeavingKeeps DEF Refuse
  <1>6. ASSUME NEW t \in Threads, RetrievalFails(t) PROVE AgentInv'
    BY <1>1, <1>6, RetrievalFailingTells, LeavingKeeps DEF RetrievalFails, Raise
  <1>7. ASSUME NEW t \in Threads, Retrieve(t) PROVE AgentInv'
    <2>1. PICK tool \in ToolRuns :
            GoOn(t, "model",
                 Opened(MaybeRunTool(Span(trace[t], "retrieval", "ok"), tool), "llm_call"))
      BY <1>7 DEF Retrieve
    <2>2. trace[t] = Opened(<<>>, "agent_run")
      BY <1>7 DEF Retrieve, AgentInv
    <2>3. GoOn(t, "model", AskedTrace(tool))
      BY <2>1, <2>2 DEF AskedTrace
    <2> QED BY <1>1, <2>3, GoingOnKeeps
  <1>8. ASSUME NEW t \in Threads, ModelAttempt(t) PROVE AgentInv'
    <2>1. CASE last'.end = "escapes"
      BY <1>1, <1>8, <2>1, FailingTells, LeavingKeeps DEF ModelAttempt, Fails, Raise
    <2>2. CASE last'.end # "escapes"
      <3>1. UNCHANGED <<stage, trace>> /\ ended' = Nothing
        BY <1>8, <2>2 DEF ModelAttempt
      <3>2. text' \in [Threads -> Texts \cup {""}]
        BY <1>8, <2>2 DEF ModelAttempt, AgentInv
      <3> QED BY <1>1, <3>1, <3>2, WaitingKeeps
    <2> QED BY <2>1, <2>2
  <1>9. ASSUME NEW t \in Threads, ModelGoesOn(t) PROVE AgentInv'
    <2>1. CASE pc'[t] # "idle"
      BY <1>1, <1>9, <2>1, WaitingKeeps DEF ModelGoesOn, calling, AgentInv
    <2>2. CASE pc'[t] = "idle" /\ pc[t] = "success"
      <3>1. /\ stage[t] \in {"model", "judge"} /\ text[t] \in Texts \cup {""}
            /\ Generated(t, text[t])
        BY <1>9, <2>2 DEF ModelGoesOn, AgentInv
      <3> QED BY <1>1, <1>9, <3>1, <1>12, GeneratedKeeps
    <2>3. CASE pc'[t] = "idle" /\ pc[t] # "success"
      BY <1>1, <1>9, <2>3, FailingTells, LeavingKeeps DEF ModelGoesOn, Fails, Raise
    <2> QED BY <2>1, <2>2, <2>3
  <1>10. ASSUME NEW t \in Threads, ModelDirectly(t) PROVE AgentInv'
    <2>1. CASE last'.end \in Texts
      <3>1. last'.end \notin {"raised", "the suggested response"}
        BY <2>1 DEF Texts
      <3> QED BY <1>1, <1>10, <2>1, <3>1, <1>12, GeneratedKeeps DEF ModelDirectly
    <2>2. CASE last'.end \notin Texts
      <3>1. PICK reply \in Sent : Settled(reply)
        BY <1>10 DEF ModelDirectly, Direct
      <3>2. last'.end \in Texts \cup {"error", "escapes"}
        BY <1>10, <3>1, SettledAttempt DEF ModelDirectly, Direct, AgentInv
      <3>3. last'.end # "ok"
        BY <2>2, <3>2
      <3> QED BY <1>1, <1>10, <2>2, <3>3, FailingTells, LeavingKeeps
              DEF ModelDirectly, Fails, Raise
    <2> QED BY <2>1, <2>2
  <1>11. ASSUME NEW t \in Threads, StartJudge(t) PROVE AgentInv'
    BY <1>1, <1>11, WaitingKeeps DEF StartJudge, calling, AgentInv
  <1> QED
    BY <1>2, <1>3, <1>4, <1>5, <1>6, <1>7, <1>8, <1>9, <1>10, <1>11 DEF AgentNext, AgentStep

\* Nobody has called anything.
LEMMA InitAgentInv == AgentInit => AgentInv
  <1> SUFFICES ASSUME AgentInit PROVE AgentInv
    OBVIOUS
  <1>1. CallInv
    BY InitResilienceInv DEF AgentInit, CallInit, CallInv, Init
  <1>2. /\ stage = [t \in Threads |-> "idle"] /\ trace = [t \in Threads |-> <<>>]
        /\ text = [t \in Threads |-> ""] /\ ended = Nothing
    BY DEF AgentInit
  <1> QED BY <1>1, <1>2 DEF AgentInv, SpansTellTheTruth

\* The inductive invariant holds in every state of the agent, whatever the providers,
\* tools and stores do.
THEOREM AgentInvariant == AgentSpec => []AgentInv
  <1>1. AgentInv /\ [AgentNext]_agentVars => AgentInv'
    BY NextAgentInv
  <1> QED BY <1>1, InitAgentInv, PTL DEF AgentSpec

\* On error the finished event says so and the exception goes on: for every number of
\* threads, providers, attempts and outages, the spans of a call that has ended are
\* closed, nested and tell how it went.
THEOREM SpansAreTrue == AgentSpec => []SpansTellTheTruth
  <1>1. AgentInv => SpansTellTheTruth
    BY DEF AgentInv
  <1> QED BY <1>1, AgentInvariant, PTL

\* In the composition, too, where the model's calls and the judge's share the circuit, the
\* fields of the breaker agree.
THEOREM BreakerIsConsistentForAgent == AgentSpec => []BreakerConsistent
  <1>1. AgentInv => BreakerConsistent
    BY DEF AgentInv, CallInv, ResilienceInv
  <1> QED BY <1>1, AgentInvariant, PTL

\* LLMProviderError wraps the failures of every provider: no call of the agent gives up
\* before its last attempt except over a reply of a wrong shape.
THEOREM RetriesHappen == AgentSpec => FailuresAreRetried
  <1>1. AgentInv /\ [AgentNext]_agentVars => [RetryStep]_callVars
    <2> SUFFICES ASSUME AgentInv, [AgentNext]_agentVars PROVE [RetryStep]_callVars
      OBVIOUS
    <2>1. CASE AgentNext
      BY <2>1, AgentStepsCalls, NextRetryStep DEF AgentInv
    <2>2. CASE UNCHANGED agentVars
      BY <2>2 DEF agentVars
    <2> QED BY <2>1, <2>2
  <1> QED BY <1>1, AgentInvariant, PTL DEF AgentSpec, FailuresAreRetried
=============================================================================

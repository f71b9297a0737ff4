--------------------------- MODULE LlmResilience ---------------------------
(***************************************************************************)
(* ResilientLLMProvider: retries, a timeout per attempt and one circuit    *)
(* breaker shared by the request threads of a worker.                      *)
(*                                                                         *)
(* The methods of CircuitBreaker take no lock; each contains no call that  *)
(* could switch threads before its last write, so a step is a method.  The *)
(* clock is read before the method is entered, hence in an earlier step.   *)
(* Time is kept as ages: of the opening and of the clock value a thread    *)
(* has in hand.                                                            *)
(***************************************************************************)
EXTENDS Integers

CONSTANTS
  Threads,      \* request threads that share the provider
  MaxAttempts,  \* policy.max_attempts
  Threshold,    \* policy.circuit_failure_threshold
  Recovery,     \* policy.circuit_recovery_seconds, in ticks
  MaxDelay,     \* bound on the age of a clock value when it is used
  MaxFailures,  \* failure_count is followed up to this bound
  MaxOutages    \* bound on how often the provider breaks down

\* ResiliencePolicy.__post_init__
ASSUME PolicyAssumption ==
  /\ MaxAttempts \in Nat \ {0}
  /\ Threshold \in Nat \ {0}
  /\ Recovery \in Nat \ {0}
ASSUME BoundAssumption ==
  /\ MaxDelay \in Nat
  /\ MaxFailures \in Nat /\ MaxFailures >= Threshold
  /\ MaxOutages \in Nat

None == -1

\* An opening this old lets every caller through.
MaxAge == Recovery + MaxDelay

VARIABLES
  circuit,   \* CircuitBreaker.state
  failures,  \* CircuitBreaker.failure_count
  opened,    \* the age of CircuitBreaker.opened_at, or None
  pc,        \* pc[t]: the next step of thread t
  attempt,   \* attempt[t]: the number of the current attempt
  age,       \* age[t]: the age of the clock value thread t has read
  healthy,   \* the remote provider answers every call
  outages    \* breakdowns so far

breaker == <<circuit, failures, opened>>
calls == <<pc, attempt, age>>
provider == <<healthy, outages>>
vars == <<breaker, calls, provider>>

GoTo(t, label) == pc' = [pc EXCEPT ![t] = label]

-----------------------------------------------------------------------------
Init ==
  /\ circuit = "closed"
  /\ failures = 0
  /\ opened = None
  /\ pc = [t \in Threads |-> "idle"]
  /\ attempt = [t \in Threads |-> 0]
  /\ age = [t \in Threads |-> 0]
  /\ healthy = TRUE
  /\ outages = 0

\* generate reads the clock for before_call.
StartGenerate(t) ==
  /\ pc[t] = "idle"
  /\ GoTo(t, "before")
  /\ age' = [age EXCEPT ![t] = 0]
  /\ UNCHANGED <<breaker, attempt, provider>>

\* Mutant: an open circuit never recovers.
NeverRecovered(t) == opened = None

\* The recovery time is over on the clock of the caller.
Recovered(t) == opened = None \/ opened - age[t] >= Recovery

\* before_call lets a call through; every caller after the recovery time and
\* before the next outcome is a trial in half-open state.
Admit(t) ==
  /\ pc[t] = "before"
  /\ circuit = "open" => Recovered(t)
  /\ circuit' = IF circuit = "open" THEN "half_open" ELSE circuit
  /\ GoTo(t, "call")
  /\ attempt' = [attempt EXCEPT ![t] = 1]
  /\ UNCHANGED <<failures, opened, age, provider>>

Reject(t) ==
  /\ pc[t] = "before"
  /\ circuit = "open"
  /\ ~Recovered(t)
  /\ GoTo(t, "idle")
  /\ UNCHANGED <<breaker, attempt, age, provider>>

\* The provider answers in time, as one that is down may do now and then.
Answer(t) ==
  /\ pc[t] = "call"
  /\ GoTo(t, "success")
  /\ UNCHANGED <<breaker, attempt, age, provider>>

\* The attempt raises LLMProviderError or times out; a late answer is dropped
\* with its future.  The clock is read for record_failure.
AttemptFails(t) ==
  /\ pc[t] = "call"
  /\ ~healthy
  /\ GoTo(t, "failure")
  /\ age' = [age EXCEPT ![t] = 0]
  /\ UNCHANGED <<breaker, attempt, provider>>

\* Any other exception leaves generate without a word to the circuit.
AttemptRaises(t) ==
  /\ pc[t] = "call"
  /\ ~healthy
  /\ GoTo(t, "idle")
  /\ UNCHANGED <<breaker, attempt, age, provider>>

\* Mutant: a success closes the circuit but keeps the failure count.
SuccessKeepsCount(t) ==
  /\ pc[t] = "success"
  /\ circuit' = "closed"
  /\ opened' = None
  /\ GoTo(t, "idle")
  /\ UNCHANGED <<failures, attempt, age, provider>>

RecordSuccess(t) ==
  /\ pc[t] = "success"
  /\ failures' = 0
  /\ circuit' = "closed"
  /\ opened' = None
  /\ GoTo(t, "idle")
  /\ UNCHANGED <<attempt, age, provider>>

Counted == IF failures < MaxFailures THEN failures + 1 ELSE failures

\* Mutant: a failing call starts over instead of giving up.
RecordAndRetryForever(t) ==
  /\ pc[t] = "failure"
  /\ failures' = Counted
  /\ IF Counted >= Threshold
       THEN circuit' = "open" /\ opened' = age[t]
       ELSE UNCHANGED <<circuit, opened>>
  /\ GoTo(t, "sleep")
  /\ attempt' = [attempt EXCEPT ![t] = 0]
  /\ UNCHANGED <<age, provider>>

\* record_failure; after the last attempt the error goes to the caller.
RecordFailure(t) ==
  /\ pc[t] = "failure"
  /\ failures' = Counted
  /\ IF Counted >= Threshold
       THEN circuit' = "open" /\ opened' = age[t]
       ELSE UNCHANGED <<circuit, opened>>
  /\ GoTo(t, IF attempt[t] >= MaxAttempts THEN "idle" ELSE "sleep")
  /\ UNCHANGED <<attempt, age, provider>>

\* The backoff is over.  The loop does not ask the circuit again.
Retry(t) ==
  /\ pc[t] = "sleep"
  /\ GoTo(t, "call")
  /\ attempt' = [attempt EXCEPT ![t] = attempt[t] + 1]
  /\ UNCHANGED <<breaker, age, provider>>

-----------------------------------------------------------------------------
\* Time passes.  A thread uses the clock value it has read within MaxDelay.
Holding == {t \in Threads : pc[t] \in {"before", "failure"}}

Tick ==
  /\ \A t \in Holding : age[t] < MaxDelay
  /\ age' = [t \in Threads |-> IF t \in Holding THEN age[t] + 1 ELSE age[t]]
  /\ opened' = IF opened \in {None, MaxAge} THEN opened ELSE opened + 1
  /\ UNCHANGED <<circuit, failures, pc, attempt, provider>>

BreakDown ==
  /\ healthy
  /\ outages < MaxOutages
  /\ healthy' = FALSE
  /\ outages' = outages + 1
  /\ UNCHANGED <<breaker, calls>>

Repair ==
  /\ ~healthy
  /\ healthy' = TRUE
  /\ UNCHANGED <<breaker, calls, outages>>

-----------------------------------------------------------------------------
Steps(t) == Admit(t) \/ Reject(t) \/ Answer(t) \/ AttemptFails(t) \/ AttemptRaises(t)
              \/ RecordSuccess(t) \/ RecordFailure(t) \/ Retry(t)

Next ==
  \/ \E t \in Threads : StartGenerate(t) \/ Steps(t)
  \/ Tick
  \/ BreakDown
  \/ Repair

Spec == Init /\ [][Next]_vars

\* Threads run, every attempt ends within its timeout and time passes.  The
\* provider promises nothing.
FairSpec == Spec /\ WF_vars(Tick) /\ \A t \in Threads : WF_vars(Steps(t))

\* Some thread keeps calling.
BusySpec == FairSpec /\ \E t \in Threads : WF_vars(StartGenerate(t))

-----------------------------------------------------------------------------
(* Properties.                                                             *)

\* Every variable keeps its type.
TypeOK ==
  /\ circuit \in {"closed", "open", "half_open"}
  /\ failures \in 0..MaxFailures
  /\ opened \in 0..MaxAge \cup {None}
  /\ pc \in [Threads -> {"idle", "before", "call", "success", "failure", "sleep"}]
  /\ attempt \in [Threads -> 0..MaxAttempts]
  /\ age \in [Threads -> 0..MaxDelay]
  /\ healthy \in BOOLEAN
  /\ outages \in 0..MaxOutages

\* The three fields of the breaker agree however calls interleave: it is not
\* closed exactly when the threshold of failures without a success between them
\* is reached, and then and only then it has an opening time.
BreakerConsistent ==
  /\ circuit = "closed" <=> failures < Threshold
  /\ circuit = "closed" <=> opened = None

\* A thread that sleeps before a retry has attempts left.
AttemptsLeft == \A t \in Threads : pc[t] = "sleep" => attempt[t] < MaxAttempts

\* The inductive invariant.
ResilienceInv == TypeOK /\ BreakerConsistent /\ AttemptsLeft

\* A call returns or raises, whatever the provider and the other callers do.
GenerateEnds == \A t \in Threads : pc[t] # "idle" ~> pc[t] = "idle"

\* Once the provider stays up and some thread keeps calling, the circuit closes
\* for good: neither late failures nor stale clock values keep it open.
CircuitRecovers == <>[]healthy => <>[](circuit = "closed")
=============================================================================

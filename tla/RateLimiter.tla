---------------------------- MODULE RateLimiter ----------------------------
(***************************************************************************)
(* InMemoryRateLimiter: a fixed window of requests per caller identity,    *)
(* asked by the middleware of the API before every request but probes.     *)
(*                                                                         *)
(* The middleware runs on the event loop, so checks do not overlap.  A     *)
(* window starts with the first request after the last one ended, not at a *)
(* multiple of its length.  Time is counted in ticks; the header           *)
(* Retry-After is in seconds.                                              *)
(***************************************************************************)
EXTENDS Integers, Sequences

CONSTANTS
  Keys,         \* caller identities
  MaxRequests,  \* max_requests
  Window,       \* window_seconds, in ticks
  Second,       \* ticks in a second
  MaxTime       \* bound on the clock

\* InMemoryRateLimiter.__init__
ASSUME LimitAssumption == MaxRequests \in Nat \ {0} /\ Window \in Nat \ {0}
\* A tick is a millisecond or more: shorter rests of a window are rounded down.
ASSUME ClockAssumption == Second \in 1..1000 /\ MaxTime \in Nat

VARIABLES
  now,       \* the monotonic clock
  windows,   \* windows[k]: the current _Window of key k
  decision,  \* decision[k]: the last RateLimitDecision of key k
  admitted,  \* history: admitted[k], the requests of k that were let through
  promised   \* history: promised[k], when k was told to come back since then

vars == <<now, windows, decision, admitted, promised>>

\* No request yet: as if a window had ended a tick ago.
NoWindow == [started_at |-> 0 - (Window + 1), count |-> 0]
NoDecision == [allowed |-> TRUE, remaining |-> MaxRequests, reset_after |-> 1]

-----------------------------------------------------------------------------
\* Mutant: a window is still open when its length has passed.
OpenTooLong(window) == now - window.started_at > Window

\* The window is over, or there is none.
Over(window) == now - window.started_at >= Window

\* _reset_after: int(remaining + 0.999), at least 1.
ResetAfter(window) ==
  LET remaining == Window - (now - window.started_at)
      seconds == (1000 * remaining + 999 * Second) \div (1000 * Second)
  IN  IF seconds >= 1 THEN seconds ELSE 1

\* Mutant: the budget is overdrawn by one.
OneMore(window) == window.count > MaxRequests

\* The budget of the window is used up.
Exhausted(window) == window.count >= MaxRequests

\* Mutant: the header counts the request that is being answered as left.
RemainingBefore(window) == MaxRequests - window.count + 1

\* What is left once the request is counted.
Remaining(window) == MaxRequests - window.count

-----------------------------------------------------------------------------
Init ==
  /\ now = 0
  /\ windows = [k \in Keys |-> NoWindow]
  /\ decision = [k \in Keys |-> NoDecision]
  /\ admitted = [k \in Keys |-> <<>>]
  /\ promised = [k \in Keys |-> {}]

\* The window check works in: the current one, or a new one.
Current(k) == IF Over(windows[k]) THEN [started_at |-> now, count |-> 0] ELSE windows[k]

\* check refuses the request: 429 with Retry-After.
Refuse(k) ==
  LET window == Current(k)
  IN  /\ Exhausted(window)
      /\ windows' = [windows EXCEPT ![k] = window]
      /\ decision' = [decision EXCEPT ![k] =
           [allowed |-> FALSE, remaining |-> 0, reset_after |-> ResetAfter(window)]]
      /\ promised' = [promised EXCEPT ![k] = @ \cup {now + Second * ResetAfter(window)}]
      /\ UNCHANGED <<now, admitted>>

\* check counts the request and lets it through.
Allow(k) ==
  LET window == Current(k)
      counted == [window EXCEPT !.count = window.count + 1]
  IN  /\ ~Exhausted(window)
      /\ windows' = [windows EXCEPT ![k] = counted]
      /\ decision' = [decision EXCEPT ![k] =
           [allowed |-> TRUE, remaining |-> Remaining(counted),
            reset_after |-> ResetAfter(window)]]
      /\ admitted' = [admitted EXCEPT ![k] =
           Append(admitted[k], [at |-> now, started_at |-> window.started_at])]
      /\ promised' = [promised EXCEPT ![k] = {}]
      /\ UNCHANGED now

Tick ==
  /\ now < MaxTime
  /\ now' = now + 1
  /\ UNCHANGED <<windows, decision, admitted, promised>>

\* rate_limit_middleware asks check for each request that is no probe, and turns
\* a refusal into a 429 with Retry-After.
Next == Tick \/ \E k \in Keys : Refuse(k) \/ Allow(k)

Spec == Init /\ [][Next]_vars

-----------------------------------------------------------------------------
(* Properties.                                                             *)

Windows == [started_at : Int, count : 0..MaxRequests]
Decisions == [allowed : BOOLEAN, remaining : 0..MaxRequests, reset_after : Nat \ {0}]
Requests == [at : Nat, started_at : Nat]

\* Every variable keeps its type; in particular the headers never announce a
\* negative budget or a wait of no seconds.
TypeOK ==
  /\ now \in 0..MaxTime
  /\ windows \in [Keys -> Windows]
  /\ decision \in [Keys -> Decisions]
  /\ admitted \in [Keys -> Seq(Requests)]
  /\ promised \in [Keys -> SUBSET Nat]

\* "Maximum requests per caller identity in each rate-limit window" (README),
\* over any interval: however requests fall around the ends of windows, of any
\* 2 * MaxRequests + 1 requests in a row the first and the last are more than a
\* window apart.
AtMostTwiceTheBudget ==
  \A k \in Keys : \A i \in 1..Len(admitted[k]) :
    i + 2 * MaxRequests <= Len(admitted[k]) =>
      admitted[k][i + 2 * MaxRequests].at - admitted[k][i].at > Window

\* How the log of key k follows its windows: requests fall into their window,
\* windows do not overlap, none takes more than the budget, and the requests of
\* the current window are the last ones.
Entries(k) == 1..Len(admitted[k])

LogInv(k) ==
  /\ \A i \in Entries(k) :
       /\ admitted[k][i].started_at <= admitted[k][i].at
       /\ admitted[k][i].at < admitted[k][i].started_at + Window
       /\ admitted[k][i].at <= now
  /\ \A i, j \in Entries(k) : i <= j =>
       \/ admitted[k][i].started_at = admitted[k][j].started_at
       \/ admitted[k][i].started_at + Window <= admitted[k][j].started_at
  /\ \A i, j \in Entries(k) : i + MaxRequests <= j =>
       admitted[k][i].started_at # admitted[k][j].started_at

WindowInv(k) ==
  /\ windows[k].started_at <= now
  /\ windows[k].count <= Len(admitted[k])
  /\ windows[k].count = 0 => windows[k] = NoWindow /\ admitted[k] = <<>>
  /\ \A i \in Entries(k) :
       /\ i > Len(admitted[k]) - windows[k].count =>
            admitted[k][i].started_at = windows[k].started_at
       /\ i <= Len(admitted[k]) - windows[k].count =>
            admitted[k][i].started_at + Window <= windows[k].started_at

\* What callers were told: nobody is asked back before the window ends, and the
\* last decision shows the budget that is left.
HeaderInv(k) ==
  /\ \A time \in promised[k] : time >= windows[k].started_at + Window
  /\ windows[k].count > 0 => decision[k].remaining = MaxRequests - windows[k].count
  /\ windows[k].count = 0 => decision[k] = NoDecision /\ promised[k] = {}
  /\ decision[k].remaining > 0 => decision[k].allowed

\* The inductive invariant.
RateInv == TypeOK /\ \A k \in Keys : LogInv(k) /\ WindowInv(k) /\ HeaderInv(k)

\* A caller that was refused and comes back when Retry-After said is let
\* through, whatever it tried before then.
RetryAfterStep ==
  \A k \in Keys : Refuse(k) => \A time \in promised[k] : now < time

RetryAfterIsHonest == [][RetryAfterStep]_vars

\* A caller that was told it has requests left may make that many.
RemainingStep ==
  \A k \in Keys : decision[k].remaining > 0 =>
    decision'[k].allowed /\ decision'[k].remaining >= decision[k].remaining - 1

RemainingIsHonest == [][RemainingStep]_vars
=============================================================================

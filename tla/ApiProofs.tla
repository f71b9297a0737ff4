----------------------------- MODULE ApiProofs -----------------------------
(***************************************************************************)
(* What the API promises its callers: the budget, the wait and the rest of *)
(* the budget hold for every budget, window and number of callers, for the *)
(* limiter alone and behind the gate of the API; the gate hands a request  *)
(* to its handler within the key policy only; and what clients of          *)
(* ingestion jobs are told is true and final, for any number of jobs,      *)
(* processes, crashes and failing writes.                                  *)
(***************************************************************************)
EXTENDS ApiGate, IngestionJobs, TLAPS

\* Integer division, without its remainder.
LEMMA Quotient ==
  ASSUME NEW a \in Nat, NEW d \in Nat \ {0}
  PROVE  a \div d \in Nat /\ a < d * (a \div d) + d
  OBVIOUS

\* The announced wait is at least a second and reaches the end of the window.
LEMMA ResetReaches ==
  ASSUME NEW window, now \in Nat, window.started_at \in Int,
         now - window.started_at \in 0..Window
  PROVE  /\ ResetAfter(window) \in Nat \ {0}
         /\ now + Second * ResetAfter(window) >= window.started_at + Window
  <1> DEFINE remaining == Window - (now - window.started_at)
             total == 1000 * remaining + 999 * Second
             unit == 1000 * Second
             seconds == total \div unit
  <1>1. /\ remaining \in Nat /\ Second \in Nat \ {0} /\ Second <= 1000
        /\ total \in Nat /\ unit \in Nat \ {0}
    BY LimitAssumption, ClockAssumption
  <1>2. ResetAfter(window) = IF seconds >= 1 THEN seconds ELSE 1
    BY DEF ResetAfter
  <1>3. seconds \in Nat /\ total < unit * seconds + unit
    <2> HIDE DEF total, unit
    <2> QED BY <1>1, Quotient
  <1> HIDE DEF seconds
  <1>4. 1000 * remaining < 1000 * (Second * seconds) + Second
    BY <1>1, <1>3
  <1>5. Second * seconds \in Nat
    BY <1>1, <1>3
  <1>6. Second * seconds >= remaining
    BY <1>1, <1>4, <1>5
  <1>7. ResetAfter(window) \in Nat \ {0} /\ Second * ResetAfter(window) >= Second * seconds
    BY <1>1, <1>2, <1>3
  <1>8. Second * ResetAfter(window) \in Nat
    BY <1>1, <1>7
  <1> QED BY <1>1, <1>5, <1>6, <1>7, <1>8, LimitAssumption

\* No window is open and no log has an entry.
LEMMA InitRateInv == Init => RateInv
  <1> SUFFICES ASSUME Init PROVE RateInv
    OBVIOUS
  <1> USE LimitAssumption, ClockAssumption
  <1>1. TypeOK
    BY DEF Init, TypeOK, NoWindow, NoDecision, Decisions, Windows, Requests
  <1>2. ASSUME NEW k \in Keys PROVE LogInv(k) /\ WindowInv(k) /\ HeaderInv(k)
    BY DEF Init, LogInv, WindowInv, HeaderInv, Entries, NoWindow, NoDecision
  <1> QED BY <1>1, <1>2 DEF RateInv

\* A refused request finds its window open and used up.
LEMMA RefusedWindow ==
  ASSUME RateInv, NEW k \in Keys, Refuse(k)
  PROVE  /\ Current(k) = windows[k]
         /\ windows' = windows
         /\ windows[k].count = MaxRequests
         /\ now - windows[k].started_at \in 0..(Window - 1)
  <1> USE LimitAssumption, ClockAssumption
  <1>1. /\ windows[k].count \in 0..MaxRequests
        /\ windows[k].started_at \in Int
        /\ now \in Nat
        /\ windows[k].started_at <= now
    BY DEF RateInv, TypeOK, WindowInv, Windows
  <1>2. ~Over(windows[k])
    BY DEF Refuse, Exhausted, Current
  <1>3. Current(k) = windows[k]
    BY <1>2 DEF Current
  <1>4. windows' = windows
    BY <1>3 DEF Refuse, RateInv, TypeOK
  <1> QED BY <1>1, <1>2, <1>3, <1>4 DEF Refuse, Exhausted, Over

\* The fields of a log are times.
LEMMA LogTypes ==
  ASSUME TypeOK, NEW k \in Keys
  PROVE  /\ admitted[k] \in Seq(Requests)
         /\ Len(admitted[k]) \in Nat
         /\ \A i \in Entries(k) :
              admitted[k][i].at \in Nat /\ admitted[k][i].started_at \in Nat
  <1>1. admitted[k] \in Seq(Requests)
    BY DEF TypeOK
  <1>2. Len(admitted[k]) \in Nat /\ \A i \in Entries(k) : admitted[k][i] \in Requests
    BY <1>1 DEF Entries
  <1> QED BY <1>1, <1>2 DEF Requests

\* Time passes over everything.
LEMMA TickRateInv == RateInv /\ Tick => RateInv'
  <1> SUFFICES ASSUME RateInv, Tick PROVE RateInv'
    OBVIOUS
  <1> USE LimitAssumption, ClockAssumption
  <1>1. TypeOK'
    BY DEF RateInv, Tick, TypeOK
  <1>2. ASSUME NEW k \in Keys PROVE (LogInv(k) /\ WindowInv(k) /\ HeaderInv(k))'
    <2>1. LogInv(k) /\ WindowInv(k) /\ HeaderInv(k) /\ now \in Nat
      BY DEF RateInv, TypeOK
    <2>2. windows[k].started_at \in Int
      BY DEF RateInv, TypeOK, Windows
    <2>3. \A i \in Entries(k) : admitted[k][i].at \in Nat
      BY LogTypes DEF RateInv
    <2> QED BY <2>1, <2>2, <2>3 DEF Tick, LogInv, WindowInv, HeaderInv, Entries
  <1> QED BY <1>1, <1>2 DEF RateInv

\* The log and the windows do not change.
LEMMA SameLog ==
  ASSUME NEW k \in Keys, windows' = windows, admitted' = admitted, now' = now,
         LogInv(k), WindowInv(k)
  PROVE  LogInv(k)' /\ WindowInv(k)'
  <1>1. LogInv(k)'
    BY DEF LogInv, Entries
  <1>2. WindowInv(k)'
    BY DEF WindowInv, Entries
  <1> QED BY <1>1, <1>2

\* A refusal changes what the caller is told only.
LEMMA RefuseRateInv ==
  ASSUME RateInv, NEW k \in Keys, Refuse(k)
  PROVE  RateInv'
  <1> USE LimitAssumption, ClockAssumption
  <1> DEFINE reset == ResetAfter(windows[k])
  <1>1. /\ windows' = windows /\ Current(k) = windows[k]
        /\ windows[k].count = MaxRequests
        /\ now - windows[k].started_at \in 0..(Window - 1)
        /\ now \in Nat /\ windows[k].started_at \in Int
    BY RefusedWindow DEF RateInv, TypeOK, Windows
  <1>2. /\ reset \in Nat \ {0}
        /\ now + Second * reset >= windows[k].started_at + Window
        /\ now + Second * reset \in Nat
    <2>1. now - windows[k].started_at \in 0..Window
      BY <1>1
    <2>2. /\ reset \in Nat \ {0}
          /\ now + Second * reset >= windows[k].started_at + Window
      BY <1>1, <2>1, ResetReaches
    <2>3. Second * reset \in Nat
      BY <2>2
    <2> QED BY <1>1, <2>2, <2>3
  <1> HIDE DEF reset
  <1>3. /\ decision' = [decision EXCEPT ![k] =
             [allowed |-> FALSE, remaining |-> 0, reset_after |-> reset]]
        /\ promised' = [promised EXCEPT ![k] = @ \cup {now + Second * reset}]
        /\ now' = now /\ admitted' = admitted
    BY <1>1 DEF Refuse, reset
  <1>4. TypeOK'
    BY <1>1, <1>2, <1>3 DEF RateInv, TypeOK, Decisions
  <1>5. ASSUME NEW j \in Keys PROVE (LogInv(j) /\ WindowInv(j))'
    <2>1. windows' = windows /\ admitted' = admitted /\ now' = now
      BY <1>1, <1>3
    <2>2. LogInv(j) /\ WindowInv(j)
      BY DEF RateInv
    <2> QED BY <2>1, <2>2, SameLog
  <1>6. ASSUME NEW j \in Keys PROVE HeaderInv(j)'
    <2>1. CASE j = k
      BY <1>1, <1>2, <1>3, <2>1 DEF RateInv, TypeOK, HeaderInv
    <2>2. CASE j # k
      BY <1>1, <1>3, <2>2 DEF RateInv, TypeOK, HeaderInv
    <2> QED BY <2>1, <2>2
  <1> QED BY <1>4, <1>5, <1>6 DEF RateInv
\* What a request that is let through does: its window is the current one or a
\* new one, and the log grows by one entry of that window.
LEMMA AllowedStep ==
  ASSUME RateInv, NEW k \in Keys, Allow(k)
  PROVE  /\ Current(k).started_at \in Int /\ Current(k).started_at <= now
         /\ now < Current(k).started_at + Window
         /\ Current(k).started_at \in Nat
         /\ Current(k).count \in 0..(MaxRequests - 1)
         /\ windows' = [windows EXCEPT ![k] =
              [started_at |-> Current(k).started_at, count |-> Current(k).count + 1]]
         /\ admitted' = [admitted EXCEPT ![k] =
              Append(admitted[k], [at |-> now, started_at |-> Current(k).started_at])]
         /\ \/ Current(k) = windows[k] /\ windows[k].count > 0
            \/ /\ Current(k) = [started_at |-> now, count |-> 0]
               /\ windows[k].started_at + Window <= now
  <1> USE LimitAssumption, ClockAssumption
  <1>1. /\ windows[k] \in Windows
        /\ windows[k].count \in 0..MaxRequests
        /\ windows[k].started_at \in Int
        /\ windows[k].started_at <= now
        /\ now \in Nat
        /\ windows \in [Keys -> Windows]
    BY DEF RateInv, TypeOK, WindowInv, Windows
  <1>2. windows[k].count = 0 => windows[k] = NoWindow
    BY DEF RateInv, WindowInv
  <1>3. windows[k].count > 0 => windows[k].started_at \in Nat
    <2> SUFFICES ASSUME windows[k].count > 0 PROVE windows[k].started_at \in Nat
      OBVIOUS
    <2>1. Len(admitted[k]) \in Entries(k) /\ Len(admitted[k]) > Len(admitted[k]) - windows[k].count
      BY <1>1, LogTypes DEF RateInv, WindowInv, Entries
    <2>2. admitted[k][Len(admitted[k])].started_at = windows[k].started_at
      BY <2>1 DEF RateInv, WindowInv
    <2> QED BY <2>1, <2>2, LogTypes DEF RateInv
  <1>4. CASE Over(windows[k])
    <2>1. Current(k) = [started_at |-> now, count |-> 0]
      BY <1>4 DEF Current
    <2>2. windows[k].started_at + Window <= now
      BY <1>1, <1>4 DEF Over
    <2>3. [[started_at |-> now, count |-> 0] EXCEPT !.count = 0 + 1]
            = [started_at |-> now, count |-> 0 + 1]
      OBVIOUS
    <2>4. /\ Current(k).started_at = now /\ Current(k).count = 0
          /\ [Current(k) EXCEPT !.count = Current(k).count + 1]
               = [started_at |-> Current(k).started_at, count |-> Current(k).count + 1]
      BY <2>1, <2>3
    <2>5. now < Current(k).started_at + Window
      BY <1>1, <2>4
    <2>6. /\ windows' = [windows EXCEPT ![k] =
               [started_at |-> Current(k).started_at, count |-> Current(k).count + 1]]
          /\ admitted' = [admitted EXCEPT ![k] =
               Append(admitted[k], [at |-> now, started_at |-> Current(k).started_at])]
      BY <2>4 DEF Allow
    <2> QED BY <1>1, <2>1, <2>2, <2>4, <2>5, <2>6
  <1>5. CASE ~Over(windows[k])
    <2>1. Current(k) = windows[k]
      BY <1>5 DEF Current
    <2>2. now < windows[k].started_at + Window
      BY <1>1, <1>5 DEF Over
    <2>3. windows[k].count > 0
      BY <1>1, <1>2, <2>2 DEF NoWindow
    <2>4. windows[k].count < MaxRequests
      BY <1>1, <2>1 DEF Allow, Exhausted
    <2>5. [windows[k] EXCEPT !.count = windows[k].count + 1]
            = [started_at |-> windows[k].started_at, count |-> windows[k].count + 1]
      BY <1>1 DEF Windows
    <2>6. [Current(k) EXCEPT !.count = Current(k).count + 1]
            = [started_at |-> Current(k).started_at, count |-> Current(k).count + 1]
      BY <2>1, <2>5
    <2>7. Current(k).count \in 0..(MaxRequests - 1) /\ Current(k).started_at \in Nat
      BY <1>1, <1>3, <2>1, <2>3, <2>4
    <2>8. /\ windows' = [windows EXCEPT ![k] =
               [started_at |-> Current(k).started_at, count |-> Current(k).count + 1]]
          /\ admitted' = [admitted EXCEPT ![k] =
               Append(admitted[k], [at |-> now, started_at |-> Current(k).started_at])]
      BY <2>6 DEF Allow
    <2> QED BY <1>1, <2>1, <2>2, <2>3, <2>7, <2>8
  <1> QED BY <1>4, <1>5

\* An allowed request keeps the types.
LEMMA AllowTypeOK ==
  ASSUME RateInv, NEW k \in Keys, Allow(k)
  PROVE  TypeOK'
  <1> USE LimitAssumption, ClockAssumption
  <1> DEFINE w == Current(k)
             reset == ResetAfter(w)
  <1>1. /\ w.started_at \in Nat /\ w.started_at <= now /\ now < w.started_at + Window
        /\ w.count \in 0..(MaxRequests - 1) /\ now \in Nat
        /\ windows' = [windows EXCEPT ![k] =
             [started_at |-> w.started_at, count |-> w.count + 1]]
        /\ admitted' = [admitted EXCEPT ![k] =
             Append(admitted[k], [at |-> now, started_at |-> w.started_at])]
    BY AllowedStep DEF RateInv, TypeOK
  <1>2. reset \in Nat \ {0}
    <2>1. now - w.started_at \in 0..Window /\ w.started_at \in Int
      BY <1>1
    <2> HIDE DEF w
    <2> QED BY <1>1, <2>1, ResetReaches
  <1>3. /\ decision'[k] = [allowed |-> TRUE, remaining |-> MaxRequests - (w.count + 1),
                           reset_after |-> reset]
        /\ decision' = [decision EXCEPT ![k] = decision'[k]]
        /\ promised' = [promised EXCEPT ![k] = {}]
        /\ now' = now
    <2>1. [w EXCEPT !.count = w.count + 1].count = w.count + 1
      BY AllowedStep DEF RateInv, TypeOK, Windows, Current
    <2> QED BY <2>1 DEF Allow, Remaining, RateInv, TypeOK
  <1> HIDE DEF w, reset
  <1>4. decision'[k] \in Decisions
    BY <1>1, <1>2, <1>3 DEF Decisions
  <1>5. [started_at |-> w.started_at, count |-> w.count + 1] \in Windows
    BY <1>1 DEF Windows
  <1>6. [at |-> now, started_at |-> w.started_at] \in Requests
    BY <1>1 DEF Requests
  <1>7. Append(admitted[k], [at |-> now, started_at |-> w.started_at]) \in Seq(Requests)
    BY <1>6, LogTypes DEF RateInv
  <1> QED BY <1>1, <1>3, <1>4, <1>5, <1>7 DEF RateInv, TypeOK

\* The parts of the invariant about other callers are not touched.
LEMMA AllowOthers ==
  ASSUME RateInv, NEW k \in Keys, Allow(k), NEW j \in Keys, j # k
  PROVE  (LogInv(j) /\ WindowInv(j) /\ HeaderInv(j))'
  <1>1. /\ windows'[j] = windows[j] /\ admitted'[j] = admitted[j]
        /\ decision'[j] = decision[j] /\ promised'[j] = promised[j] /\ now' = now
    BY DEF Allow, RateInv, TypeOK
  <1> QED BY <1>1 DEF RateInv, LogInv, WindowInv, HeaderInv, Entries

\* The log after an allowed request: the old entries and one of the window.
LEMMA AllowedLog ==
  ASSUME RateInv, NEW k \in Keys, Allow(k)
  PROVE  LET last == Len(admitted[k]) + 1
         IN  /\ Len(admitted'[k]) = last /\ Len(admitted[k]) \in Nat
             /\ admitted'[k][last].at = now
             /\ admitted'[k][last].started_at = Current(k).started_at
             /\ \A i \in Entries(k) : admitted'[k][i] = admitted[k][i]
             /\ Entries(k)' = Entries(k) \cup {last}
             /\ windows'[k].started_at = Current(k).started_at
             /\ windows'[k].count = Current(k).count + 1
  <1> DEFINE new == [at |-> now, started_at |-> Current(k).started_at]
             last == Len(admitted[k]) + 1
  <1>1. /\ admitted'[k] = Append(admitted[k], new)
        /\ windows'[k] = [started_at |-> Current(k).started_at, count |-> Current(k).count + 1]
    BY AllowedStep DEF RateInv, TypeOK
  <1>2. admitted[k] \in Seq(Requests) /\ Len(admitted[k]) \in Nat
    BY LogTypes DEF RateInv
  <1>3. new \in Requests
    <2>1. now \in Nat
      BY ClockAssumption DEF RateInv, TypeOK
    <2> QED BY <2>1, AllowedStep DEF Requests
  <1>4. new.at = now /\ new.started_at = Current(k).started_at
    OBVIOUS
  <1> HIDE DEF new
  <1>5. /\ Len(admitted'[k]) = last /\ admitted'[k][last] = new
        /\ \A i \in 1..Len(admitted[k]) : admitted'[k][i] = admitted[k][i]
    BY <1>1, <1>2, <1>3
  <1>6. Entries(k)' = Entries(k) \cup {last}
    BY <1>2, <1>5 DEF Entries
  <1> QED BY <1>1, <1>2, <1>4, <1>5, <1>6 DEF Entries

\* An allowed request falls into its window, and the window has room for it.
LEMMA AllowLogInv ==
  ASSUME RateInv, NEW k \in Keys, Allow(k)
  PROVE  LogInv(k)' /\ WindowInv(k)'
  <1> USE LimitAssumption
  <1> DEFINE w == Current(k)
             length == Len(admitted[k])
             last == length + 1
  <1>1. /\ w.started_at \in Nat /\ w.started_at <= now /\ now < w.started_at + Window
        /\ w.count \in 0..(MaxRequests - 1) /\ now \in Nat /\ now' = now
    <2>1. now \in Nat /\ now' = now
      BY ClockAssumption DEF RateInv, TypeOK, Allow
    <2> QED BY <2>1, AllowedStep
  <1>2. /\ length \in Nat
        /\ Len(admitted'[k]) = last
        /\ admitted'[k][last].at = now
        /\ admitted'[k][last].started_at = w.started_at
        /\ \A i \in 1..length : admitted'[k][i] = admitted[k][i]
        /\ windows'[k].started_at = w.started_at
        /\ windows'[k].count = w.count + 1
    BY AllowedLog DEF Entries
  <1>3. \A i \in 1..length : admitted[k][i].at \in Nat /\ admitted[k][i].started_at \in Nat
    BY LogTypes DEF RateInv, Entries
  <1>4. LogInv(k) /\ WindowInv(k)
    BY DEF RateInv
  <1>5. /\ w.count <= length
        /\ \A i \in 1..length :
             /\ i > length - w.count => admitted[k][i].started_at = w.started_at
             /\ i <= length - w.count => admitted[k][i].started_at + Window <= w.started_at
    <2>1. windows[k].started_at \in Int /\ windows[k].count \in Nat
      BY DEF RateInv, TypeOK, Windows
    <2>2. CASE w = windows[k]
      BY <1>4, <2>2 DEF WindowInv, Entries
    <2>3. CASE w = [started_at |-> now, count |-> 0] /\ windows[k].started_at + Window <= now
      <3>1. w.count = 0 /\ w.started_at = now
        BY <2>3
      <3>2. \A i \in 1..length : admitted[k][i].started_at <= windows[k].started_at
        <4> TAKE i \in 1..length
        <4>1. \/ admitted[k][i].started_at = windows[k].started_at
              \/ admitted[k][i].started_at + Window <= windows[k].started_at
          BY <1>2, <1>4, <2>1 DEF WindowInv, Entries
        <4> QED BY <1>3, <2>1, <4>1
      <3>3. \A i \in 1..length : admitted[k][i].started_at + Window <= now
        BY <1>1, <1>3, <2>1, <2>3, <3>2
      <3> QED BY <1>2, <3>1, <3>3
    <2> QED BY <2>2, <2>3, AllowedStep
  <1> HIDE DEF w, length
  <1>6. ASSUME NEW i \in 1..last
        PROVE  /\ admitted'[k][i].started_at <= admitted'[k][i].at
               /\ admitted'[k][i].at < admitted'[k][i].started_at + Window
               /\ admitted'[k][i].at <= now
    <2>1. CASE i \in 1..length
      BY <1>2, <1>4, <2>1 DEF LogInv, Entries, length
    <2>2. CASE i = last
      BY <1>1, <1>2, <2>2
    <2> QED BY <1>2, <2>1, <2>2
  <1>7. ASSUME NEW i \in 1..last, NEW j \in 1..last, i <= j
        PROVE  /\ \/ admitted'[k][i].started_at = admitted'[k][j].started_at
                  \/ admitted'[k][i].started_at + Window <= admitted'[k][j].started_at
               /\ i + MaxRequests <= j =>
                    admitted'[k][i].started_at # admitted'[k][j].started_at
    <2>1. CASE j \in 1..length
      <3>1. i \in 1..length
        BY <1>2, <1>7, <2>1
      <3> QED BY <1>2, <1>4, <1>7, <2>1, <3>1 DEF LogInv, Entries, length
    <2>2. CASE i \in 1..length /\ j = last
      <3>1. /\ admitted'[k][i].started_at = admitted[k][i].started_at
            /\ admitted'[k][j].started_at = w.started_at
        BY <1>2, <2>2
      <3>2. \/ admitted[k][i].started_at = w.started_at /\ i > length - w.count
            \/ admitted[k][i].started_at + Window <= w.started_at
        BY <1>1, <1>2, <1>5, <2>2
      <3>3. admitted[k][i].started_at \in Nat
        BY <1>3, <2>2
      <3> QED BY <1>1, <1>2, <2>2, <3>1, <3>2, <3>3
    <2>3. CASE i = last /\ j = last
      BY <1>1, <1>2, <2>3
    <2> QED BY <1>2, <1>7, <2>1, <2>2, <2>3
  <1>8. ASSUME NEW i \in 1..last
        PROVE  /\ i > last - (w.count + 1) =>
                    admitted'[k][i].started_at = w.started_at
               /\ i <= last - (w.count + 1) =>
                    admitted'[k][i].started_at + Window <= w.started_at
    <2>1. CASE i \in 1..length
      <3>1. admitted'[k][i].started_at = admitted[k][i].started_at
        BY <1>2, <2>1
      <3>2. last - (w.count + 1) = length - w.count
        <4>1. w.count \in Int /\ length \in Int
          BY <1>1, <1>2
        <4> QED BY ONLY <4>1
      <3>3. /\ i > length - w.count => admitted[k][i].started_at = w.started_at
            /\ i <= length - w.count => admitted[k][i].started_at + Window <= w.started_at
        BY <1>5, <2>1, Zenon
      <3> QED BY <3>1, <3>2, <3>3
    <2>2. CASE i = last
      BY <1>1, <1>2, <2>2
    <2> QED BY <1>2, <2>1, <2>2
  <1>9. LogInv(k)'
    BY <1>1, <1>2, <1>6, <1>7 DEF LogInv, Entries
  <1>10. WindowInv(k)'
    BY <1>1, <1>2, <1>5, <1>8 DEF WindowInv, Entries
  <1> QED BY <1>9, <1>10

\* What a caller is told with a request that is let through is the rest of its
\* budget, and nothing is promised any more.
LEMMA AllowHeaderInv ==
  ASSUME RateInv, NEW k \in Keys, Allow(k)
  PROVE  HeaderInv(k)'
  <1> USE LimitAssumption
  <1>1. Current(k).count \in 0..(MaxRequests - 1)
    BY AllowedStep
  <1>2. windows'[k].count = Current(k).count + 1
    BY AllowedLog
  <1>3. [Current(k) EXCEPT !.count = Current(k).count + 1].count = Current(k).count + 1
    BY DEF RateInv, TypeOK, Windows, Current
  <1>4. /\ decision'[k].remaining = MaxRequests - (Current(k).count + 1)
        /\ decision'[k].allowed = TRUE
        /\ promised'[k] = {}
    BY <1>3 DEF Allow, Remaining, RateInv, TypeOK
  <1> QED BY <1>1, <1>2, <1>4 DEF HeaderInv

\* An allowed request keeps the invariant.
LEMMA AllowRateInv ==
  ASSUME RateInv, NEW k \in Keys, Allow(k)
  PROVE  RateInv'
  <1>1. ASSUME NEW j \in Keys PROVE (LogInv(j) /\ WindowInv(j) /\ HeaderInv(j))'
    <2>1. CASE j = k
      BY <2>1, AllowLogInv, AllowHeaderInv
    <2>2. CASE j # k
      BY <2>2, AllowOthers
    <2> QED BY <2>1, <2>2
  <1> QED BY <1>1, AllowTypeOK DEF RateInv

\* Every step keeps the invariant.
LEMMA NextRateInv == RateInv /\ [Next]_vars => RateInv'
  <1> SUFFICES ASSUME RateInv, [Next]_vars PROVE RateInv'
    OBVIOUS
  <1>1. CASE Tick
    BY <1>1, TickRateInv
  <1>2. ASSUME NEW k \in Keys, Refuse(k) PROVE RateInv'
    BY <1>2, RefuseRateInv
  <1>3. ASSUME NEW k \in Keys, Allow(k) PROVE RateInv'
    BY <1>3, AllowRateInv
  <1>4. CASE UNCHANGED vars
    BY <1>4 DEF vars, RateInv, TypeOK, LogInv, WindowInv, HeaderInv, Entries
  <1> QED BY <1>1, <1>2, <1>3, <1>4 DEF Next

\* The inductive invariant holds in every state, for every budget, window and
\* number of callers: check keeps the log of admitted requests and the window in
\* step.
THEOREM RateInvariant == Spec => []RateInv
  <1> QED BY InitRateInv, NextRateInv, PTL DEF Spec

\* Decisions are well-formed: the headers never announce a negative budget or a
\* wait of no seconds.
THEOREM TypeCorrect == Spec => []TypeOK
  <1>1. RateInv => TypeOK
    BY DEF RateInv
  <1> QED BY <1>1, RateInvariant, PTL

\* Times on both sides of a window are more than its length apart.
LEMMA WindowBetween ==
  ASSUME NEW x \in Nat, NEW first \in Nat, NEW second \in Nat, NEW third \in Nat,
         NEW y \in Nat,
         x < first + Window, first + Window <= second,
         second + Window <= third, third <= y
  PROVE  y - x > Window
  BY LimitAssumption

\* Of any 2 * max_requests + 1 requests of a caller that check let through in a
\* row, the first and the last are more than a window apart.
THEOREM BudgetIsKept == Spec => []AtMostTwiceTheBudget
  <1>1. RateInv => AtMostTwiceTheBudget
    <2> SUFFICES ASSUME RateInv, NEW k \in Keys, NEW i \in 1..Len(admitted[k]),
                        i + 2 * MaxRequests <= Len(admitted[k])
                 PROVE  admitted[k][i + 2 * MaxRequests].at - admitted[k][i].at > Window
      BY DEF AtMostTwiceTheBudget
    <2> USE LimitAssumption
    <2> DEFINE middle == i + MaxRequests
               last == i + 2 * MaxRequests
    <2>1. LogInv(k) /\ Len(admitted[k]) \in Nat
      BY LogTypes DEF RateInv
    <2>2. /\ i \in Entries(k) /\ middle \in Entries(k) /\ last \in Entries(k)
          /\ i + MaxRequests <= middle /\ middle + MaxRequests <= last
          /\ i <= middle /\ middle <= last
      BY <2>1 DEF Entries
    <2> HIDE DEF middle, last
    <2>3. /\ admitted[k][i].started_at + Window <= admitted[k][middle].started_at
          /\ admitted[k][middle].started_at + Window <= admitted[k][last].started_at
      BY <2>1, <2>2 DEF LogInv
    <2>4. /\ admitted[k][i].at < admitted[k][i].started_at + Window
          /\ admitted[k][last].started_at <= admitted[k][last].at
      BY <2>1, <2>2 DEF LogInv
    <2>5. /\ admitted[k][i].at \in Nat /\ admitted[k][i].started_at \in Nat
          /\ admitted[k][middle].started_at \in Nat
          /\ admitted[k][last].at \in Nat /\ admitted[k][last].started_at \in Nat
      BY <2>2, LogTypes DEF RateInv
    <2>6. admitted[k][last].at - admitted[k][i].at > Window
      BY <2>3, <2>4, <2>5, WindowBetween
    <2> QED BY <2>6 DEF last
  <1> QED BY <1>1, RateInvariant, PTL

\* Whoever comes back when Retry-After said is let through by check.
THEOREM WaitIsHonest == Spec => RetryAfterIsHonest
  <1>1. RateInv => RetryAfterStep
    <2> SUFFICES ASSUME RateInv, NEW k \in Keys, Refuse(k), NEW time \in promised[k]
                 PROVE  now < time
      BY DEF RetryAfterStep
    <2>1. now - windows[k].started_at \in 0..(Window - 1)
      BY RefusedWindow
    <2>2. time >= windows[k].started_at + Window
      BY DEF RateInv, HeaderInv
    <2>3. time \in Nat /\ now \in Nat /\ windows[k].started_at \in Int
      BY ClockAssumption DEF RateInv, TypeOK, Windows
    <2> QED BY <2>1, <2>2, <2>3, LimitAssumption
  <1> QED BY <1>1, RateInvariant, PTL DEF RetryAfterIsHonest

\* The budget that a caller was told it has left is there for its next request.
THEOREM RemainderIsHonest == Spec => RemainingIsHonest
  <1>1. RateInv /\ [Next]_vars => [RemainingStep]_vars
    <2> SUFFICES ASSUME RateInv, [Next]_vars, NEW k \in Keys, decision[k].remaining > 0
                 PROVE  /\ decision'[k].allowed
                        /\ decision'[k].remaining >= decision[k].remaining - 1
      BY DEF RemainingStep
    <2>1. /\ decision[k].remaining \in 0..MaxRequests /\ decision[k].allowed
          /\ HeaderInv(k) /\ windows[k].count \in 0..MaxRequests
      BY DEF RateInv, TypeOK, Decisions, Windows, HeaderInv
    <2>2. CASE decision'[k] = decision[k]
      BY <2>1, <2>2
    <2>3. CASE Refuse(k)
      BY <2>1, <2>3, RefusedWindow, LimitAssumption DEF HeaderInv
    <2>4. CASE Allow(k)
      <3>1. [Current(k) EXCEPT !.count = Current(k).count + 1].count = Current(k).count + 1
        BY DEF RateInv, TypeOK, Windows, Current
      <3>2. /\ decision'[k].remaining = MaxRequests - (Current(k).count + 1)
            /\ decision'[k].allowed = TRUE
        BY <2>4, <3>1 DEF Allow, Remaining, RateInv, TypeOK
      <3>3. Current(k).count \in Nat /\ Current(k).count <= windows[k].count
        <4>1. Current(k) = windows[k] \/ Current(k) = [started_at |-> now, count |-> 0]
          BY DEF Current
        <4>2. Current(k).count = windows[k].count \/ Current(k).count = 0
          BY <4>1
        <4> QED BY <2>1, <4>2
      <3>4. decision[k].remaining = MaxRequests - windows[k].count
        BY <2>1, LimitAssumption DEF HeaderInv, NoDecision
      <3> QED BY <2>1, <3>2, <3>3, <3>4, LimitAssumption
    <2>5. ASSUME NEW j \in Keys, j # k, Refuse(j) \/ Allow(j)
          PROVE  decision'[k] = decision[k]
      BY <2>5 DEF Refuse, Allow, RateInv, TypeOK
    <2>6. CASE Tick \/ UNCHANGED vars
      BY <2>2, <2>6 DEF Tick, vars
    <2> QED BY <2>2, <2>3, <2>4, <2>5, <2>6 DEF Next
  <1> QED BY <1>1, RateInvariant, PTL DEF Spec, RemainingIsHonest

-----------------------------------------------------------------------------
(* The gate in front of the handlers.                                      *)

\* The roles of a configured key have a highest one.
LEMMA HighestRole ==
  ASSUME NEW key \in Configured
  PROVE  /\ RoleOf(key) \in Roles(key)
         /\ RoleOf(key) \in {Reader, Writer, Admin}
  <1>1. Roles(key) # {} /\ Roles(key) \subseteq {Reader, Writer, Admin}
    <2>1. PICK raw \in {settings.reader, settings.writer, settings.admin} :
            HasRole(key, raw)
      BY DEF Configured, HasRole
    <2> QED BY <2>1 DEF Roles, Reader, Writer, Admin
  <1>2. \E r \in Roles(key) : \A other \in Roles(key) : other <= r
    BY <1>1 DEF Reader, Writer, Admin
  <1>3. RoleOf(key) \in Roles(key)
    BY <1>2 DEF RoleOf
  <1> QED BY <1>1, <1>3

\* The role of a key is one a setting gives it.
LEMMA RoleIsGiven ==
  ASSUME NEW key \in Configured
  PROVE  \E r \in {<<Reader, settings.reader>>, <<Writer, settings.writer>>,
                    <<Admin, settings.admin>>} :
           r[1] = RoleOf(key) /\ r[2] # None /\ r[2][1] = key
  BY HighestRole DEF Roles, HasRole, Present, Reader, Writer, Admin

\* Under a valid policy every binding of a key names the tenant it is bound to.
LEMMA BoundIsNamed ==
  ASSUME settings \in Settings, settings.auth, PolicyIsValid,
         NEW b \in settings.bindings
  PROVE  BoundTo(b.raw[1]) = b.tenant /\ b.tenant # None
  <1> DEFINE key == b.raw[1]
             chosen == CHOOSE c \in settings.bindings : c.raw[1] = key
  <1>1. chosen \in settings.bindings /\ chosen.raw[1] = key
    OBVIOUS
  <1>2. chosen.tenant = b.tenant
    BY <1>1 DEF PolicyIsValid
  <1>3. BoundTo(key) = chosen.tenant
    BY DEF BoundTo
  <1> QED BY <1>2, <1>3, SettingsAssumption

\* A role that a route demands is a number.
LEMMA RolesAreNumbers ==
  ASSUME NEW route \in Routes, route.access # "open"
  PROVE  route.role \in {Reader, Writer, Admin}
  BY DEF Routes, ProbeRoutes, AnswerRoutes, ReportRoutes, FeedbackRoutes, IngestionRoutes, Route

\* What require_api_role and the rules of the route let through is within the
\* policy.
LEMMA HandlingIsWithinPolicy ==
  ASSUME settings \in Settings, settings' = settings,
         NEW request \in Calls \cup Followed, reply' = Handled(request)
  PROVE  HandledWithinPolicy'
  <1> DEFINE route == request.route
             key == request.raw[1]
             mine == {b \in settings.bindings : b.raw[1] = key}
  <1> SUFFICES ASSUME Handled(request).status = 200, route.access # "open"
               PROVE  IF ~settings.auth THEN settings.bindings = {}
                      ELSE /\ request.raw # None /\ key # Blank
                           /\ \E r \in {<<Reader, settings.reader>>, <<Writer, settings.writer>>,
                                        <<Admin, settings.admin>>} :
                                r[1] >= route.role /\ r[2] # None /\ r[2][1] = key
                           /\ \A b \in mine :
                                Handled(request).scope = b.tenant /\ route.access # "global"
                           /\ settings.bindings # {} /\ mine = {} =>
                                settings.admin # None /\ settings.admin[1] = key
    <2>1. Handled(request).request = request
      BY DEF Handled
    <2> QED BY <2>1 DEF HandledWithinPolicy
  <1>1. /\ Refusal(request) = 0
        /\ Handled(request).scope = ScopeOf(request)
    <2>1. Refusal(request) \in {0, 400, 401, 403, 500}
      BY DEF Refusal
    <2> QED BY <2>1 DEF Handled
  <1>2. /\ PolicyIsValid /\ Known(request.raw)
        /\ ~(Principal(request.raw).role < route.role)
        /\ ~(route.access = "global" /\ Principal(request.raw).tenant # None)
    BY <1>1 DEF Refusal
  <1>3. CASE ~settings.auth
    BY <1>2, <1>3 DEF PolicyIsValid
  <1>4. CASE settings.auth
    <2>1. /\ request.raw # None /\ key # Blank /\ key \in Configured
      BY <1>2, <1>4 DEF Known, Present
    <2>2. Principal(request.raw) = [role |-> RoleOf(key), tenant |-> BoundTo(key)]
      BY <1>4 DEF Principal
    <2>3. RoleOf(key) >= route.role
      BY <1>2, <2>1, <2>2, HighestRole, RolesAreNumbers, RequestAssumption
         DEF Reader, Writer, Admin
    <2>4. \E r \in {<<Reader, settings.reader>>, <<Writer, settings.writer>>,
                     <<Admin, settings.admin>>} :
            r[1] >= route.role /\ r[2] # None /\ r[2][1] = key
      BY <2>1, <2>3, RoleIsGiven
    <2>5. ASSUME NEW b \in mine
          PROVE  Handled(request).scope = b.tenant /\ route.access # "global"
      <3>1. BoundTo(key) = b.tenant /\ b.tenant # None
        BY <1>2, <1>4, <2>5, BoundIsNamed
      <3> QED BY <1>1, <1>2, <2>2, <3>1 DEF ScopeOf
    <2>6. ASSUME settings.bindings # {}, mine = {}
          PROVE  settings.admin # None /\ settings.admin[1] = key
      <3>1. RoleOf(key) = Admin
        BY <1>2, <1>4, <2>1, <2>6 DEF PolicyIsValid
      <3> QED BY <2>1, <3>1, RoleIsGiven DEF Reader, Writer, Admin
    <2> QED BY <1>4, <2>1, <2>4, <2>5, <2>6
  <1> QED BY <1>3, <1>4

\* Every step of the gate is a step of the limiter, or none of it.
LEMMA GateStepsTheLimiter == [GateNext]_gateVars => [Next]_vars
  <1> SUFFICES ASSUME [GateNext]_gateVars PROVE [Next]_vars
    OBVIOUS
  <1>1. CASE GateTick
    BY <1>1 DEF GateTick, Next
  <1>2. CASE Received
    BY <1>2 DEF Received
  <1>3. ASSUME NEW request \in IF settings.limited THEN Followed ELSE Calls,
               Pass(request) \/ Let(request) \/ TurnAway(request)
        PROVE  [Next]_vars
    <2>1. CASE Pass(request)
      BY <2>1 DEF Pass
    <2>2. CASE Let(request) \/ TurnAway(request)
      <3>1. Identity(request) \in Keys
        BY <2>2, RequestAssumption DEF Let, TurnAway
      <3> QED BY <2>2, <3>1 DEF Let, TurnAway, Next
    <2> QED BY <1>3, <2>1, <2>2
  <1>4. CASE UNCHANGED gateVars
    BY <1>4 DEF gateVars
  <1> QED BY <1>1, <1>2, <1>3, <1>4 DEF GateNext

\* Behind the gate, check works as it does alone.
LEMMA GateContainsTheLimiter == GateSpec => Spec
  <1>1. GateInit => Init
    BY DEF GateInit
  <1> QED BY <1>1, GateStepsTheLimiter, PTL DEF GateSpec, Spec

\* Every step of the gate keeps its invariant.
LEMMA NextGateInv == GateInv /\ [GateNext]_gateVars => GateInv'
  <1> SUFFICES ASSUME GateInv, [GateNext]_gateVars PROVE GateInv'
    OBVIOUS
  <1>1. settings \in Settings /\ HandledWithinPolicy
    BY DEF GateInv
  <1>2. CASE UNCHANGED <<settings, reply>>
    BY <1>1, <1>2 DEF GateInv, HandledWithinPolicy
  <1>3. CASE Received
    BY <1>1, <1>3 DEF Received, GateInv, HandledWithinPolicy
  <1>4. ASSUME NEW request \in Calls \cup Followed, Pass(request) \/ Let(request)
        PROVE  GateInv'
    <2>1. settings' = settings /\ reply' = Handled(request)
      BY <1>4 DEF Pass, Let
    <2> QED BY <1>1, <2>1, HandlingIsWithinPolicy DEF GateInv
  <1>5. ASSUME NEW request \in Calls \cup Followed, TurnAway(request) PROVE GateInv'
    <2>1. settings' = settings /\ reply'.status = 429
      BY <1>5 DEF TurnAway
    <2> QED BY <1>1, <2>1 DEF GateInv, HandledWithinPolicy
  <1> QED BY <1>2, <1>3, <1>4, <1>5 DEF GateNext, GateTick, gateVars

\* Whatever roles share a key and however bindings are written, a request reaches
\* its handler only with a key of a sufficient role, in the tenant the key is
\* bound to.
THEOREM HandlersRunWithinPolicy == GateSpec => []HandledWithinPolicy
  <1>1. GateInit => GateInv
    BY DEF GateInit, GateInv, HandledWithinPolicy
  <1>2. GateInv => HandledWithinPolicy
    BY DEF GateInv
  <1> QED BY <1>1, <1>2, NextGateInv, PTL DEF GateSpec

\* What callers are told by check, and the budget they get, are the same behind the
\* middleware and the gate.
THEOREM GateKeepsTheLimits ==
  GateSpec => []AtMostTwiceTheBudget /\ RetryAfterIsHonest /\ RemainingIsHonest
  <1> QED BY GateContainsTheLimiter, BudgetIsKept, WaitIsHonest, RemainderIsHonest, PTL

-----------------------------------------------------------------------------
(* Ingestion jobs.                                                         *)

\* Before any request there is no job file.
LEMMA InitIngestionInv == JobInit => IngestionInv
  BY BoundAssumption, WorkerAssumption
  DEF JobInit, IngestionInv, JobTypeOK, JobInv, Statuses, NoFile, Empty, PCs

\* The steps of a task, a poll or a failing write concern one job, and the
\* other jobs keep what JobInv relates.
LEMMA OtherJobs ==
  ASSUME NEW j \in Jobs, JobInv(j),
         pc'[j] = pc[j], disk'[j] = disk[j], seen'[j] = seen[j],
         outcome'[j] = outcome[j], host'[j] = host[j], j \in saved' <=> j \in saved
  PROVE  JobInv(j)'
  BY DEF JobInv, OutcomeKnown

\* Every step preserves the invariant.
LEMMA NextIngestionInv == IngestionInv /\ [JobNext]_jobVars => IngestionInv'
  <1> SUFFICES ASSUME IngestionInv, [JobNext]_jobVars PROVE IngestionInv'
    OBVIOUS
  <1> USE DEF Statuses, NoFile, Empty
  <1>0. JobTypeOK /\ \A j \in Jobs : JobInv(j)
    BY DEF IngestionInv
  <1>1. ASSUME NEW j \in Jobs, NEW w \in Workers, Create(j, w) PROVE IngestionInv'
    <2>1. JobTypeOK'
      BY <1>0, <1>1 DEF Create, GoTo, Write, JobTypeOK, PCs
    <2>2. JobInv(j)'
      BY <1>0, <1>1 DEF Create, GoTo, Write, JobTypeOK, JobInv
    <2>3. \A k \in Jobs \ {j} : JobInv(k)'
      BY <1>0, <1>1, OtherJobs DEF Create, GoTo, Write, JobTypeOK
    <2> QED BY <2>1, <2>2, <2>3 DEF IngestionInv
  <1>2. ASSUME NEW j \in Jobs, Submitted(j) PROVE IngestionInv'
    <2>1. JobTypeOK'
      BY <1>0, <1>2 DEF Submitted, GoTo, Write, task, JobTypeOK, PCs
    <2>2. JobInv(j)'
      BY <1>0, <1>2 DEF Submitted, GoTo, Write, task, JobTypeOK, JobInv, OutcomeKnown, Terminal
    <2>3. \A k \in Jobs \ {j} : JobInv(k)'
      BY <1>0, <1>2, OtherJobs DEF Submitted, GoTo, Write, task, JobTypeOK
    <2> QED BY <2>1, <2>2, <2>3 DEF IngestionInv
  <1>3. ASSUME NEW j \in Jobs, BeginRun(j) PROVE IngestionInv'
    <2>1. JobTypeOK'
      BY <1>0, <1>3 DEF BeginRun, GoTo, Write, task, JobTypeOK, PCs
    <2>2. JobInv(j)'
      BY <1>0, <1>3 DEF BeginRun, GoTo, Write, task, JobTypeOK, JobInv, OutcomeKnown, Terminal
    <2>3. \A k \in Jobs \ {j} : JobInv(k)'
      BY <1>0, <1>3, OtherJobs DEF BeginRun, GoTo, Write, task, JobTypeOK
    <2> QED BY <2>1, <2>2, <2>3 DEF IngestionInv
  <1>4. ASSUME NEW j \in Jobs, Running(j) PROVE IngestionInv'
    <2>1. JobTypeOK'
      BY <1>0, <1>4 DEF Running, GoTo, Write, task, JobTypeOK, PCs
    <2>2. JobInv(j)'
      BY <1>0, <1>4 DEF Running, GoTo, Write, task, JobTypeOK, JobInv, OutcomeKnown, Terminal
    <2>3. \A k \in Jobs \ {j} : JobInv(k)'
      BY <1>0, <1>4, OtherJobs DEF Running, GoTo, Write, task, JobTypeOK
    <2> QED BY <2>1, <2>2, <2>3 DEF IngestionInv
  <1>5. ASSUME NEW j \in Jobs, Pipeline(j) PROVE IngestionInv'
    <2>1. JobTypeOK'
      BY <1>0, <1>5 DEF Pipeline, GoTo, Write, task, JobTypeOK, PCs
    <2>2. JobInv(j)'
      BY <1>0, <1>5 DEF Pipeline, GoTo, Write, task, JobTypeOK, JobInv, OutcomeKnown, Terminal
    <2>3. \A k \in Jobs \ {j} : JobInv(k)'
      BY <1>0, <1>5, OtherJobs DEF Pipeline, GoTo, Write, task, JobTypeOK
    <2> QED BY <2>1, <2>2, <2>3 DEF IngestionInv
  <1>6. ASSUME NEW j \in Jobs, BeginRecord(j) PROVE IngestionInv'
    <2>1. JobTypeOK'
      BY <1>0, <1>6 DEF BeginRecord, GoTo, Write, task, JobTypeOK, PCs
    <2>2. JobInv(j)'
      BY <1>0, <1>6 DEF BeginRecord, GoTo, Write, task, JobTypeOK, JobInv, OutcomeKnown, Terminal
    <2>3. \A k \in Jobs \ {j} : JobInv(k)'
      BY <1>0, <1>6, OtherJobs DEF BeginRecord, GoTo, Write, task, JobTypeOK
    <2> QED BY <2>1, <2>2, <2>3 DEF IngestionInv
  <1>7. ASSUME NEW j \in Jobs, Record(j) PROVE IngestionInv'
    <2>1. JobTypeOK'
      BY <1>0, <1>7 DEF Record, GoTo, Write, task, JobTypeOK, PCs
    <2>2. JobInv(j)'
      BY <1>0, <1>7 DEF Record, GoTo, Write, task, JobTypeOK, JobInv, OutcomeKnown, Terminal
    <2>3. \A k \in Jobs \ {j} : JobInv(k)'
      BY <1>0, <1>7, OtherJobs DEF Record, GoTo, Write, task, JobTypeOK
    <2> QED BY <2>1, <2>2, <2>3 DEF IngestionInv
  <1>10. ASSUME NEW j \in Jobs, Poll(j) PROVE IngestionInv'
    <2>1. JobTypeOK'
      BY <1>0, <1>10 DEF Poll, GoTo, Write, task, JobTypeOK, PCs
    <2>2. JobInv(j)'
      BY <1>0, <1>10 DEF Poll, GoTo, Write, task, JobTypeOK, JobInv, OutcomeKnown, Terminal
    <2>3. \A k \in Jobs \ {j} : JobInv(k)'
      BY <1>0, <1>10, OtherJobs DEF Poll, GoTo, Write, task, JobTypeOK
    <2> QED BY <2>1, <2>2, <2>3 DEF IngestionInv
  <1>11. ASSUME NEW j \in Jobs, WriteFails(j) PROVE IngestionInv'
    <2>1. JobTypeOK'
      BY <1>0, <1>11, BoundAssumption DEF WriteFails, GoTo, Write, task, JobTypeOK, PCs
    <2>2. JobInv(j)'
      BY <1>0, <1>11 DEF WriteFails, GoTo, Write, task, JobTypeOK, JobInv, OutcomeKnown, Terminal
    <2>3. \A k \in Jobs \ {j} : JobInv(k)'
      BY <1>0, <1>11, OtherJobs DEF WriteFails, GoTo, Write, task, JobTypeOK
    <2> QED BY <2>1, <2>2, <2>3 DEF IngestionInv
  <1>8. ASSUME NEW w \in Workers, Crash(w) PROVE IngestionInv'
    <2>1. JobTypeOK'
      BY <1>0, <1>8, BoundAssumption DEF Crash, JobTypeOK, PCs
    <2>2. ASSUME NEW k \in Jobs, pc'[k] = pc[k] PROVE JobInv(k)'
      BY <1>0, <1>8, <2>2, OtherJobs DEF Crash
    <2>3. ASSUME NEW k \in Jobs, pc'[k] # pc[k] PROVE JobInv(k)'
      <3>1. pc[k] \notin {"done", "dead"} /\ pc'[k] = "dead" /\ UNCHANGED <<disk, seen>>
        BY <1>0, <1>8, <2>3 DEF Crash, JobTypeOK
      <3>2. pc[k] # "new"
        BY <1>0, <1>8, <2>3, WorkerAssumption DEF Crash, JobInv, JobTypeOK
      <3> QED BY <1>0, <3>1, <3>2 DEF JobInv, JobTypeOK, PCs
    <2> QED BY <2>1, <2>2, <2>3 DEF IngestionInv
  <1>9. CASE UNCHANGED jobVars
    <2>1. JobTypeOK'
      BY <1>0, <1>9 DEF jobVars, task, JobTypeOK
    <2>2. \A k \in Jobs : JobInv(k)'
      BY <1>0, <1>9, OtherJobs DEF jobVars, task
    <2> QED BY <2>1, <2>2 DEF IngestionInv
  <1> QED
    BY <1>1, <1>2, <1>3, <1>4, <1>5, <1>6, <1>7, <1>8, <1>9, <1>10, <1>11 DEF JobNext, Steps

\* The invariant holds in every reachable state.
THEOREM IngestionInvariant == JobSpec => []IngestionInv
  BY InitIngestionInv, NextIngestionInv, PTL DEF JobSpec

\* Type correctness.
THEOREM JobTypeCorrect == JobSpec => []JobTypeOK
  <1>1. IngestionInv => JobTypeOK
    BY DEF IngestionInv
  <1> QED BY IngestionInvariant, <1>1, PTL

\* A client never sees an outcome the index contradicts: a job seen as succeeded
\* has replaced the index and a job seen as failed has not.
THEOREM OutcomesAreTrue == JobSpec => []ReportedOutcomeIsTrue
  <1>1. IngestionInv => ReportedOutcomeIsTrue
    BY DEF IngestionInv, JobTypeOK, JobInv, OutcomeKnown, ReportedOutcomeIsTrue, PCs,
           Statuses, Terminal, NoFile, Empty
  <1> QED BY IngestionInvariant, <1>1, PTL

\* Polls never see a job go back and never see a terminal status change.
THEOREM StatusIsMonotonic == JobSpec => StatusMovesForward
  <1>1. ASSUME IngestionInv, [JobNext]_jobVars PROVE [StatusStep]_jobVars
    <2> USE DEF Rank, Statuses, Terminal, NoFile, Empty
    <2>1. ASSUME NEW j \in Jobs, seen'[j] = seen[j]
          PROVE  Rank(seen'[j]) >= Rank(seen[j]) /\ (seen[j] \in Terminal => seen'[j] = seen[j])
      BY <2>1
    <2>2. ASSUME NEW j \in Jobs, Submitted(j) PROVE StatusStep
      BY <1>1, <2>2 DEF Submitted, StatusStep, IngestionInv, JobInv, JobTypeOK
    <2>3. ASSUME NEW j \in Jobs, Poll(j) PROVE StatusStep
      BY <1>1, <2>3 DEF Poll, StatusStep, IngestionInv, JobInv, JobTypeOK, PCs, OutcomeKnown
    <2>4. ASSUME UNCHANGED seen PROVE StatusStep
      BY <2>1, <2>4 DEF StatusStep
    <2>5. CASE \E j \in Jobs : BeginRun(j) \/ Running(j) \/ Pipeline(j) \/ BeginRecord(j)
                                \/ Record(j) \/ WriteFails(j)
      BY <2>4, <2>5 DEF BeginRun, Running, Pipeline, BeginRecord, Record, WriteFails
    <2>6. CASE \/ \E j \in Jobs, w \in Workers : Create(j, w)
               \/ \E w \in Workers : Crash(w)
      BY <2>4, <2>6 DEF Create, Crash
    <2> QED BY <1>1, <2>2, <2>3, <2>5, <2>6 DEF JobNext, Steps
  <1> QED BY <1>1, IngestionInvariant, PTL DEF JobSpec, StatusMovesForward
=============================================================================

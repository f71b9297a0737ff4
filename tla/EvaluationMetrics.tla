------------------------- MODULE EvaluationMetrics -------------------------
(***************************************************************************)
(* The measures of the offline evaluation and the statistics of the        *)
(* benchmark.  Pure operators.                                             *)
(*                                                                         *)
(* A measure is a number of ten-thousandths, since the code rounds to four *)
(* digits.  A text is a sequence of sentences, a sentence the set of its   *)
(* content words; the marker of a refusal is a word of its own.            *)
(***************************************************************************)
EXTENDS PythonLists

Refusal == "cannot answer"

One == 10000

\* round(a / b, 4).
Ratio(a, b) == (2 * One * a + b) \div (2 * b)

\* The total of a sequence of numbers.
Total(values) ==
  LET sum[n \in 0..Len(values)] == IF n = 0 THEN 0 ELSE sum[n - 1] + values[n]
  IN  sum[Len(values)]

\* _mean.
Mean(values) == IF values = <<>> THEN 0 ELSE Ratio(Total(values), One * Len(values))

\* Mutant: nothing is collapsed.
NotDeduped(ids) == ids

\* _dedupe: the first of each id.
Deduped(ids) ==
  At(ids, {i \in DOMAIN ids : \A j \in 1..(i - 1) : ids[j] # ids[i]})

\* list[:k].
Top(ids, k) == SubSeq(ids, 1, IF k < Len(ids) THEN k ELSE Len(ids))

Hits(ids, relevant) == Cardinality({i \in DOMAIN ids : ids[i] \in relevant})

PrecisionAtK(retrieved, relevant, k) ==
  LET top == Top(Deduped(retrieved), k)
  IN  IF top = <<>> THEN 0 ELSE Ratio(Hits(top, relevant), Len(top))

RecallAtK(retrieved, relevant, k) ==
  IF relevant = {} THEN 0
  ELSE Ratio(Hits(Top(Deduped(retrieved), k), relevant), Cardinality(relevant))

ReciprocalRank(retrieved, relevant) ==
  LET unique == Deduped(retrieved)
      ranks == {i \in DOMAIN unique : unique[i] \in relevant}
  IN  IF ranks = {} THEN 0 ELSE Ratio(1, CHOOSE r \in ranks : \A s \in ranks : r <= s)

ContextHit(retrieved, relevant) == ToSet(retrieved) \cap relevant # {}

KeywordCoverage(answer, expected) ==
  IF expected = {} THEN One
  ELSE Ratio(Cardinality(expected \cap UNION ToSet(answer)), Cardinality(expected))

\* groundedness_score: the share of the sentences with content words of which at
\* least half the words are in the context.
Groundedness(answer, context) ==
  LET scored == {i \in DOMAIN answer : answer[i] # {}}
      supported ==
        {i \in scored : 2 * Cardinality(answer[i] \cap context) >= Cardinality(answer[i])}
  IN  IF scored = {} \/ context = {} THEN 0 ELSE Ratio(Cardinality(supported), Cardinality(scored))

IsRefusal(answer) == Refusal \in UNION ToSet(answer)

-----------------------------------------------------------------------------
\* aggregate_report: retrieval and citations over the answerable cases, the rest
\* over all.
Share(cases, Holds(_)) == Mean([i \in DOMAIN cases |-> IF Holds(cases[i]) THEN One ELSE 0])

Aggregate(cases) ==
  LET answerable == At(cases, {i \in DOMAIN cases : cases[i].answerable})
      over(list, Measure(_)) == Mean([i \in DOMAIN list |-> Measure(list[i])])
  IN  [evaluated |-> Len(answerable),
       total |-> Len(cases),
       precision |-> over(answerable, LAMBDA c : c.precision),
       recall |-> over(answerable, LAMBDA c : c.recall),
       rank |-> over(answerable, LAMBDA c : c.rank),
       hitRate |-> Share(answerable, LAMBDA c : c.hit),
       alignment |-> Share(answerable, LAMBDA c : c.aligned),
       coverage |-> over(cases, LAMBDA c : c.coverage),
       groundedness |-> over(cases, LAMBDA c : c.groundedness),
       refusals |-> Share(cases, LAMBDA c : c.refusalCorrect)]

-----------------------------------------------------------------------------
(* The benchmark.                                                          *)

\* _time_calls.
Measured(calls, warmup) == SubSeq(calls, warmup + 1, Len(calls))

Ordered(samples) == Sorted(samples, <)

\* percentile by nearest rank, for a percentage from 1 to 100.
Percentile(samples, percent) == Ordered(samples)[(percent * Len(samples) + 99) \div 100]

\* statistics.median, doubled.
TwiceMedian(samples) ==
  LET n == Len(samples)
      ordered == Ordered(samples)
  IN  ordered[(n + 1) \div 2] + ordered[n \div 2 + 1]

Summary(samples) ==
  [samples |-> Len(samples),
   mean |-> Ratio(Total(samples), Len(samples)),
   twiceMedian |-> TwiceMedian(samples),
   p95 |-> Percentile(samples, 95),
   min |-> Ordered(samples)[1],
   max |-> Ordered(samples)[Len(samples)]]
=============================================================================

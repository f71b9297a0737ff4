-------------------------- MODULE OfflineCommands --------------------------
(***************************************************************************)
(* The commands that measure: evaluate, experiment run and benchmark, over *)
(* the directory of BatchCommands.  Their reports are written in place.    *)
(*                                                                         *)
(* evaluate loads the index twice, once for its retriever and once for its *)
(* agent; another process may update the index in between.  Experiments    *)
(* and benchmarks build an index of their own in memory.                   *)
(*                                                                         *)
(* The ranking is by shared words, an answer is drawn from the text of the *)
(* first result, or a refusal: the agent and the hallucination check are   *)
(* modelled in AnswerPipeline.  Logging to MLflow is left out.             *)
(***************************************************************************)
EXTENDS BatchCommands, EvaluationMetrics

CONSTANTS
  CaseFiles,    \* files of evaluation cases
  TopKs,        \* the depth of retrieval
  Repetitions,  \* measured repetitions of a benchmark phase
  Warmups,      \* repetitions that are thrown away
  Durations,    \* how long one repetition may take
  MaxMeasured   \* bound: a measuring command is among the first so many commands

ASSUME DepthsAssumption == TopKs \subseteq Nat \ {0}
ASSUME CasesAssumption ==
  \A cases \in CaseFiles :
    /\ cases \in Seq(ToSet(cases))
    /\ \A i \in DOMAIN cases :
         IsFiniteSet(cases[i].relevant) /\ cases[i].answerable \in BOOLEAN
ASSUME RepetitionsAssumption ==
  /\ Repetitions \subseteq Nat \ {0}
  /\ Warmups \subseteq Nat /\ Durations \subseteq Nat
  /\ MaxMeasured \in Nat

Report == <<"evaluation_report.json">>
Results == <<"results.json">>
Metrics == <<"metrics.json">>
Metadata == <<"run_metadata.json">>
BenchmarkJson == <<"benchmark_results.json">>
BenchmarkTable == <<"benchmark_results.md">>

\* The order of the phases.
Phases == <<"indexing", "embedding", "retrieval", "agent_response">>

VARIABLES
  measuring,  \* bound: this behaviour runs the measuring commands, or the batch ones
  held,       \* None, or the chunks evaluate has given to its retriever
  timed       \* None, or the benchmark at work: its phases so far, summarised

offline == <<measuring, held, timed>>
allVars == <<vars, offline>>

Free == Idle /\ ran < MaxMeasured /\ measuring /\ held = None /\ timed = None

-----------------------------------------------------------------------------
(* One evaluation case.                                                    *)

\* The results of a search, best first.
Searched(store, question, k) ==
  LET score(chunk) == Cardinality(ToSet(chunk.text) \cap question)
      found == {c \in store : score(c) > 0}
  IN  Top(Sorted(SetToSeq(found), LAMBDA c, d : score(c) > score(d)), k)

Answer(results) ==
  IF results = <<>> THEN <<{Refusal}>> ELSE <<ToSet(Head(results).text)>>

\* evaluate_case_detailed: the retriever's results against the agent's answer.
CaseResult(retriever, agent, case, k) ==
  LET results == Searched(retriever, case.question, k)
      evidence == Searched(agent, case.question, k)
      answer == Answer(evidence)
      ids == [i \in DOMAIN results |-> results[i].source]
  IN  [answerable |-> case.answerable,
       retrieved |-> Deduped(ids),
       relevant |-> case.relevant,
       precision |-> PrecisionAtK(ids, case.relevant, k),
       recall |-> RecallAtK(ids, case.relevant, k),
       rank |-> ReciprocalRank(ids, case.relevant),
       hit |-> ContextHit(ids, case.relevant),
       coverage |-> KeywordCoverage(answer, case.keywords),
       groundedness |-> Groundedness(answer, UNION {ToSet(r.text) : r \in ToSet(results)}),
       aligned |-> {r.source : r \in ToSet(evidence)} \cap case.relevant # {},
       refused |-> IsRefusal(answer),
       refusalCorrect |-> IsRefusal(answer) # case.answerable]

\* evaluate_system.
Evaluated(retriever, agent, cases, k) ==
  LET results == [i \in DOMAIN cases |-> CaseResult(retriever, agent, cases[i], k)]
  IN  [cases |-> results, totals |-> Aggregate(results)]

-----------------------------------------------------------------------------
(* The commands.                                                           *)

\* load_or_build_index for the retriever; an index that is missing is built from
\* the CSV and saved.
EvaluateLoad ==
  /\ Free
  /\ IF index = Missing
       THEN /\ BuildIndex
            /\ held' = index'.chunks
       ELSE /\ IndexLoads
            /\ held' = Stored
            /\ ran' = ran + 1
            /\ UNCHANGED <<disk, index, command, written, merged, exported>>
  /\ UNCHANGED <<measuring, timed>>

\* build_agent loads the index again; then the cases are run.
EvaluateRun ==
  /\ held # None /\ command = None
  /\ IndexLoads
  /\ \E cases \in CaseFiles, k \in TopKs :
       command' = [writes |-> <<[file |-> Report, content |-> Evaluated(held, Stored, cases, k)]>>,
                   update |-> None, export |-> None]
  /\ held' = None
  /\ UNCHANGED <<disk, index, ran, written, merged, exported, measuring, timed>>

\* experiment run: results, metrics and metadata of one configuration.
Experiment(cases, size, k) ==
  /\ Free /\ Loads
  /\ LET store == UNION {Chunks(r, size[1], size[2]) : r \in ToSet(disk[Csv])}
         outcome == Evaluated(store, store, cases, k)
         config == [size |-> size, depth |-> k]
     IN  Begin(<<[file |-> Results, content |-> [config |-> config, cases |-> outcome.cases,
                                                 totals |-> outcome.totals]],
                 [file |-> Metrics, content |-> outcome.totals],
                 [file |-> Metadata, content |-> config]>>, None, None)
  /\ UNCHANGED <<disk, index, written, merged, exported, offline>>

\* run_benchmark refuses an empty file of cases.
StartBenchmark(cases, warmup, repetitions) ==
  /\ Free /\ Loads
  /\ cases # <<>>
  /\ timed' = [warmup |-> warmup, repetitions |-> repetitions, phases |-> <<>>]
  /\ ran' = ran + 1
  /\ UNCHANGED <<disk, index, command, written, merged, exported, measuring, held>>

\* One phase is warmed up, timed and summarised.
TimePhase ==
  /\ timed # None /\ Len(timed.phases) < Len(Phases)
  /\ \E calls \in [1..(timed.warmup + timed.repetitions) -> Durations] :
       timed' = [timed EXCEPT !.phases = Append(@, Summary(Measured(calls, timed.warmup)))]
  /\ UNCHANGED <<vars, measuring, held>>

\* write_benchmark_outputs.
WriteBenchmark ==
  /\ timed # None /\ Len(timed.phases) = Len(Phases)
  /\ command' = [writes |-> <<[file |-> BenchmarkJson, content |-> timed],
                              [file |-> BenchmarkTable, content |-> timed.phases]>>,
                 update |-> None, export |-> None]
  /\ timed' = None
  /\ UNCHANGED <<disk, index, ran, written, merged, exported, measuring, held>>

\* The process dies before it writes.
CrashEarly ==
  /\ held # None \/ timed # None
  /\ held' = None /\ timed' = None
  /\ UNCHANGED <<vars, measuring>>

-----------------------------------------------------------------------------
OfflineInit ==
  /\ Init
  /\ measuring \in BOOLEAN
  /\ held = None
  /\ timed = None

OfflineNext ==
  \/ EvaluateLoad \/ EvaluateRun
  \/ \E cases \in CaseFiles, size \in Sizes, k \in TopKs : Experiment(cases, size, k)
  \/ \E cases \in CaseFiles, warmup \in Warmups, repetitions \in Repetitions :
       StartBenchmark(cases, warmup, repetitions)
  \/ TimePhase \/ WriteBenchmark
  \/ CrashEarly
  \/ measuring /\ UNCHANGED offline
       /\ (Write \/ Finish \/ Crash \/ \E size \in Sizes : UpdateIndex(size))
  \/ ~measuring /\ Next /\ UNCHANGED offline

OfflineSpec == OfflineInit /\ [][OfflineNext]_allVars

-----------------------------------------------------------------------------
(* Properties.                                                             *)

\* The measures of a case agree with each other: precision and recall count the
\* same documents, a document retrieved several times counting once; the first
\* relevant one is no deeper than the misses allow, and there is one exactly if
\* the context was hit.  This holds because a search returns at most k results, so
\* that collapsing before or after the cut is the same.
CaseAgrees(case) ==
  LET retrieved == ToSet(case.retrieved)
      n == Cardinality(retrieved)
      hits == Cardinality(retrieved \cap case.relevant)
  IN  /\ Len(case.retrieved) = n
      /\ case.precision = (IF n = 0 THEN 0 ELSE Ratio(hits, n))
      /\ case.recall = (IF case.relevant = {} THEN 0 ELSE Ratio(hits, Cardinality(case.relevant)))
      /\ case.hit <=> hits > 0
      /\ IF case.hit THEN \E rank \in 1..(n - hits + 1) : case.rank = Ratio(1, rank)
         ELSE case.rank = 0

\* No average over the answerable cases exceeds their rate of hits.  (An average
\* of many cases may be rounded to zero although one was hit.)
ReportAgrees(report) ==
  LET totals == report.totals
  IN  /\ \A i \in DOMAIN report.cases : CaseAgrees(report.cases[i])
      /\ \A m \in {totals.precision, totals.recall, totals.rank} : m <= totals.hitRate

\* The statistics of a phase are of the measured repetitions alone: as many as
\* asked for, none slower than the slowest or faster than the fastest.
PhaseIsObserved(phase, repetitions) ==
  /\ phase.samples = repetitions
  /\ {phase.min, phase.p95, phase.max} \subseteq Durations
  /\ phase.min <= phase.p95 /\ phase.p95 <= phase.max
  /\ 2 * phase.min <= phase.twiceMedian /\ phase.twiceMedian <= 2 * phase.p95
  /\ One * phase.min <= phase.mean /\ phase.mean <= One * phase.max

LatencyIsObserved(report) ==
  \A n \in DOMAIN report.phases : PhaseIsObserved(report.phases[n], report.repetitions)

\* What the file of a report says is what happened.
Honest(file, content) ==
  /\ file \in {Report, Results} => ReportAgrees(content)
  /\ file = BenchmarkJson => LatencyIsObserved(content)

\* What the evaluation and benchmark commands report is what happened.
ReportsAreHonest ==
  \A file \in {Report, Results, BenchmarkJson} \cap DOMAIN disk :
    disk[file] # Torn => Honest(file, disk[file])

-----------------------------------------------------------------------------
(* Why: the inductive invariant.                                           *)

\* A benchmark at work.
TimedInv ==
  /\ timed = [warmup |-> timed.warmup, repetitions |-> timed.repetitions,
              phases |-> timed.phases]
  /\ timed.warmup \in Warmups /\ timed.repetitions \in Repetitions
  /\ timed.phases \in Seq(ToSet(timed.phases))
  /\ LatencyIsObserved(timed)

\* Reports written and to be written are honest, and the index is finite.
HonestInv ==
  /\ \A file \in DOMAIN disk : disk[file] # Torn => Honest(file, disk[file])
  /\ command # None => \A w \in ToSet(command.writes) : Honest(w.file, w.content)
  /\ index # Missing => IsFiniteSet(index.chunks)

\* So is what they will be made of.
ReportsInv ==
  /\ HonestInv
  /\ timed # None => TimedInv
  /\ held # None => IsFiniteSet(held)
=============================================================================
